----------------------------- MODULE MCGateway -------------------------------
(***************************************************************************)
(* The parts of the gateway's data plane, side by side: the caller's       *)
(* tokens, the admission of pods, the sessions of the adapters' endpoints, *)
(* the aggregated router and the user's secrets.  They share no variable,  *)
(* so the states are the sum of theirs: a behaviour is one of the part its *)
(* first state chooses.                                                    *)
(***************************************************************************)
EXTENDS Credentials, PodCaps, McpSessions, Router, UserSecrets, TLC

VARIABLE part

parts == {"credentials", "caps", "sessions", "router", "secrets"}

\* After a reload every server type runs with user credentials.  A part that does not run has
\* one initial state.
GatewayInit ==
    /\ part \in parts
    /\ CredInit
    /\ IF part = "credentials"
       THEN \* Introspection and the exchange meet in an admitted request only: one at a time.
            (broker = "exchange") <=> (identity = "bearer_jwt")
       ELSE identity = "bearer_jwt" /\ broker = "none" /\ \A b \in Bearers : expires[b] = MaxClock
    /\ Init /\ (part # "caps" => table = "memory")
    /\ SessInit
    /\ RouterInit /\ (\A h \in Configs \ {1}, t \in RTypes : config[h][t])
                 /\ (part # "router" => \A t \in RTypes : config[1][t])
    /\ SecretsInit /\ (part # "secrets" => decls = [sources |-> <<"header", "store">>, required |-> {}])

Unless(p, vs) == part # p => UNCHANGED vs

GatewayNext ==
    /\ UNCHANGED part
    /\ Unless("credentials", credVars) /\ Unless("caps", vars) /\ Unless("sessions", sessVars)
    /\ Unless("router", routerVars) /\ Unless("secrets", secretVars)
    /\ \/ part = "credentials" /\ CredNext
       \/ part = "caps" /\ Next
       \/ part = "sessions" /\ SessNext
       \/ part = "router" /\ RouterNext
       \/ part = "secrets" /\ SecretsNext

GatewaySpec == GatewayInit /\ [][GatewayNext]_<<part, credVars, vars, sessVars, routerVars, secretVars>>

\* The configuration gives the parts the same users and requests.
Symmetry == Permutations(Users) \cup Permutations(Requests)

\* The state of every part is well formed.
GatewayTypeOK == CredTypeOK /\ TypeOK /\ SessTypeOK /\ RouterTypeOK /\ SecretsTypeOK
=============================================================================
