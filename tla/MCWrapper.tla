----------------------------- MODULE MCWrapper -------------------------------
(***************************************************************************)
(* The two modes of the wrapper, a stdio child and an HTTP server.  They   *)
(* share no state: a behaviour is one of the mode its first state chooses. *)
(***************************************************************************)
EXTENDS WrapperChild, HttpMode

VARIABLE part

WrapperInit ==
    /\ part \in {"stdio", "http"}
    /\ Init
    /\ HttpInit /\ (part # "http" => hcfg = [mode |-> "none", header |-> "custom", item |-> ""])

WrapperNext ==
    \/ part = "stdio" /\ Next /\ UNCHANGED <<httpVars, part>>
    \/ part = "http" /\ HttpNext /\ UNCHANGED <<vars, part>>

WrapperSpec == WrapperInit /\ [][WrapperNext]_<<vars, httpVars, part>> /\ Fairness /\ HttpFairness

\* The state of both modes is well formed.
WrapperTypeOK == TypeOK /\ HttpTypeOK
=============================================================================
