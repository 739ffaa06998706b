----------------------------- MODULE MCControl -----------------------------
(***************************************************************************)
(* The parts around the pods, each by itself: the configuration (Config)   *)
(* and its ServerTypes (ConfigSync), the policy (Policy), the              *)
(* administration of users (Directory) and the egress proxy (Egress).      *)
(* They share no variable: a behaviour is one of the part its first state  *)
(* chooses.                                                                *)
(***************************************************************************)
EXTENDS Config, ConfigSync, Policy, Directory, Egress, TLC

VARIABLE part

controlVars == <<part, configVars, syncVars, policyVars, dirVars, egressVars>>

Parts == {"config", "sync", "policy", "directory", "egress"}

\* A part that does not move is in one of its initial states.
ControlInit ==
    /\ part \in Parts
    /\ ConfigInit /\ (part # "config" => file = Base)
    /\ SyncInit /\ (part # "sync" => loaded = 1 /\ objs["git"] = 0)
    /\ IF part = "policy" THEN PolicyInit
       ELSE /\ authz = CHOOSE d \in Docs : TRUE
            /\ rules = CHOOSE t \in Rules : TRUE
            /\ who = [groups |-> {}, adminScope |-> FALSE, client |-> ""]
    /\ DirInit /\ (part # "directory" => kc.exists /\ introspect)
    /\ EgressInit

Unless(p, vs) == part # p => UNCHANGED vs

ControlNext ==
    /\ UNCHANGED part
    /\ Unless("config", configVars) /\ Unless("sync", syncVars)
    /\ Unless("policy", policyVars) /\ Unless("directory", dirVars) /\ Unless("egress", egressVars)
    /\ \/ part = "config" /\ ConfigNext
       \/ part = "sync" /\ SyncNext
       \/ part = "policy" /\ PolicyNext
       \/ part = "directory" /\ DirNext
       \/ part = "egress" /\ EgressNext

ControlSpec == ControlInit /\ [][ControlNext]_controlVars

\* Admin requests and pod addresses are interchangeable.
Symmetry == Permutations(Admins) \cup Permutations(Ips)

\* The state of every part is well formed.
ControlTypeOK == ConfigTypeOK /\ SyncTypeOK /\ PolicyTypeOK /\ DirTypeOK /\ EgressTypeOK
=============================================================================
