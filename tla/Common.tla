------------------------------- MODULE Common --------------------------------
(***************************************************************************)
(* The values every module of the session pods talks about.                *)
(***************************************************************************)
CONSTANTS
    Keys,       \* pod keys: (user, server type) pairs
    Tokens,     \* pod tokens newPodToken can return
    IPs,        \* pod addresses the cluster hands out
    None        \* an absent object, token or address

ASSUME NoneAssumption == None \notin Keys \cup Tokens \cup IPs

Phases == {"Pending", "Starting", "Ready", "Idle", "Failed", "Terminating"}
=============================================================================
