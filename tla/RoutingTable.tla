---------------------------- MODULE RoutingTable -----------------------------
(***************************************************************************)
(* adapters/routing/redis: the routing table shared by the gateways.  A    *)
(* pod's row and its sealed token are separate Redis keys, written in one  *)
(* transaction and read one after the other; each gateway process fronts   *)
(* Redis with a memory table that nothing invalidates from outside.        *)
(***************************************************************************)
EXTENDS Common

CONSTANT Replicas   \* gateway processes

ASSUME ReplicasAssumption == None \notin Replicas

VARIABLES
    row,        \* row[k]: <p>pod:<type>:<hash> in Redis, or None
    tok,        \* tok[k]: <p>podtok:<name> in Redis, or None
    mem         \* mem[r][k]: replica r's memory copy, or None

tableVars == <<row, tok, mem>>

-----------------------------------------------------------------------------

RowRecord == [phase : Phases, endpoint : IPs \cup {None}]

\* token None: the empty string.
PodRecord == [phase : Phases, endpoint : IPs \cup {None}, token : Tokens \cup {None}]

TableTypeOK ==
    /\ row \in [Keys -> RowRecord \cup {None}]
    /\ tok \in [Keys -> Tokens \cup {None}]
    /\ mem \in [Replicas -> [Keys -> PodRecord \cup {None}]]

TableInit ==
    /\ row = [k \in Keys |-> None]
    /\ tok = [k \in Keys |-> None]
    /\ mem = [r \in Replicas |-> [k \in Keys |-> None]]

-----------------------------------------------------------------------------

\* GetPod answers from memory alone when the copy there is Ready.
MemHit(r, k) == mem[r][k] # None /\ mem[r][k].phase = "Ready"

WithToken(rw, t) == [phase |-> rw.phase, endpoint |-> rw.endpoint, token |-> t]

\* The end of GetPod: the record goes to memory with the token read last.
Remember(r, k, p) == mem' = [mem EXCEPT ![r][k] = p]

Forget(r, k) == mem' = [mem EXCEPT ![r][k] = None]

\* PutPod: an empty token leaves the stored one in place.
PutPod(r, k, p) ==
    /\ row' = [row EXCEPT ![k] = [phase |-> p.phase, endpoint |-> p.endpoint]]
    /\ tok' = IF p.token = None THEN tok ELSE [tok EXCEPT ![k] = p.token]
    /\ Remember(r, k, p)

\* DeletePod clears Redis and the calling process's memory, no other's.
DeletePod(r, k) ==
    /\ row' = [row EXCEPT ![k] = None]
    /\ tok' = [tok EXCEPT ![k] = None]
    /\ Forget(r, k)

\* CountPods lists the rows, each through GetPod, and so remembers them.
CountPods(r) ==
    mem' = [mem EXCEPT ![r] =
              [k \in Keys |-> IF row[k] # None /\ ~MemHit(r, k)
                              THEN WithToken(row[k], tok[k]) ELSE mem[r][k]]]

\* Redis comes back empty.
LoseStore ==
    /\ row' = [k \in Keys |-> None]
    /\ tok' = [k \in Keys |-> None]
    /\ mem' = mem
=============================================================================
