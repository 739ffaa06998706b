------------------------------ MODULE PodCaps --------------------------------
(***************************************************************************)
(* The admission of session pods: gateway/manager.go checks the caps per   *)
(* user, per server type and in total against the rows of the routing      *)
(* table, and only then writes the row of the new pod.  Other requests are *)
(* admitted, and rows go, between the count and the write.  A request that *)
(* waits for its pod writes the row again when the pod is ready, whatever  *)
(* happened to the row meanwhile.                                          *)
(*                                                                         *)
(* adapters/routing/memory counts under its lock.  adapters/routing/redis  *)
(* lists the index first and reads the rows after that; the reads are one  *)
(* step here, which lets every row deleted since then go uncounted.        *)
(***************************************************************************)
EXTENDS Naturals, FiniteSets

CONSTANTS
    Users, Types,
    Requests,       \* concurrent requests
    PodsPerUser,    \* grants.PodsPerUser
    MaxPods,        \* servers[].maxPods
    TotalPods       \* gateway.caps.totalPods

ASSUME CapsAssumption ==
    /\ IsFiniteSet(Requests)
    /\ PodsPerUser \in Nat /\ MaxPods \in Nat /\ TotalPods \in Nat

VARIABLES
    table,          \* the adapter gateway.routing.type selects
    rows,           \* keys with a row in the routing table
    req             \* req[q]: the request's step, key, and the index it listed

vars == <<table, rows, req>>

-----------------------------------------------------------------------------

PodKeys == Users \X Types

IdleReq == [pc |-> "idle", key |-> <<>>, seen |-> {}]

TypeOK ==
    /\ table \in {"memory", "redis"}
    /\ rows \subseteq PodKeys
    /\ req \in [Requests -> [pc : {"idle", "count", "counting", "put", "ensure", "hold"},
                             key : PodKeys \cup {<<>>}, seen : SUBSET PodKeys]]
    /\ \A q \in Requests : req[q].pc # "idle" => req[q].key \in PodKeys

Init ==
    /\ table \in {"memory", "redis"}
    /\ rows = {}
    /\ req = [q \in Requests |-> IdleReq]

-----------------------------------------------------------------------------

OfUser(u) == {k \in PodKeys : k[1] = u}
OfType(t) == {k \in PodKeys : k[2] = t}

At(q, pc) == req[q].pc = pc
GoTo(q, pc) == req' = [req EXCEPT ![q].pc = pc]
Finish(q) == req' = [req EXCEPT ![q] = IdleReq]

\* GetPod: a pod that is not Ready is waited for, one that is there and Ready
\* needs no further step.
GetPod(q, k) ==
    /\ At(q, "idle")
    /\ req' = [req EXCEPT ![q] = [pc |-> IF k \in rows THEN "hold" ELSE "count",
                                  key |-> k, seen |-> {}]]
    /\ UNCHANGED rows

\* Mutant: the comparison admits one more.
HasRoomOffByOne(S, k) ==
    /\ Cardinality(S \cap OfUser(k[1])) <= PodsPerUser
    /\ Cardinality(S \cap OfType(k[2])) <= MaxPods
    /\ Cardinality(S) <= TotalPods

\* The rows S leave room for the pod of key k under every cap.
HasRoom(S, k) ==
    /\ Cardinality(S \cap OfUser(k[1])) < PodsPerUser
    /\ Cardinality(S \cap OfType(k[2])) < MaxPods
    /\ Cardinality(S) < TotalPods

Admit(q, S) == IF HasRoom(S, req[q].key) THEN GoTo(q, "put") ELSE Finish(q)

CountMemory(q) ==
    /\ table = "memory"
    /\ At(q, "count")
    /\ Admit(q, rows)
    /\ UNCHANGED rows

ListIndex(q) ==
    /\ table = "redis"
    /\ At(q, "count")
    /\ req' = [req EXCEPT ![q].pc = "counting", ![q].seen = rows]
    /\ UNCHANGED rows

CountRedis(q) ==
    /\ At(q, "counting")
    /\ IF HasRoom(req[q].seen \cap rows, req[q].key)
       THEN req' = [req EXCEPT ![q].pc = "put", ![q].seen = {}]
       ELSE Finish(q)
    /\ UNCHANGED rows

PutPending(q) ==
    /\ At(q, "put")
    /\ rows' = rows \cup {req[q].key}
    /\ GoTo(q, "ensure")

\* The provisioner accepts the pod, or the row goes again.
Ensure(q) ==
    /\ At(q, "ensure")
    /\ \/ GoTo(q, "hold") /\ rows' = rows
       \/ Finish(q) /\ rows' = rows \ {req[q].key}

\* hold: the pod became Ready, it Failed, or the wait was given up.
Hold(q) ==
    /\ At(q, "hold")
    /\ Finish(q)
    /\ rows' \in {rows \cup {req[q].key}, rows \ {req[q].key}, rows}

\* Release by a user, an administrator or the reaper.
Release(k) ==
    /\ rows' = rows \ {k}
    /\ UNCHANGED req

Step(q) ==
    \/ \E k \in PodKeys : GetPod(q, k)
    \/ CountMemory(q) \/ ListIndex(q) \/ CountRedis(q) \/ PutPending(q) \/ Ensure(q) \/ Hold(q)

Next ==
    /\ (\E q \in Requests : Step(q)) \/ (\E k \in PodKeys : Release(k))
    /\ UNCHANGED table

Spec == Init /\ [][Next]_vars

-----------------------------------------------------------------------------

Slots == Cardinality(Requests)

Overshoot(n) ==
    /\ \A u \in Users : Cardinality(rows \cap OfUser(u)) < PodsPerUser + n
    /\ \A t \in Types : Cardinality(rows \cap OfType(t)) < MaxPods + n
    /\ Cardinality(rows) < TotalPods + n

\* Requests that race past the count of the memory table overshoot a cap by at most one pod
\* each, the last of them by none: with no two requests at once the caps are exact.
OvershootMemory == table = "memory" => Overshoot(Slots)

\* A count of the Redis table is as old as its listing of the index, so a request can also be
\* admitted past a row that was written back meanwhile: the others overshoot by two pods each.
OvershootRedis == table = "redis" => Overshoot(2 * Slots - 1)

\* "So two gateway replicas racing cannot exceed them" (the caps): nothing looks at the caps
\* after the gateway's count.
CapsHard ==
    /\ \A u \in Users : Cardinality(rows \cap OfUser(u)) <= PodsPerUser
    /\ \A t \in Types : Cardinality(rows \cap OfType(t)) <= MaxPods
    /\ Cardinality(rows) <= TotalPods
=============================================================================
