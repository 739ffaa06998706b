--------------------------- MODULE PodCapsProofs ----------------------------
(***************************************************************************)
(* The caps on pods, for any users, server types, requests and caps: how far*)
(* requests that count at the same time overshoot them.                    *)
(***************************************************************************)
EXTENDS PodCaps, FiniteSetTheorems, TLAPS

-----------------------------------------------------------------------------
(***************************************************************************)
(* How far concurrent requests overshoot the caps: first over the memory   *)
(* table, then over the Redis table.  The rows alone are not inductive: a  *)
(* request that passed the count, or that waits for its pod, will still    *)
(* write its row.  Claimed counts those with the rows.  Nothing but the    *)
(* count itself makes Claimed larger, and when it lets a request through   *)
(* there are fewer rows than the cap and at most as many requests as       *)
(* slots.                                                                  *)
(***************************************************************************)

Claimants == {q \in Requests : req[q].pc \in {"put", "ensure", "hold"}}
Claimed == rows \cup {req[q].key : q \in Claimants}

\* One cap: c pods of the keys in M.
Within(M, c) == Cardinality(Claimed \cap M) < c + Slots

FiniteInv == TypeOK /\ IsFiniteSet(rows)

IInv ==
    /\ FiniteInv
    /\ \A u \in Users : Within(OfUser(u), PodsPerUser)
    /\ \A t \in Types : Within(OfType(t), MaxPods)
    /\ Within(PodKeys, TotalPods)

USE CapsAssumption

\* Every step keeps the rows well formed and finite.
LEMMA FiniteNext == FiniteInv /\ [Next]_vars => FiniteInv'
<1> SUFFICES ASSUME FiniteInv, [Next]_vars PROVE FiniteInv'
  BY Zenon
<1> USE DEF FiniteInv, TypeOK
<1>0. table' = table
  BY Zenon DEF Next, vars
<1>1. ASSUME NEW q \in Requests, Step(q) PROVE FiniteInv'
  <2>1. CASE \E k \in PodKeys : GetPod(q, k)
    <3>1. PICK k \in PodKeys : GetPod(q, k)
      BY Zenon, <2>1
    <3>2. /\ rows' = rows
          /\ \/ req' = [req EXCEPT ![q] = [pc |-> "hold", key |-> k, seen |-> {}]]
             \/ req' = [req EXCEPT ![q] = [pc |-> "count", key |-> k, seen |-> {}]]
      BY Zenon, <3>1 DEF GetPod, IdleReq
    <3> QED
      BY <1>0, <3>2
  <2>2. CASE CountMemory(q)
    BY <1>0, <2>2 DEF CountMemory, Admit, GoTo, Finish, At, IdleReq
  <2>3. CASE ListIndex(q) \/ CountRedis(q)
    BY <1>0, <2>3 DEF ListIndex, CountRedis, Finish, At, IdleReq
  <2>4. CASE PutPending(q)
    <3>1. IsFiniteSet(rows')
      BY Zenon, <2>4, FS_AddElement DEF PutPending
    <3> QED
      BY Zenon, <1>0, <2>4, <3>1 DEF PutPending, GoTo, At
  <2>5. CASE Ensure(q)
    <3>1. IsFiniteSet(rows')
      BY <2>5, FS_RemoveElement DEF Ensure
    <3> QED
      BY <1>0, <2>5, <3>1 DEF Ensure, GoTo, Finish, At, IdleReq
  <2>6. CASE Hold(q)
    <3>1. IsFiniteSet(rows')
      <4>1. \A k : IsFiniteSet(rows \cup {k}) /\ IsFiniteSet(rows \ {k})
        BY Zenon, FS_RemoveElement, FS_AddElement
      <4>2. \/ rows' = rows \cup {req[q].key} \/ rows' = rows \ {req[q].key} \/ rows' = rows
        BY Zenon, <2>6 DEF Hold
      <4>3. IsFiniteSet(rows)
        BY Zenon DEF FiniteInv
      <4> QED
        BY Zenon, <4>1, <4>2, <4>3
    <3> QED
      BY Zenon, <1>0, <2>6, <3>1 DEF Hold, Finish, At, IdleReq
  <2> QED
    BY Zenon, <1>1, <2>1, <2>2, <2>3, <2>4, <2>5, <2>6 DEF Step
<1>2. ASSUME NEW k \in PodKeys, Release(k) PROVE FiniteInv'
  BY Zenon, <1>0, <1>2, FS_RemoveElement DEF Release
<1>3. CASE UNCHANGED vars
  BY Zenon, <1>3 DEF vars
<1> QED
  BY Zenon, <1>1, <1>2, <1>3 DEF Next

\* The requests have at most as many keys as there are requests.
LEMMA KeyCount ==
    ASSUME NEW f, f = [q \in Requests |-> f[q]]
    PROVE  LET T == {f[q] : q \in Requests}
           IN IsFiniteSet(T) /\ Cardinality(T) <= Slots
<1> DEFINE T == {f[q] : q \in Requests}
<1>1. f \in Surjection(Requests, T)
  BY Zenon DEF Surjection
<1> QED
  BY Zenon, <1>1, FS_Surjection DEF Slots

\* What has a row or is about to get one is finitely many keys.
LEMMA ClaimedFinite == ASSUME FiniteInv PROVE IsFiniteSet(Claimed)
<1> DEFINE f == [q \in Requests |-> req[q].key]
           T == {f[q] : q \in Requests}
<1>1. IsFiniteSet(T)
  BY Zenon, KeyCount
<1>2. {req[q].key : q \in Claimants} \in SUBSET T
  BY Zenon DEF Claimants
<1>3. IsFiniteSet({req[q].key : q \in Claimants})
  BY Zenon, <1>1, <1>2, FS_Subset
<1> QED
  BY Zenon, <1>3, FS_Union DEF Claimed, FiniteInv

\* A step that claims no further key of M keeps M within its cap.
LEMMA Shrinks ==
    ASSUME FiniteInv, NEW M, NEW c \in Nat, Within(M, c), Claimed' \cap M \subseteq Claimed \cap M
    PROVE  Within(M, c)'
<1>1. IsFiniteSet(Claimed \cap M)
  BY Zenon, ClaimedFinite, FS_Intersection
<1>2. /\ Cardinality((Claimed \cap M)') <= Cardinality(Claimed \cap M)
      /\ IsFiniteSet((Claimed \cap M)')
  BY Zenon, <1>1, FS_Subset
<1>3. Slots \in Nat
  BY Zenon, FS_CardinalityType DEF Slots
<1> QED
  BY <1>1, <1>2, <1>3, FS_CardinalityType DEF Within, Slots

\* The count lets a request through only when M has room.
LEMMA AdmittedWithin ==
    ASSUME FiniteInv, NEW M, NEW c \in Nat, Cardinality(rows \cap M) < c, UNCHANGED rows,
           FiniteInv'
    PROVE  Within(M, c)'
<1> DEFINE f == [q \in Requests |-> req'[q].key]
           T == {f[q] : q \in Requests}
<1>1. IsFiniteSet(T) /\ Cardinality(T) <= Slots
  BY Zenon, KeyCount
<1>2. IsFiniteSet(rows \cap M)
  BY Zenon, FS_Intersection DEF FiniteInv
<1>3. (Claimed \cap M)' \in SUBSET ((rows \cap M) \cup T)
  BY Zenon DEF Claimed, Claimants
<1>4. /\ IsFiniteSet((rows \cap M) \cup T)
      /\ Cardinality((rows \cap M) \cup T) <= Cardinality(rows \cap M) + Cardinality(T)
  <2> DEFINE R == rows \cap M
  <2>1. IsFiniteSet(R \cap T) /\ IsFiniteSet(R) /\ IsFiniteSet(T)
    BY Zenon, <1>1, <1>2, FS_Intersection
  <2>2. Cardinality(R \cap T) \in Nat /\ Cardinality(R) \in Nat /\ Cardinality(T) \in Nat
    BY Zenon, <2>1, FS_CardinalityType
  <2>3. /\ IsFiniteSet(R \cup T)
        /\ Cardinality(R \cup T) = Cardinality(R) + Cardinality(T) - Cardinality(R \cap T)
    BY Zenon, <2>1, FS_Union
  <2> QED
    BY <2>2, <2>3
<1>5. /\ IsFiniteSet((Claimed \cap M)')
      /\ Cardinality((Claimed \cap M)') <= Cardinality((rows \cap M) \cup T)
  BY Zenon, <1>3, <1>4, FS_Subset
<1>6. Slots \in Nat
  BY Zenon, FS_CardinalityType DEF Slots
<1> QED
  BY <1>1, <1>2, <1>4, <1>5, <1>6, FS_CardinalityType DEF Within, Slots

\* Over the memory table only CountMemory can claim a key.
LEMMA OnlyCountClaims ==
    ASSUME FiniteInv, [Next]_vars, table = "memory",
           \A q \in Requests : req[q].pc # "counting"
    PROVE  \/ Claimed' \subseteq Claimed
           \/ \E q \in Requests :
                 /\ HasRoom(rows, req[q].key) /\ req[q].key \in PodKeys /\ UNCHANGED rows
                 /\ Claimed' \subseteq Claimed \cup {req[q].key}
<1> USE DEF FiniteInv, TypeOK, Claimed, Claimants, At
<1>1. ASSUME NEW q \in Requests, NEW k \in PodKeys, GetPod(q, k)
      PROVE  Claimed' \subseteq Claimed
  BY ZenonT(40), <1>1 DEF GetPod, IdleReq
<1>2. ASSUME NEW q \in Requests, CountMemory(q)
      PROVE  \/ Claimed' \subseteq Claimed
             \/ /\ HasRoom(rows, req[q].key) /\ req[q].key \in PodKeys /\ UNCHANGED rows
                /\ Claimed' \subseteq Claimed \cup {req[q].key}
  BY <1>2 DEF CountMemory, Admit, GoTo, Finish, IdleReq
<1>3. ASSUME NEW q \in Requests, PutPending(q)
      PROVE  Claimed' \subseteq Claimed
  BY Zenon, <1>3 DEF PutPending, GoTo
<1>4. ASSUME NEW q \in Requests, Ensure(q)
      PROVE  Claimed' \subseteq Claimed
  BY <1>4 DEF Ensure, GoTo, Finish, IdleReq
<1>5. ASSUME NEW q \in Requests, Hold(q)
      PROVE  Claimed' \subseteq Claimed
  BY Zenon, <1>5 DEF Hold, Finish, IdleReq
<1>6. ASSUME NEW k \in PodKeys, Release(k)
      PROVE  Claimed' \subseteq Claimed
  BY Zenon, <1>6 DEF Release
<1>7. CASE UNCHANGED vars
  BY Zenon, <1>7 DEF vars
<1> QED
  BY Zenon, <1>1, <1>2, <1>3, <1>4, <1>5, <1>6, <1>7 DEF Next, Step, ListIndex, CountRedis

\* Nobody reads the Redis index of a memory table.
LEMMA NoIndex ==
    table = "memory" /\ FiniteInv /\ (\A q \in Requests : req[q].pc # "counting") /\ [Next]_vars
      => \A q \in Requests : req'[q].pc # "counting"
<1> SUFFICES ASSUME table = "memory", FiniteInv, [Next]_vars,
                    \A q \in Requests : req[q].pc # "counting"
             PROVE  \A q \in Requests : req'[q].pc # "counting"
  BY Zenon
<1> USE DEF FiniteInv, TypeOK
<1>1. ASSUME NEW q \in Requests, Step(q) PROVE \A p \in Requests : req'[p].pc # "counting"
  <2>1. CASE \E k \in PodKeys : GetPod(q, k)
    BY <2>1 DEF GetPod
  <2>2. CASE CountMemory(q) \/ PutPending(q) \/ Ensure(q) \/ Hold(q)
    BY <2>2 DEF CountMemory, Admit, PutPending, Ensure, Hold, GoTo, Finish, IdleReq
  <2> QED
    BY Zenon, <1>1, <2>1, <2>2 DEF Step, ListIndex, CountRedis, At
<1> QED
  BY Zenon, <1>1 DEF Next, Release, vars

MemInv == IInv /\ \A q \in Requests : req[q].pc # "counting"
CapsInv == table = "memory" => MemInv

\* Every step keeps every cap within its bound.
LEMMA CapsNext == table = "memory" /\ MemInv /\ [Next]_vars => MemInv'
<1> SUFFICES ASSUME table = "memory", MemInv, [Next]_vars PROVE MemInv'
  BY Zenon
<1>1. FiniteInv /\ FiniteInv'
  BY Zenon, FiniteNext DEF MemInv, IInv
<1>2. \A q \in Requests : req'[q].pc # "counting"
  BY Zenon, <1>1, NoIndex DEF MemInv
<1>3. CASE Claimed' \subseteq Claimed
  <2>1. \A M : Claimed' \cap M \subseteq Claimed \cap M
    BY Zenon, <1>3
  <2>2. \A u \in Users : Within(OfUser(u), PodsPerUser)'
    BY Zenon, <1>1, <2>1, Shrinks DEF MemInv, IInv, OfUser, PodKeys
  <2>3. \A t \in Types : Within(OfType(t), MaxPods)'
    BY Zenon, <1>1, <2>1, Shrinks DEF MemInv, IInv
  <2>4. Within(PodKeys, TotalPods)'
    BY Zenon, <1>1, <2>1, Shrinks DEF MemInv, IInv
  <2> QED
    BY Zenon, <1>1, <1>2, <2>2, <2>3, <2>4 DEF MemInv, IInv
<1>4. ASSUME NEW q \in Requests, HasRoom(rows, req[q].key), req[q].key \in PodKeys,
             UNCHANGED rows, Claimed' \subseteq Claimed \cup {req[q].key}
      PROVE  MemInv'
  <2> DEFINE k == req[q].key
  <2>1. \A u \in Users : Within(OfUser(u), PodsPerUser)'
    <3> TAKE u \in Users
    <3>1. CASE u = k[1]
      BY Zenon, <1>1, <1>4, <3>1, AdmittedWithin DEF HasRoom
    <3>2. CASE u # k[1]
      <4>1. Claimed' \cap OfUser(u) \subseteq Claimed \cap OfUser(u)
        BY Zenon, <1>4, <3>2 DEF OfUser
      <4> QED
        BY Zenon, <1>1, <4>1, Shrinks DEF MemInv, IInv
    <3> QED
      BY Zenon, <3>1, <3>2
  <2>2. \A t \in Types : Within(OfType(t), MaxPods)'
    <3> TAKE t \in Types
    <3>1. CASE t = k[2]
      BY Zenon, <1>1, <1>4, <3>1, AdmittedWithin DEF HasRoom
    <3>2. CASE t # k[2]
      <4>1. Claimed' \cap OfType(t) \subseteq Claimed \cap OfType(t)
        BY Zenon, <1>4, <3>2 DEF OfType
      <4> QED
        BY Zenon, <1>1, <4>1, Shrinks DEF MemInv, IInv
    <3> QED
      BY Zenon, <3>1, <3>2
  <2>3. Within(PodKeys, TotalPods)'
    <3>1. rows \cap PodKeys = rows
      BY Zenon, <1>1 DEF FiniteInv, TypeOK
    <3> QED
      BY Zenon, <1>1, <1>4, <3>1, AdmittedWithin DEF HasRoom
  <2> QED
    BY Zenon, <1>1, <1>2, <2>1, <2>2, <2>3 DEF MemInv, IInv
<1> QED
  BY Zenon, <1>1, <1>3, <1>4, OnlyCountClaims DEF MemInv

\* Over the memory table, requests that race past the count overshoot a cap by
\* fewer pods than there are requests; a single request keeps it exactly.
THEOREM CapsOvershoot == ASSUME Requests # {} PROVE Spec => []OvershootMemory
<1>1. Init => CapsInv
  <2> SUFFICES ASSUME Init PROVE MemInv
    BY Zenon DEF CapsInv
  <2>1. FiniteInv /\ \A q \in Requests : req[q].pc = "idle"
    BY Zenon, FS_EmptySet DEF Init, IdleReq, FiniteInv, TypeOK
  <2>2. Claimed = {}
    BY Zenon, <2>1 DEF Init, Claimed, Claimants
  <2>3. Slots \in Nat /\ Slots > 0
    BY FS_CardinalityType, FS_EmptySet DEF Slots
  <2>4. \A M : Cardinality(Claimed \cap M) = 0
    BY Zenon, <2>2, FS_EmptySet
  <2>5. \A M : \A c \in Nat : Within(M, c)
    BY <2>3, <2>4 DEF Within
  <2>6. \A q \in Requests : req[q].pc # "counting"
    BY Zenon, <2>1
  <2> QED
    BY Zenon, <2>1, <2>5, <2>6 DEF MemInv, IInv
<1>2. CapsInv => OvershootMemory
  <2> SUFFICES ASSUME MemInv PROVE Overshoot(Slots)
    BY Zenon DEF CapsInv, OvershootMemory
  <2>1. ASSUME NEW M, NEW c \in Nat, Within(M, c) PROVE Cardinality(rows \cap M) < c + Slots
    <3>1. IsFiniteSet(Claimed \cap M) /\ rows \cap M \in SUBSET (Claimed \cap M)
      BY Zenon, ClaimedFinite, FS_Intersection DEF MemInv, IInv, Claimed
    <3>2. /\ Cardinality(Claimed \cap M) \in Nat
          /\ IsFiniteSet(rows \cap M)
          /\ Cardinality(rows \cap M) <= Cardinality(Claimed \cap M)
      BY Zenon, <3>1, FS_Subset, FS_CardinalityType
    <3>3. Cardinality(rows \cap M) \in Nat /\ Slots \in Nat
      BY Zenon, <3>2, FS_CardinalityType DEF Slots
    <3> QED
      BY <2>1, <3>2, <3>3 DEF Within
  <2>2. rows \cap PodKeys = rows
    BY Zenon DEF MemInv, IInv, FiniteInv, TypeOK
  <2> QED
    BY Zenon, <2>1, <2>2 DEF MemInv, IInv, Overshoot
<1>3. CapsInv /\ [Next]_vars => CapsInv'
  <2>1. [Next]_vars => table' = table
    BY Zenon DEF Next, vars
  <2> QED
    BY Zenon, <2>1, CapsNext DEF CapsInv
<1> QED
  BY <1>1, <1>2, <1>3, PTL DEF Spec

-----------------------------------------------------------------------------
(***************************************************************************)
(* The Redis table.  A request that counts goes by an index that is as old *)
(* as its listing, so two more things are needed: which of the counting    *)
(* requests listed before it (b), and that for each of them                *)
(*   - either room for it and for all who listed before it is left,        *)
(*   - or what was claimed since its listing was claimed by requests that  *)
(*     had not to list any more when it did.                               *)
(* The second is so when it lists.  It ends when a request that listed     *)
(* later is admitted first, and then the first holds: that request was     *)
(* admitted with the second, and found room for those before it as well.   *)
(***************************************************************************)

Counting == {q \in Requests : req[q].pc = "counting"}

\* b[q]: the counting requests that listed the index before q.
Order(b) ==
    /\ b \in [Requests -> SUBSET Requests]
    /\ \A q \in Counting : b[q] \subseteq Counting /\ q \notin b[q]
    /\ \A p, q \in Counting : p # q => p \in b[q] \/ q \in b[p]
    /\ \A p, q \in Counting : q \in b[p] => b[q] \subseteq b[p]

Limit(c) == c + 2 * Slots - 2

\* With the keys of C claimed, a request that listed S, after the requests of B, keeps the cap.
Admissible(C, c, S, B) ==
    \/ Cardinality(C) + Cardinality(B) + 1 <= Limit(c)
    \/ Cardinality(C \ S) + Cardinality(B) + 1 <= Slots

Fits(M, c, b) ==
    /\ Cardinality(Claimed \cap M) <= Limit(c)
    /\ \A q \in Counting : Admissible(Claimed \cap M, c, req[q].seen, b[q])

FitsAll(b) ==
    /\ \A u \in Users : Fits(OfUser(u), PodsPerUser, b)
    /\ \A t \in Types : Fits(OfType(t), MaxPods, b)
    /\ Fits(PodKeys, TotalPods, b)

RedisInv == FiniteInv /\ \E b : Order(b) /\ FitsAll(b)
RedisCapsInv == table = "redis" => RedisInv

\* A part of a finite set is finite and not larger.
LEMMA Part ==
    ASSUME NEW A, NEW B, IsFiniteSet(B), A \subseteq B
    PROVE  /\ IsFiniteSet(A) /\ Cardinality(A) <= Cardinality(B)
           /\ Cardinality(A) \in Nat /\ Cardinality(B) \in Nat
BY Zenon, FS_Subset, FS_CardinalityType

\* A union has at most as many members as its parts together.
LEMMA Together ==
    ASSUME NEW A, NEW B, IsFiniteSet(A), IsFiniteSet(B)
    PROVE  /\ IsFiniteSet(A \cup B) /\ Cardinality(A \cup B) \in Nat
           /\ Cardinality(A) \in Nat /\ Cardinality(B) \in Nat
           /\ Cardinality(A \cup B) <= Cardinality(A) + Cardinality(B)
           /\ A \cap B = {} => Cardinality(A \cup B) = Cardinality(A) + Cardinality(B)
<1>1. IsFiniteSet(A \cap B)
  BY Zenon, FS_Intersection
<1>2. Cardinality(A \cap B) \in Nat /\ Cardinality(A) \in Nat /\ Cardinality(B) \in Nat
  BY Zenon, <1>1, FS_CardinalityType
<1>3. /\ IsFiniteSet(A \cup B)
      /\ Cardinality(A \cup B) = Cardinality(A) + Cardinality(B) - Cardinality(A \cap B)
  BY Zenon, FS_Union
<1>4. A \cap B = {} => Cardinality(A \cap B) = 0
  BY Zenon, FS_EmptySet
<1>5. Cardinality(A \cup B) \in Nat
  BY Zenon, <1>3, FS_CardinalityType
<1> QED
  BY <1>2, <1>3, <1>4, <1>5

\* One element more or less.
LEMMA OneMore ==
    ASSUME NEW A, NEW x, IsFiniteSet(A)
    PROVE  /\ IsFiniteSet(A \cup {x}) /\ Cardinality(A \cup {x}) <= Cardinality(A) + 1
           /\ x \notin A => Cardinality(A \cup {x}) = Cardinality(A) + 1
           /\ IsFiniteSet(A \ {x})
           /\ x \in A => Cardinality(A \ {x}) = Cardinality(A) - 1
           /\ Cardinality(A) \in Nat /\ Cardinality(A \cup {x}) \in Nat
           /\ Cardinality(A \ {x}) \in Nat
<1>1. Cardinality(A) \in Nat
  BY Zenon, FS_CardinalityType
<1>2. /\ IsFiniteSet(A \cup {x})
      /\ Cardinality(A \cup {x}) = IF x \in A THEN Cardinality(A) ELSE Cardinality(A) + 1
  BY Zenon, FS_AddElement
<1>3. /\ IsFiniteSet(A \ {x})
      /\ Cardinality(A \ {x}) = IF x \in A THEN Cardinality(A) - 1 ELSE Cardinality(A)
  BY Zenon, FS_RemoveElement
<1>4. Cardinality(A \cup {x}) \in Nat /\ Cardinality(A \ {x}) \in Nat
  BY Zenon, <1>2, <1>3, FS_CardinalityType
<1> QED
  BY <1>1, <1>2, <1>3, <1>4

\* Some of the requests have at most as many keys as they are.
LEMMA KeysOf ==
    ASSUME NEW P, P \subseteq Requests
    PROVE  /\ IsFiniteSet(P) /\ IsFiniteSet({req[q].key : q \in P})
           /\ Cardinality({req[q].key : q \in P}) <= Cardinality(P)
           /\ Cardinality({req[q].key : q \in P}) \in Nat /\ Cardinality(P) \in Nat
<1> DEFINE T == {req[q].key : q \in P}
           f == [q \in P |-> req[q].key]
<1>1. IsFiniteSet(P)
  BY Zenon, Part
<1>2. f \in Surjection(P, T)
  BY Zenon DEF Surjection
<1>3. IsFiniteSet(T) /\ Cardinality(T) <= Cardinality(P)
  BY Zenon, <1>1, <1>2, FS_Surjection
<1> QED
  BY Zenon, <1>1, <1>3, FS_CardinalityType

\* A request, and two groups of others with nobody in common, are not more than the slots.
LEMMA Groups ==
    ASSUME NEW P, NEW Q, NEW q \in Requests, P \subseteq Requests, Q \subseteq Requests,
           P \cap Q = {}, q \notin P, q \notin Q
    PROVE  /\ Cardinality(P) + Cardinality(Q) + 1 <= Slots
           /\ Cardinality(P) \in Nat /\ Cardinality(Q) \in Nat /\ Slots \in Nat
<1>1. IsFiniteSet(P) /\ IsFiniteSet(Q)
  BY Zenon, Part
<1>2. /\ IsFiniteSet(P \cup Q) /\ Cardinality(P \cup Q) = Cardinality(P) + Cardinality(Q)
      /\ Cardinality(P) \in Nat /\ Cardinality(Q) \in Nat
  BY Zenon, <1>1, Together
<1>3. Cardinality((P \cup Q) \cup {q}) = Cardinality(P \cup Q) + 1
  BY Zenon, <1>2, OneMore
<1>4. Cardinality((P \cup Q) \cup {q}) <= Slots /\ Slots \in Nat
  BY Zenon, Part DEF Slots
<1> QED
  BY Zenon, <1>2, <1>3, <1>4

\* It still does when fewer keys are claimed and fewer requests listed before it.
LEMMA StaysAdmissible ==
    ASSUME NEW C, NEW C2, NEW c \in Nat, NEW S, NEW B, NEW D, Admissible(C, c, S, B),
           IsFiniteSet(C), IsFiniteSet(B), D \subseteq B, C2 \subseteq C
    PROVE  Admissible(C2, c, S, D)
<1>1. /\ Cardinality(C2) <= Cardinality(C)
      /\ Cardinality(C2) \in Nat /\ Cardinality(C) \in Nat
  BY Zenon, Part
<1>2. C2 \ S \subseteq C \ S /\ IsFiniteSet(C \ S)
  BY Zenon, FS_Subset
<1>3. /\ Cardinality(C2 \ S) <= Cardinality(C \ S)
      /\ Cardinality(C2 \ S) \in Nat /\ Cardinality(C \ S) \in Nat
  BY Zenon, <1>2, Part
<1>4. Cardinality(D) <= Cardinality(B) /\ Cardinality(D) \in Nat /\ Cardinality(B) \in Nat
  BY Zenon, Part
<1>5. Slots \in Nat
  BY Zenon, FS_CardinalityType DEF Slots
<1> QED
  BY <1>1, <1>3, <1>4, <1>5 DEF Admissible, Limit

\* It still does when one key more is claimed, by a request that listed before it.
LEMMA OvertakenAdmissible ==
    ASSUME NEW C, NEW C2, NEW c \in Nat, NEW S, NEW B, NEW p, NEW k, Admissible(C, c, S, B),
           IsFiniteSet(C), IsFiniteSet(B), p \in B, C2 \subseteq C \cup {k}
    PROVE  Admissible(C2, c, S, B \ {p})
<1>1. IsFiniteSet(C \cup {k}) /\ Cardinality(C \cup {k}) <= Cardinality(C) + 1
      /\ Cardinality(C) \in Nat /\ Cardinality(C \cup {k}) \in Nat
  BY Zenon, OneMore
<1>2. Cardinality(C2) <= Cardinality(C \cup {k}) /\ Cardinality(C2) \in Nat
  BY Zenon, <1>1, Part
<1>3. IsFiniteSet(C \ S)
  BY Zenon, FS_Subset
<1>4. IsFiniteSet((C \ S) \cup {k}) /\ Cardinality((C \ S) \cup {k}) <= Cardinality(C \ S) + 1
      /\ Cardinality(C \ S) \in Nat /\ Cardinality((C \ S) \cup {k}) \in Nat
  BY Zenon, <1>3, OneMore
<1>5. C2 \ S \subseteq (C \ S) \cup {k}
  BY Zenon
<1>6. Cardinality(C2 \ S) <= Cardinality((C \ S) \cup {k}) /\ Cardinality(C2 \ S) \in Nat
  BY Zenon, <1>4, <1>5, Part
<1>7. Cardinality(B \ {p}) = Cardinality(B) - 1 /\ Cardinality(B) \in Nat
  BY Zenon, OneMore
<1>8. Slots \in Nat
  BY Zenon, FS_CardinalityType DEF Slots
<1> QED
  BY <1>1, <1>2, <1>4, <1>6, <1>7, <1>8 DEF Admissible, Limit

\* It does when all that was claimed, with those that listed before another request, leave room
\* for that one, and it listed before that one too.
LEMMA ReservedAdmissible ==
    ASSUME NEW C, NEW c \in Nat, NEW S, NEW A, NEW D, NEW q,
           IsFiniteSet(C), IsFiniteSet(A), Cardinality(C) + Cardinality(A) <= Limit(c),
           D \subseteq A, q \in A, q \notin D
    PROVE  Admissible(C, c, S, D)
<1>1. IsFiniteSet(D) /\ D \cup {q} \subseteq A
  BY Zenon, Part
<1>2. Cardinality(D \cup {q}) = Cardinality(D) + 1 /\ Cardinality(D) \in Nat
  BY Zenon, <1>1, OneMore
<1>3. Cardinality(D \cup {q}) <= Cardinality(A) /\ Cardinality(A) \in Nat
  BY Zenon, <1>1, Part
<1>4. Slots \in Nat /\ Cardinality(C) \in Nat
  BY Zenon, FS_CardinalityType DEF Slots
<1> QED
  BY <1>2, <1>3, <1>4 DEF Admissible, Limit

\* A request that lists the index keeps the caps: what is claimed and not listed was claimed
\* by requests that do not count.
LEMMA ListedAdmissible ==
    ASSUME FiniteInv, NEW M, NEW c \in Nat, NEW q \in Requests, req[q].pc = "count"
    PROVE  Admissible(Claimed \cap M, c, rows, Counting)
<1> DEFINE K == {req[p].key : p \in Claimants}
<1>1. Claimants \cap Counting = {} /\ q \notin Claimants /\ q \notin Counting
  BY Zenon DEF Claimants, Counting
<1>2. Claimants \subseteq Requests /\ Counting \subseteq Requests
  BY Zenon DEF Claimants, Counting
<1>3. /\ Cardinality(Claimants) + Cardinality(Counting) + 1 <= Slots
      /\ Cardinality(Claimants) \in Nat /\ Cardinality(Counting) \in Nat /\ Slots \in Nat
  BY Zenon, <1>1, <1>2, Groups
<1>4. IsFiniteSet(K) /\ Cardinality(K) <= Cardinality(Claimants) /\ Cardinality(K) \in Nat
  BY Zenon, <1>2, KeysOf
<1>5. (Claimed \cap M) \ rows \subseteq K
  BY Zenon DEF Claimed
<1>6. /\ Cardinality((Claimed \cap M) \ rows) <= Cardinality(K)
      /\ Cardinality((Claimed \cap M) \ rows) \in Nat
  BY Zenon, <1>4, <1>5, Part
<1> HIDE DEF K
<1> QED
  BY <1>3, <1>4, <1>6 DEF Admissible

\* The request p that the count lets through leaves room for those that listed before it.
LEMMA AdmittedReserves ==
    ASSUME FiniteInv, NEW b, Order(b), NEW M, NEW c \in Nat, Fits(M, c, b), NEW p \in Counting,
           Cardinality((req[p].seen \cap rows) \cap M) < c,
           NEW C2, C2 \subseteq (Claimed \cap M) \cup {req[p].key}
    PROVE  Cardinality(C2) + Cardinality(b[p]) <= Limit(c)
<1> DEFINE C == Claimed \cap M
           S == req[p].seen
           k == req[p].key
           R == (S \cap rows) \cap M
           K == {req[x].key : x \in Claimants}
<1>1. IsFiniteSet(C)
  BY Zenon, ClaimedFinite, FS_Intersection
<1>2. IsFiniteSet(C \cup {k}) /\ Cardinality(C \cup {k}) <= Cardinality(C) + 1
      /\ Cardinality(C) \in Nat /\ Cardinality(C \cup {k}) \in Nat
  BY Zenon, <1>1, OneMore
<1>3. Cardinality(C2) <= Cardinality(C \cup {k}) /\ Cardinality(C2) \in Nat
  BY Zenon, <1>2, Part
<1>4. Claimants \cap b[p] = {} /\ p \notin Claimants /\ p \notin b[p]
  BY Zenon DEF Order, Claimants, Counting
<1>5. Claimants \subseteq Requests /\ b[p] \subseteq Requests /\ p \in Requests
  BY Zenon DEF Order, Claimants, Counting
<1>6. /\ Cardinality(Claimants) + Cardinality(b[p]) + 1 <= Slots
      /\ Cardinality(Claimants) \in Nat /\ Cardinality(b[p]) \in Nat /\ Slots \in Nat
  BY Zenon, <1>4, <1>5, Groups
<1>7. Admissible(C, c, S, b[p])
  BY Zenon DEF Fits
<1>8. CASE Cardinality(C) + Cardinality(b[p]) + 1 <= Limit(c)
  BY <1>2, <1>3, <1>6, <1>8 DEF Limit
<1>9. CASE Cardinality(C \ S) + Cardinality(b[p]) + 1 <= Slots
  <2>1. IsFiniteSet(K) /\ Cardinality(K) <= Cardinality(Claimants) /\ Cardinality(K) \in Nat
    BY Zenon, <1>5, KeysOf
  <2>2. C \subseteq (R \cup K) \cup (C \ S)
    BY Zenon DEF Claimed
  <2>3. IsFiniteSet(R) /\ IsFiniteSet(C \ S)
    <3>1. R \subseteq C
      BY Zenon DEF Claimed
    <3> QED
      BY ZenonT(40), <1>1, <3>1, FS_Subset
  <2>4. /\ IsFiniteSet(R \cup K) /\ Cardinality(R \cup K) \in Nat /\ Cardinality(R) \in Nat
        /\ Cardinality(R \cup K) <= Cardinality(R) + Cardinality(K)
    BY Zenon, <2>1, <2>3, Together
  <2>5. /\ IsFiniteSet((R \cup K) \cup (C \ S)) /\ Cardinality((R \cup K) \cup (C \ S)) \in Nat
        /\ Cardinality((R \cup K) \cup (C \ S)) <= Cardinality(R \cup K) + Cardinality(C \ S)
        /\ Cardinality(C \ S) \in Nat
    BY Zenon, <2>3, <2>4, Together
  <2>6. Cardinality(C) <= Cardinality((R \cup K) \cup (C \ S))
    BY Zenon, <2>2, <2>5, Part
  <2>7. Cardinality(R) < c
    BY Zenon
  <2> HIDE DEF C, S, R, K, k
  <2> QED
    BY <1>2, <1>3, <1>6, <1>9, <2>1, <2>4, <2>5, <2>6, <2>7 DEF Limit
<1> QED
  BY Zenon, <1>7, <1>8, <1>9 DEF Admissible

\* The requests that count are the ones that counted, with what they listed.
SameCounting ==
    Counting' = Counting /\ \A q \in Counting : req'[q].seen = req[q].seen

\* A step that claims nothing of M, and lets nobody list, keeps the cap.
LEMMA FitsShrinks ==
    ASSUME FiniteInv, NEW b, Order(b), NEW M, NEW c \in Nat, Fits(M, c, b), NEW d,
           Claimed' \cap M \subseteq Claimed \cap M,
           \A q \in Counting' : q \in Counting /\ req'[q].seen = req[q].seen /\ d[q] \subseteq b[q]
    PROVE  Fits(M, c, d)'
<1>1. IsFiniteSet(Claimed \cap M)
  BY Zenon, ClaimedFinite, FS_Intersection
<1>2. /\ Cardinality(Claimed' \cap M) <= Cardinality(Claimed \cap M)
      /\ Cardinality(Claimed' \cap M) \in Nat /\ Cardinality(Claimed \cap M) \in Nat
  BY Zenon, <1>1, Part
<1>3. Cardinality(Claimed' \cap M) <= Limit(c)
  <2>1. Slots \in Nat
    BY Zenon, FS_CardinalityType DEF Slots
  <2> QED
    BY <1>2, <2>1 DEF Fits, Limit
<1>4. ASSUME NEW q \in Counting' PROVE Admissible(Claimed' \cap M, c, req'[q].seen, d[q])
  <2>1. q \in Counting /\ req'[q].seen = req[q].seen /\ d[q] \subseteq b[q]
    BY Zenon, <1>4
  <2>2. IsFiniteSet(b[q])
    BY Zenon, <2>1, Part DEF Order, Counting
  <2>3. Admissible(Claimed \cap M, c, req[q].seen, b[q])
    BY Zenon, <2>1 DEF Fits
  <2> QED
    BY Zenon, <1>1, <2>1, <2>2, <2>3, StaysAdmissible
<1> QED
  BY Zenon, <1>3, <1>4 DEF Fits, Admissible, Limit, Slots

\* A step that claims nothing keeps the invariant when nobody begins or ends a count.
LEMMA QuietStep ==
    ASSUME RedisInv, FiniteInv', Claimed' \subseteq Claimed, SameCounting
    PROVE  RedisInv'
<1>1. PICK b : Order(b) /\ FitsAll(b)
  BY Zenon DEF RedisInv
<1>2. Order(b)'
  BY Zenon, <1>1 DEF Order, SameCounting
<1>3. ASSUME NEW M, NEW c \in Nat, Fits(M, c, b) PROVE Fits(M, c, b)'
  BY Zenon, <1>1, <1>3, FitsShrinks DEF RedisInv, SameCounting
<1>4. FitsAll(b)'
  BY Zenon, <1>1, <1>3 DEF FitsAll
<1> QED
  BY Zenon, <1>2, <1>4 DEF RedisInv

\* Listing the index.
LEMMA ListStep ==
    ASSUME RedisInv, FiniteInv', NEW q \in Requests, ListIndex(q)
    PROVE  RedisInv'
<1> USE DEF RedisInv
<1>1. PICK b : Order(b) /\ FitsAll(b)
  BY Zenon
<1>0. PICK d : d = [b EXCEPT ![q] = Counting]
  BY Zenon
<1>2. /\ req[q].pc = "count" /\ rows' = rows
      /\ req'[q].pc = "counting" /\ req'[q].seen = rows
      /\ \A x \in Requests : x # q => req'[x] = req[x]
  BY Zenon DEF ListIndex, At, FiniteInv, TypeOK
<1>3. Counting' = Counting \cup {q} /\ q \notin Counting
  BY Zenon, <1>2 DEF Counting
<1>4. Claimed' = Claimed
  BY <1>2 DEF Claimed, Claimants
<1>5. /\ d[q] = Counting /\ \A x \in Requests : x # q => d[x] = b[x]
      /\ d \in [Requests -> SUBSET Requests]
  BY Zenon, <1>0, <1>1 DEF Order, Counting
<1>6. Order(d)'
  <2>0. q \in Requests /\ \A x \in Counting : x \in Requests /\ x # q /\ d[x] = b[x]
    BY Zenon, <1>3, <1>5 DEF Counting
  <2>1. \A x \in Counting' : d[x] \subseteq Counting' /\ x \notin d[x]
    BY Zenon, <1>1, <1>3, <1>5, <2>0 DEF Order
  <2>2. \A x, y \in Counting' : x # y => x \in d[y] \/ y \in d[x]
    BY ZenonT(40), <1>1, <1>3, <1>5, <2>0 DEF Order
  <2>3. \A x, y \in Counting' : y \in d[x] => d[y] \subseteq d[x]
    BY <1>1, <1>3, <1>5, <2>0 DEF Order
  <2> QED
    BY Zenon, <1>5, <2>1, <2>2, <2>3 DEF Order
<1>7. ASSUME NEW M, NEW c \in Nat, Fits(M, c, b) PROVE Fits(M, c, d)'
  <2>1. Admissible(Claimed \cap M, c, rows, Counting)
    BY Zenon, <1>2, ListedAdmissible
  <2>2. \A x \in Counting : /\ Admissible(Claimed \cap M, c, req[x].seen, b[x])
                            /\ req'[x].seen = req[x].seen /\ d[x] = b[x]
    BY Zenon, <1>2, <1>3, <1>5, <1>7 DEF Fits, Counting
  <2>3. \A x \in Counting' : Admissible(Claimed \cap M, c, req'[x].seen, d[x])
    BY Zenon, <1>2, <1>3, <1>5, <2>1, <2>2
  <2>4. Cardinality(Claimed \cap M) <= Limit(c)
    BY Zenon, <1>7 DEF Fits
  <2> QED
    BY Zenon, <1>4, <2>3, <2>4 DEF Fits, Admissible, Limit, Slots
<1>8. FitsAll(d)'
  BY Zenon, <1>1, <1>7 DEF FitsAll
<1> QED
  BY Zenon, <1>6, <1>8

\* The count over the rows that are left of the listing.
LEMMA CountStep ==
    ASSUME RedisInv, FiniteInv', NEW p \in Requests, CountRedis(p)
    PROVE  RedisInv'
<1> USE DEF RedisInv
<1>1. PICK b : Order(b) /\ FitsAll(b)
  BY Zenon
<1>0. PICK d : d = [x \in Requests |-> b[x] \ {p}]
  BY Zenon
<1> DEFINE k == req[p].key
           S == req[p].seen \cap rows
<1>2. /\ p \in Counting /\ rows' = rows /\ k \in PodKeys
      /\ \A x \in Requests : x # p => req'[x] = req[x]
      /\ \/ HasRoom(S, k) /\ req'[p].pc = "put" /\ req'[p].key = k
         \/ req'[p].pc = "idle"
  BY DEF CountRedis, At, Finish, IdleReq, FiniteInv, TypeOK, Counting
<1>3. Counting' = Counting \ {p}
  BY Zenon, <1>2 DEF Counting
<1>4. d \in [Requests -> SUBSET Requests] /\ \A x \in Counting : d[x] = b[x] \ {p}
  BY Zenon, <1>0, <1>1 DEF Order, Counting
<1>5. Order(d)'
  <2>1. \A x \in Counting' : d[x] \subseteq Counting' /\ x \notin d[x]
    BY <1>1, <1>3, <1>4 DEF Order
  <2>2. \A x, y \in Counting' : x # y => x \in d[y] \/ y \in d[x]
    BY <1>1, <1>3, <1>4 DEF Order
  <2>3. \A x, y \in Counting' : y \in d[x] => d[y] \subseteq d[x]
    BY <1>1, <1>3, <1>4 DEF Order
  <2> QED
    BY Zenon, <1>4, <2>1, <2>2, <2>3 DEF Order
<1>6. \A x \in Counting' : /\ x \in Counting /\ x # p /\ x \in Requests
                           /\ req'[x].seen = req[x].seen /\ d[x] \subseteq b[x]
  BY Zenon, <1>2, <1>3, <1>4 DEF Counting
<1>7. \/ Claimed' \subseteq Claimed
      \/ Claimed' \subseteq Claimed \cup {k} /\ HasRoom(S, k)
  BY <1>2 DEF Claimed, Claimants, Counting
<1>8. ASSUME NEW M, NEW c \in Nat, Fits(M, c, b), Claimed' \cap M \subseteq Claimed \cap M
      PROVE  Fits(M, c, d)'
  BY Zenon, <1>1, <1>6, <1>8, FitsShrinks
<1>9. ASSUME NEW M, NEW c \in Nat, Fits(M, c, b), Claimed' \subseteq Claimed \cup {k},
             Cardinality(S \cap M) < c
      PROVE  Fits(M, c, d)'
  <2> DEFINE C == Claimed \cap M
  <2>0. PICK C2 : C2 = Claimed' \cap M
    BY Zenon
  <2>1. C2 \subseteq C \cup {k}
    BY Zenon, <1>9, <2>0
  <2>2. Cardinality(C2) + Cardinality(b[p]) <= Limit(c)
    BY Zenon, <1>1, <1>2, <1>9, <2>1, AdmittedReserves
  <2>3. IsFiniteSet(C) /\ IsFiniteSet(C2)
    <3>1. IsFiniteSet(C)
      BY Zenon, ClaimedFinite, FS_Intersection
    <3>2. IsFiniteSet(C \cup {k})
      BY Zenon, <3>1, FS_AddElement
    <3> QED
      BY Zenon, <2>1, <3>1, <3>2, FS_Subset
  <2>4. \A x \in Counting : b[x] \subseteq Requests /\ IsFiniteSet(b[x])
    BY Zenon, <1>1, Part DEF Order, Counting
  <2>5. Cardinality(C2) <= Limit(c)
    <3>1. Cardinality(C2) \in Nat /\ Cardinality(b[p]) \in Nat /\ Slots \in Nat
      BY Zenon, <1>2, <2>3, <2>4, FS_CardinalityType DEF Slots
    <3> QED
      BY <2>2, <3>1 DEF Limit
  <2>6. ASSUME NEW q \in Counting' PROVE Admissible(C2, c, req'[q].seen, d[q])
    <3>1. q \in Counting /\ q # p /\ req'[q].seen = req[q].seen /\ d[q] = b[q] \ {p}
      BY Zenon, <1>4, <1>6, <2>6
    <3>2. CASE q \in b[p]
      <4>1. d[q] \subseteq b[p] /\ q \notin d[q]
        BY Zenon, <1>1, <1>2, <3>1, <3>2 DEF Order
      <4>2. IsFiniteSet(b[p])
        BY Zenon, <1>2, <2>4
      <4> QED
        BY Zenon, <2>2, <2>3, <3>2, <4>1, <4>2, ReservedAdmissible
    <3>3. CASE p \in b[q]
      <4>1. Admissible(C, c, req[q].seen, b[q])
        BY Zenon, <1>9, <3>1 DEF Fits
      <4>2. IsFiniteSet(b[q])
        BY Zenon, <2>4, <3>1
      <4> HIDE DEF C, k
      <4>3. Admissible(C2, c, req[q].seen, b[q] \ {p})
        BY Zenon, <2>1, <2>3, <3>3, <4>1, <4>2, OvertakenAdmissible
      <4> QED
        BY Zenon, <3>1, <4>3
    <3> QED
      BY Zenon, <1>1, <1>2, <3>1, <3>2, <3>3 DEF Order
  <2> QED
    BY Zenon, <2>0, <2>5, <2>6 DEF Fits, Admissible, Limit, Slots
<1>10. CASE Claimed' \subseteq Claimed
  <2>1. \A M : Claimed' \cap M \subseteq Claimed \cap M
    BY Zenon, <1>10
  <2>2. FitsAll(d)'
    BY Zenon, <1>1, <1>8, <2>1 DEF FitsAll
  <2> QED
    BY Zenon, <1>5, <2>2
<1>11. CASE Claimed' \subseteq Claimed \cup {k} /\ HasRoom(S, k)
  <2>1. \A u \in Users : Fits(OfUser(u), PodsPerUser, d)'
    <3> TAKE u \in Users
    <3>0. Fits(OfUser(u), PodsPerUser, b)
      BY Zenon, <1>1 DEF FitsAll
    <3>1. CASE u = k[1]
      BY Zenon, <1>9, <1>11, <3>0, <3>1 DEF HasRoom
    <3>2. CASE u # k[1]
      <4>1. Claimed' \cap OfUser(u) \subseteq Claimed \cap OfUser(u)
        BY Zenon, <1>11, <3>2 DEF OfUser
      <4> QED
        BY Zenon, <1>8, <3>0, <4>1
    <3> QED
      BY Zenon, <3>1, <3>2
  <2>2. \A t \in Types : Fits(OfType(t), MaxPods, d)'
    <3> TAKE t \in Types
    <3>0. Fits(OfType(t), MaxPods, b)
      BY Zenon, <1>1 DEF FitsAll
    <3>1. CASE t = k[2]
      BY Zenon, <1>9, <1>11, <3>0, <3>1 DEF HasRoom
    <3>2. CASE t # k[2]
      <4>1. Claimed' \cap OfType(t) \subseteq Claimed \cap OfType(t)
        BY Zenon, <1>11, <3>2 DEF OfType
      <4> QED
        BY Zenon, <1>8, <3>0, <4>1
    <3> QED
      BY Zenon, <3>1, <3>2
  <2>3. Fits(PodKeys, TotalPods, d)'
    <3>1. S \cap PodKeys = S
      BY Zenon DEF FiniteInv, TypeOK
    <3>2. Cardinality(S \cap PodKeys) < TotalPods
      BY Zenon, <1>11, <3>1 DEF HasRoom
    <3> QED
      BY Zenon, <1>1, <1>9, <1>11, <3>2 DEF FitsAll
  <2>4. FitsAll(d)'
    BY Zenon, <2>1, <2>2, <2>3 DEF FitsAll
  <2> QED
    BY Zenon, <1>5, <2>4
<1> QED
  BY Zenon, <1>7, <1>10, <1>11

\* The steps that do not count claim nothing: over the Redis table all but ListIndex and
\* CountRedis.
LEMMA RedisQuiet ==
    ASSUME FiniteInv, table = "redis", [Next]_vars
    PROVE  \/ \E q \in Requests : ListIndex(q) \/ CountRedis(q)
           \/ Claimed' \subseteq Claimed /\ SameCounting
<1> USE DEF FiniteInv, TypeOK, Claimed, Claimants, SameCounting, Counting, At
<1>1. ASSUME NEW q \in Requests, NEW k \in PodKeys, GetPod(q, k)
      PROVE  Claimed' \subseteq Claimed /\ SameCounting
  BY Zenon, <1>1 DEF GetPod, IdleReq
<1>2. ASSUME NEW q \in Requests, PutPending(q)
      PROVE  Claimed' \subseteq Claimed /\ SameCounting
  BY Zenon, <1>2 DEF PutPending, GoTo
<1>3. ASSUME NEW q \in Requests, Ensure(q)
      PROVE  Claimed' \subseteq Claimed /\ SameCounting
  BY <1>3 DEF Ensure, GoTo, Finish, IdleReq
<1>4. ASSUME NEW q \in Requests, Hold(q)
      PROVE  Claimed' \subseteq Claimed /\ SameCounting
  BY Zenon, <1>4 DEF Hold, Finish, IdleReq
<1>5. ASSUME NEW k \in PodKeys, Release(k)
      PROVE  Claimed' \subseteq Claimed /\ SameCounting
  BY Zenon, <1>5 DEF Release
<1>6. CASE UNCHANGED vars
  BY Zenon, <1>6 DEF vars
<1> QED
  BY Zenon, <1>1, <1>2, <1>3, <1>4, <1>5, <1>6 DEF Next, Step, CountMemory

\* Over the Redis table a count is as old as its listing, and requests overshoot a cap by at
\* most two pods for every other request; a single request keeps it exactly.
THEOREM CapsOvershootRedis == ASSUME Requests # {} PROVE Spec => []OvershootRedis
<1>0. Slots \in Nat /\ Slots > 0
  BY FS_CardinalityType, FS_EmptySet DEF Slots
<1>1. Init => RedisCapsInv
  <2> SUFFICES ASSUME Init PROVE RedisInv
    BY Zenon DEF RedisCapsInv
  <2>1. FiniteInv /\ \A q \in Requests : req[q].pc = "idle"
    BY Zenon, FS_EmptySet DEF Init, IdleReq, FiniteInv, TypeOK
  <2>2. Claimed = {} /\ Counting = {}
    BY Zenon, <2>1 DEF Init, Claimed, Claimants, Counting
  <2>3. \A M : Cardinality(Claimed \cap M) = 0
    BY Zenon, <2>2, FS_EmptySet
  <2>4. \A M : \A c \in Nat : \A b : Fits(M, c, b)
    BY <1>0, <2>2, <2>3 DEF Fits, Limit
  <2>5. Order([q \in Requests |-> {}]) /\ FitsAll([q \in Requests |-> {}])
    BY Zenon, <2>2, <2>4 DEF Order, FitsAll
  <2> QED
    BY Zenon, <2>1, <2>5 DEF RedisInv
<1>2. RedisCapsInv => OvershootRedis
  <2> SUFFICES ASSUME RedisInv PROVE Overshoot(2 * Slots - 1)
    BY Zenon DEF RedisCapsInv, OvershootRedis
  <2>1. PICK b : Order(b) /\ FitsAll(b)
    BY Zenon DEF RedisInv
  <2>2. ASSUME NEW M, NEW c \in Nat, Fits(M, c, b)
        PROVE  Cardinality(rows \cap M) < c + (2 * Slots - 1)
    <3>1. IsFiniteSet(Claimed \cap M) /\ rows \cap M \subseteq Claimed \cap M
      BY Zenon, ClaimedFinite, FS_Intersection DEF RedisInv, Claimed
    <3>2. /\ Cardinality(rows \cap M) <= Cardinality(Claimed \cap M)
          /\ Cardinality(rows \cap M) \in Nat /\ Cardinality(Claimed \cap M) \in Nat
      BY Zenon, <3>1, Part
    <3> QED
      BY <1>0, <2>2, <3>2 DEF Fits, Limit
  <2>3. rows \cap PodKeys = rows
    BY Zenon DEF RedisInv, FiniteInv, TypeOK
  <2> QED
    BY Zenon, <2>1, <2>2, <2>3 DEF FitsAll, Overshoot
<1>3. RedisCapsInv /\ [Next]_vars => RedisCapsInv'
  <2> SUFFICES ASSUME table = "redis", RedisInv, [Next]_vars PROVE RedisInv'
    <3>1. [Next]_vars => table' = table
      BY Zenon DEF Next, vars
    <3> QED
      BY Zenon, <3>1 DEF RedisCapsInv
  <2>1. FiniteInv /\ FiniteInv'
    BY Zenon, FiniteNext DEF RedisInv
  <2> QED
    BY Zenon, <2>1, RedisQuiet, QuietStep, ListStep, CountStep
<1> QED
  BY <1>1, <1>2, <1>3, PTL DEF Spec


=============================================================================
