--------------------------- MODULE GatewayProofs ----------------------------
(***************************************************************************)
(* The data plane of the gateway: which session and which pod a proxied MCP*)
(* request reaches, whose tools the aggregated router lists, and the parts *)
(* side by side.                                                           *)
(***************************************************************************)
EXTENDS MCGateway, CallerProofs

-----------------------------------------------------------------------------
(***************************************************************************)
(* MCP sessions.  A row is put by a request that may have been under way   *)
(* for long, and the purge reads the index before it deletes the rows.     *)
(* RowInv follows a row, and PutInv a row that is still to be put, through *)
(* the steps of the release; PodInv says that a pod under release runs no  *)
(* more, so that no request gets a session from it once the index was      *)
(* read.                                                                   *)
(***************************************************************************)

ReqRecords == [pc : {"idle", "ensured", "forward", "put"}, key : Keys \cup {<<>>},
               sid : Ids \cup {0}, pod : 0 .. MaxInc, ms : SessionRows, new : Ids \cup {0}]

Shape ==
    /\ row \in [Keys -> 0 .. MaxInc] /\ last \in [Keys -> 0 .. MaxInc]
    /\ up \in [Keys -> 0 .. MaxInc]
    /\ sess \in [Ids -> SessionRows] /\ byPod \in [Keys -> SUBSET Ids]
    /\ release \in [Keys -> [pc : {"no", "list", "purge", "row"}, ids : SUBSET Ids]]
    /\ mreq \in [Reqs -> ReqRecords]
    /\ \A q \in Reqs : mreq[q].pc # "idle" => mreq[q].key \in Keys /\ mreq[q].pod # 0

\* What a request holds of a session.
HeldInv ==
    \A q \in Reqs :
        /\ mreq[q].pc = "ensured" => mreq[q].ms = NoRow
        /\ mreq[q].pc = "forward" /\ mreq[q].ms # NoRow => mreq[q].ms.key = mreq[q].key
        /\ mreq[q].pc = "put" => mreq[q].new # 0 /\ mreq[q].ms.key = mreq[q].key
                                 /\ mreq[q].ms # NoRow

PodInv ==
    \A k \in Keys : /\ up[k] \in {0, row[k]}
                    /\ release[k].pc # "no" => up[k] = 0 /\ row[k] # 0

PutInv ==
    \A q \in Reqs : mreq[q].pc = "put" /\ mreq[q].new \notin late =>
        /\ mreq[q].ms.inc = row[mreq[q].key]
        /\ release[mreq[q].key].pc \in {"no", "list"}

RowInv ==
    \A id \in Ids : id \notin late /\ sess[id] # NoRow =>
        LET k == sess[id].key IN
        /\ sess[id].inc = row[k] /\ id \in byPod[k]
        /\ release[k].pc # "row"
        /\ release[k].pc = "purge" => id \in release[k].ids

SessIInv == Shape /\ HeldInv /\ PodInv /\ PutInv /\ RowInv

USE SessionsAssumption

\* A row that is there has a key and an incarnation.
LEMMA Rows ==
    ASSUME NEW r \in SessionRows
    PROVE  r # NoRow => r.key \in Keys /\ r.inc \in 1 .. MaxInc /\ r.inc # 0
BY DEF SessionRows, NoRow

\* EnsurePod makes an incarnation only for a pod without a row, of which no session is left.
LEMMA PostInv ==
    ASSUME SessIInv, NEW q \in Reqs, NEW k \in Keys, NEW sid \in Ids \cup {0}, Post(q, k, sid)
    PROVE  SessIInv'
<1> USE DEF SessIInv
<1> DEFINE r == [NoReq EXCEPT !.pc = "ensured", !.key = k, !.sid = sid, !.pod = row'[k]]
<1>1. /\ row' \in [Keys -> 0 .. MaxInc] /\ last' \in [Keys -> 0 .. MaxInc]
      /\ up' \in [Keys -> 0 .. MaxInc] /\ row'[k] # 0
      /\ \A h \in Keys : row[h] # 0 => row'[h] = row[h]
      /\ \A h \in Keys : (row'[h] = row[h] /\ up'[h] = up[h])
                         \/ (h = k /\ row[k] = 0 /\ up'[h] = row'[h])
  <2>1. /\ row \in [Keys -> 0 .. MaxInc] /\ last \in [Keys -> 0 .. MaxInc]
        /\ up \in [Keys -> 0 .. MaxInc]
    BY Zenon DEF Shape
  <2>2. CASE row[k] # 0
    <3>1. UNCHANGED <<row, last, up>>
      BY Zenon, <2>2 DEF Post
    <3> QED
      BY Zenon, <2>1, <2>2, <3>1
  <2>3. CASE row[k] = 0
    <3> DEFINE n == last[k] + 1
    <3>1. /\ last[k] < MaxInc /\ last' = [last EXCEPT ![k] = n]
          /\ row' = [row EXCEPT ![k] = n] /\ up' = [up EXCEPT ![k] = n]
      BY Zenon, <2>3 DEF Post
    <3>2. n \in 0 .. MaxInc /\ n # 0
      BY <2>1, <3>1
    <3> HIDE DEF n
    <3> QED
      BY Zenon, <2>1, <2>3, <3>1, <3>2
  <2> QED
    BY Zenon, <2>2, <2>3
<1>2. UNCHANGED <<sess, byPod, minted, release, late>> /\ mreq' = [mreq EXCEPT ![q] = r]
  BY Zenon DEF Post, SetReq
<1>3. /\ r \in ReqRecords /\ r.pc = "ensured" /\ r.key = k /\ r.pod = row'[k] /\ r.ms = NoRow
      /\ r.new = 0
  BY Zenon, <1>1 DEF ReqRecords, NoReq, SessionRows
<1> HIDE DEF r
<1>4. mreq'[q] = r /\ \A x \in Reqs : x # q => mreq'[x] = mreq[x]
  BY Zenon, <1>2 DEF Shape
<1>5. Shape'
  BY Zenon, <1>1, <1>2, <1>3 DEF Shape
<1>6. HeldInv'
  BY ZenonT(40), <1>3, <1>4 DEF HeldInv
<1>7. PodInv'
  BY Zenon, <1>1, <1>2 DEF PodInv, Shape
<1>8. PutInv'
  BY <1>1, <1>2, <1>3, <1>4, Rows DEF PutInv, HeldInv, Shape, ReqRecords
<1>9. RowInv'
  BY <1>1, <1>2, Rows DEF RowInv, Shape
<1> QED
  BY Zenon, <1>5, <1>6, <1>7, <1>8, <1>9

\* A request that changes only itself keeps the invariant when what it then holds is right.
LEMMA RequestInv ==
    ASSUME SessIInv, NEW q \in Reqs, NEW r \in ReqRecords, mreq' = [mreq EXCEPT ![q] = r],
           UNCHANGED <<row, last, up, sess, byPod, release, late>>,
           r.pc # "idle" => r.key \in Keys /\ r.pod # 0,
           r.pc = "ensured" => r.ms = NoRow,
           r.pc = "forward" /\ r.ms # NoRow => r.ms.key = r.key,
           r.pc = "put" => /\ r.new # 0 /\ r.ms # NoRow /\ r.ms.key = r.key
                           /\ r.ms.inc = row[r.key] /\ release[r.key].pc = "no"
    PROVE  SessIInv'
<1> USE DEF SessIInv
<1>1. mreq'[q] = r /\ \A x \in Reqs : x # q => mreq'[x] = mreq[x]
  BY Zenon DEF Shape
<1>2. Shape'
  BY Zenon DEF Shape
<1>3. HeldInv' /\ PodInv' /\ PutInv' /\ RowInv'
  BY <1>1 DEF HeldInv, PodInv, PutInv, RowInv
<1> QED
  BY Zenon, <1>2, <1>3

\* The requests' own steps.  Initialized finds the pod running, so it is not under release.
LEMMA OwnStepInv ==
    ASSUME SessIInv, NEW q \in Reqs,
           GetSession(q) \/ Initialized(q) \/ Forwarded(q) \/ PutSessionLost(q)
    PROVE  SessIInv'
<1> USE DEF SessIInv
<1> DEFINE m == mreq[q]
<1>0. m \in ReqRecords /\ NoReq \in ReqRecords /\ NoReq.pc = "idle"
  BY DEF Shape, ReqRecords, NoReq, SessionRows
<1>1. CASE mreq' = [mreq EXCEPT ![q] = NoReq]
           /\ UNCHANGED <<row, last, up, sess, byPod, release, late>>
  BY Zenon, <1>0, <1>1, RequestInv
<1>2. CASE GetSession(q)
  <2> DEFINE s == IF m.sid = 0 THEN NoRow ELSE sess[m.sid]
  <2>0. /\ m.pc = "ensured" /\ m.key \in Keys /\ m.pod # 0 /\ m.ms = NoRow
        /\ UNCHANGED <<row, last, up, sess, byPod, release, late>>
    BY Zenon, <1>2 DEF GetSession, Shape, HeldInv
  <2>1. s \in SessionRows
    BY Zenon, <1>0 DEF Shape, ReqRecords, SessionRows
  <2>2. CASE MayUse(m, s) /\ mreq' = [mreq EXCEPT ![q] = [m EXCEPT !.pc = "forward", !.ms = s]]
    <3> DEFINE r == [m EXCEPT !.pc = "forward", !.ms = s]
    <3>1. r \in ReqRecords /\ r.pc = "forward" /\ r.key = m.key /\ r.pod = m.pod /\ r.ms = s
      BY Zenon, <1>0, <2>1 DEF ReqRecords
    <3>2. s # NoRow => s.key = m.key
      BY Zenon, <2>2 DEF MayUse
    <3> HIDE DEF r, s
    <3> QED
      BY Zenon, <2>0, <2>2, <3>1, <3>2, RequestInv DEF r
  <2>3. ASSUME NEW id \in Ids, mreq' = [mreq EXCEPT ![q] = [m EXCEPT !.pc = "forward", !.new = id]]
        PROVE  SessIInv'
    <3> DEFINE r == [m EXCEPT !.pc = "forward", !.new = id]
    <3>1. r \in ReqRecords /\ r.pc = "forward" /\ r.key = m.key /\ r.pod = m.pod /\ r.ms = m.ms
      BY Zenon, <1>0 DEF ReqRecords
    <3> HIDE DEF r
    <3> QED
      BY Zenon, <2>0, <2>3, <3>1, RequestInv DEF r
  <2> QED
    BY Zenon, <1>1, <1>2, <2>0, <2>2, <2>3 DEF GetSession, SetReq
<1>3. CASE Initialized(q)
  <2> DEFINE s == [key |-> m.key, inc |-> m.pod]
             r == [m EXCEPT !.pc = "put", !.ms = s]
  <2>0. /\ m.pc = "forward" /\ m.key \in Keys /\ m.pod # 0 /\ m.new # 0 /\ up[m.key] = m.pod
        /\ UNCHANGED <<row, last, up, sess, byPod, release, late>>
        /\ mreq' = [mreq EXCEPT ![q] = r]
    BY Zenon, <1>3 DEF Initialized, Shape, SetReq
  <2>1. m.pod = row[m.key] /\ release[m.key].pc = "no"
    BY Zenon, <2>0 DEF PodInv
  <2>2. s \in SessionRows /\ s # NoRow /\ s.key = m.key /\ s.inc = m.pod
    BY <1>0, <2>0 DEF SessionRows, ReqRecords, NoRow
  <2>3. /\ r \in ReqRecords /\ r.pc = "put" /\ r.key = m.key /\ r.pod = m.pod /\ r.ms = s
        /\ r.new = m.new
    BY Zenon, <1>0, <2>2 DEF ReqRecords
  <2> HIDE DEF r, s
  <2> QED
    BY Zenon, <2>0, <2>1, <2>2, <2>3, RequestInv
<1> QED
  BY Zenon, <1>1, <1>2, <1>3 DEF Forwarded, PutSessionLost, SetReq

\* PutSession puts a row of the running incarnation into an index that the purge has yet to read,
\* unless the initialize was under way when it was read.
LEMMA PutSessionInv == ASSUME SessIInv, NEW q \in Reqs, PutSession(q) PROVE SessIInv'
<1> USE DEF SessIInv
<1> DEFINE m == mreq[q]
<1>0. /\ m.pc = "put" /\ m.key \in Keys /\ m.ms # NoRow /\ m.ms.key = m.key /\ m.new \in Ids
      /\ m.ms \in SessionRows /\ NoReq \in ReqRecords /\ NoReq.pc = "idle"
  BY DEF PutSession, Shape, HeldInv, ReqRecords, NoReq, SessionRows
<1>1. /\ sess' = [sess EXCEPT ![m.new] = m.ms]
      /\ byPod' = [byPod EXCEPT ![m.key] = @ \cup {m.new}]
      /\ mreq' = [mreq EXCEPT ![q] = NoReq]
      /\ UNCHANGED <<row, last, up, release, late>>
  BY Zenon DEF PutSession, SetReq
<1>2. mreq'[q] = NoReq /\ \A x \in Reqs : x # q => mreq'[x] = mreq[x]
  BY Zenon, <1>1 DEF Shape
<1>3. /\ sess'[m.new] = m.ms /\ \A id \in Ids : id # m.new => sess'[id] = sess[id]
      /\ m.new \in byPod'[m.key] /\ \A k \in Keys : byPod[k] \subseteq byPod'[k]
  BY Zenon, <1>0, <1>1 DEF Shape
<1>4. Shape'
  BY Zenon, <1>0, <1>1 DEF Shape
<1>5. HeldInv' /\ PodInv' /\ PutInv'
  BY <1>0, <1>1, <1>2 DEF HeldInv, PodInv, PutInv
<1>6. RowInv'
  <2> SUFFICES ASSUME NEW id \in Ids, id \notin late, sess'[id] # NoRow
               PROVE  LET k == sess'[id].key IN
                      /\ sess'[id].inc = row[k] /\ id \in byPod'[k] /\ release[k].pc # "row"
                      /\ release[k].pc = "purge" => id \in release[k].ids
    BY Zenon, <1>1 DEF RowInv
  <2>1. CASE id = m.new
    BY Zenon, <1>0, <1>3, <2>1 DEF PutInv
  <2>2. CASE id # m.new
    <3>1. sess[id].key \in Keys
      BY Zenon, <1>3, <2>2, Rows DEF Shape
    <3> QED
      BY Zenon, <1>3, <2>2, <3>1 DEF RowInv
  <2> QED
    BY Zenon, <2>1, <2>2
<1> QED
  BY Zenon, <1>4, <1>5, <1>6

\* A row that is deleted or expires leaves the others in their indices.
LEMMA DropInv ==
    ASSUME SessIInv, NEW id \in Ids,
           ExpireSession(id) \/ \E u \in Subjects : DeleteSession(u, id)
    PROVE  SessIInv'
<1> USE DEF SessIInv
<1>0. sess[id] \in SessionRows /\ sess[id] # NoRow /\ sess[id].key \in Keys
  BY Zenon, Rows DEF ExpireSession, DeleteSession, Shape
<1>1. /\ sess' = [sess EXCEPT ![id] = NoRow]
      /\ byPod' \in {byPod, [byPod EXCEPT ![sess[id].key] = @ \ {id}]}
      /\ UNCHANGED <<row, last, up, release, mreq, late>>
  BY Zenon DEF ExpireSession, DeleteSession
<1>2. /\ sess'[id] = NoRow /\ \A x \in Ids : x # id => sess'[x] = sess[x]
      /\ \A x \in Ids, k \in Keys : x # id /\ x \in byPod[k] => x \in byPod'[k]
  BY <1>0, <1>1 DEF Shape
<1>3. Shape'
  BY <1>0, <1>1 DEF Shape, SessionRows
<1>4. HeldInv' /\ PodInv' /\ PutInv'
  BY Zenon, <1>1 DEF HeldInv, PodInv, PutInv
<1>5. RowInv'
  BY <1>1, <1>2, Rows DEF RowInv, Shape
<1> QED
  BY Zenon, <1>3, <1>4, <1>5

\* The steps of a release: no session of the pod is left, other than the late ones, when the row of
\* the pod goes.
LEMMA ReleaseInv ==
    ASSUME SessIInv, NEW k \in Keys,
           ReleasePod(k) \/ ListSessionsOfPod(k) \/ DeleteSessionsForPod(k) \/ DeletePodRow(k)
    PROVE  SessIInv'
<1> USE DEF SessIInv
<1>1. CASE ReleasePod(k)
  <2>1. Shape' /\ HeldInv' /\ PodInv'
    BY <1>1 DEF ReleasePod, Shape, HeldInv, PodInv
  <2>2. PutInv' /\ RowInv'
    BY <1>1, Rows DEF ReleasePod, PutInv, RowInv, Shape
  <2> QED
    BY Zenon, <2>1, <2>2
<1>2. CASE ListSessionsOfPod(k)
  <2>1. Shape' /\ HeldInv' /\ PodInv'
    BY Zenon, <1>2 DEF ListSessionsOfPod, Shape, HeldInv, PodInv
  <2>2. \A q \in Reqs : mreq[q].pc = "put" /\ mreq[q].key = k => mreq[q].new \in late'
    BY Zenon, <1>2 DEF ListSessionsOfPod, Under, HeldInv
  <2>3. PutInv'
    BY Zenon, <1>2, <2>2 DEF ListSessionsOfPod, PutInv, Shape
  <2>4. RowInv'
    BY Zenon, <1>2, Rows DEF ListSessionsOfPod, RowInv, Shape
  <2> QED
    BY Zenon, <2>1, <2>3, <2>4
<1>3. CASE DeleteSessionsForPod(k)
  <2>1. NoRow \in SessionRows
    BY Zenon DEF SessionRows
  <2>2. Shape' /\ HeldInv' /\ PodInv'
    BY Zenon, <1>3, <2>1 DEF DeleteSessionsForPod, Shape, HeldInv, PodInv
  <2>3. PutInv'
    BY Zenon, <1>3 DEF DeleteSessionsForPod, PutInv, Shape
  <2>4. RowInv'
    BY Zenon, <1>3, Rows DEF DeleteSessionsForPod, RowInv, Shape
  <2> QED
    BY Zenon, <2>2, <2>3, <2>4
<1>4. CASE DeletePodRow(k)
  <2>1. Shape' /\ HeldInv' /\ PodInv'
    BY Zenon, <1>4 DEF DeletePodRow, NoRelease, Shape, HeldInv, PodInv
  <2>2. PutInv' /\ RowInv'
    BY ZenonT(40), <1>4, Rows DEF DeletePodRow, NoRelease, PutInv, RowInv, Shape
  <2> QED
    BY Zenon, <2>1, <2>2
<1> QED
  BY Zenon, <1>1, <1>2, <1>3, <1>4

\* The invariant holds at first and is inductive.
LEMMA SessInduction == (SessInit => SessIInv) /\ (SessIInv /\ [SessNext]_sessVars => SessIInv')
<1>1. SessInit => SessIInv
  BY DEF SessInit, SessIInv, Shape, HeldInv, PodInv, PutInv, RowInv, ReqRecords, NoReq, NoRow,
         NoRelease, SessionRows
<1>2. ASSUME SessIInv, [SessNext]_sessVars PROVE SessIInv'
  <2>1. CASE UNCHANGED sessVars
    BY Zenon, <1>2, <2>1 DEF sessVars, SessIInv, Shape, HeldInv, PodInv, PutInv, RowInv
  <2>2. CASE \E q \in Reqs : Serve(q)
    BY Zenon, <1>2, <2>2, PostInv, OwnStepInv, PutSessionInv DEF Serve
  <2>3. CASE \E id \in Ids : ExpireSession(id) \/ \E u \in Subjects : DeleteSession(u, id)
    BY Zenon, <1>2, <2>3, DropInv
  <2> QED
    BY Zenon, <1>2, <2>1, <2>2, <2>3, ReleaseInv DEF SessNext
<1> QED
  BY Zenon, <1>1, <1>2

\* The id of one subject or adapter never opens the session of another, for any number of clients.
THEOREM SessionsStayApart == SessSpec => []ForwardsOwnSession
<1>1. SessIInv => ForwardsOwnSession
  BY Zenon DEF SessIInv, HeldInv, ForwardsOwnSession
<1> QED
  BY <1>1, SessInduction, PTL DEF SessSpec

\* A session of a released incarnation is gone from the table, unless its initialize was under way
\* when the index of the pod was read, however requests and releases interleave.
THEOREM PurgeIsComplete == SessSpec => []StaleRowsAreLate
<1>1. SessIInv => StaleRowsAreLate
  BY Zenon DEF SessIInv, RowInv, StaleRowsAreLate
<1> QED
  BY <1>1, SessInduction, PTL DEF SessSpec

\* What the type invariant needs besides: ids are given out before they are used, and a row has
\* the last incarnation of its pod.
MintInv ==
    /\ minted \subseteq Ids /\ late \subseteq minted
    /\ \A q \in Reqs : mreq[q].new \in minted \cup {0}
    /\ \A id \in Ids : sess[id] # NoRow => id \in minted
    /\ \A k \in Keys : row[k] \in {0, last[k]}

\* Every step of a request, an expiry or a release preserves it.
LEMMA MintStep == SessIInv /\ MintInv /\ [SessNext]_sessVars => MintInv'
<1> SUFFICES ASSUME SessIInv, MintInv, [SessNext]_sessVars PROVE MintInv'
  BY Zenon
<1> USE DEF MintInv
<1>t. /\ row \in [Keys -> 0 .. MaxInc] /\ last \in [Keys -> 0 .. MaxInc] /\ sess \in [Ids -> SessionRows]
      /\ mreq \in [Reqs -> ReqRecords] /\ \A q \in Reqs : mreq[q] \in ReqRecords
  BY Zenon DEF SessIInv, Shape
<1>n. NoReq.new = 0
  BY Zenon DEF NoReq
\* A request that is at r afterwards, and gives out no id but its own.
<1>r. ASSUME NEW q \in Reqs, NEW r, mreq' = [mreq EXCEPT ![q] = r], minted \subseteq minted', minted' \subseteq Ids,
             r.new \in minted' \cup {0}, UNCHANGED <<sess, late>>,
             \A k \in Keys : row'[k] \in {0, last'[k]}
      PROVE  MintInv'
  <2>1. \A x \in Reqs : mreq'[x] = IF x = q THEN r ELSE mreq[x]
    BY Zenon, <1>t, <1>r
  <2> QED
    BY Zenon, <1>r, <2>1
<1>1. ASSUME NEW q \in Reqs, NEW k \in Keys, NEW sid \in Ids \cup {0}, Post(q, k, sid) PROVE MintInv'
  <2>1. PICK r : r = [NoReq EXCEPT !.pc = "ensured", !.key = k, !.sid = sid, !.pod = row'[k]]
    BY Zenon
  <2>2. r.new = 0
    BY Zenon, <2>1 DEF NoReq
  <2>3. \A j \in Keys : row'[j] \in {0, last'[j]}
    BY ZenonT(40), <1>1, <1>t DEF Post
  <2> QED
    BY Zenon, <1>1, <1>r, <2>1, <2>2, <2>3 DEF Post, SetReq
<1>2. ASSUME NEW q \in Reqs, GetSession(q) PROVE MintInv'
  <2>1. PICK d \in ReqRecords : d = mreq[q]
    BY Zenon, <1>t
  <2>2. UNCHANGED <<row, last, sess, late>>
    BY Zenon, <1>2 DEF GetSession
  <2>3. PICK s : s = IF d.sid = 0 THEN NoRow ELSE sess[d.sid]
    BY Zenon
  <2>4. CASE SetReq(q, NoReq) /\ UNCHANGED minted
    BY Zenon, <1>n, <1>r, <2>2, <2>4 DEF SetReq
  <2>5. CASE SetReq(q, [d EXCEPT !.pc = "forward", !.ms = s]) /\ UNCHANGED minted
    <3>1. PICK r : r = [d EXCEPT !.pc = "forward", !.ms = s]
      BY Zenon
    <3>2. r.new = d.new
      BY Zenon, <3>1 DEF ReqRecords
    <3> QED
      BY Zenon, <1>r, <2>1, <2>2, <2>5, <3>1, <3>2 DEF SetReq
  <2>6. ASSUME NEW id \in Ids, minted' = minted \cup {id}, SetReq(q, [d EXCEPT !.pc = "forward", !.new = id])
        PROVE  MintInv'
    <3>1. PICK r : r = [d EXCEPT !.pc = "forward", !.new = id]
      BY Zenon
    <3>2. r.new = id
      BY Zenon, <3>1 DEF ReqRecords
    <3> QED
      BY <1>r, <2>2, <2>6, <3>1, <3>2 DEF SetReq
  <2> QED
    BY Zenon, <1>2, <2>1, <2>3, <2>4, <2>5, <2>6 DEF GetSession
<1>3. ASSUME NEW q \in Reqs, Initialized(q) PROVE MintInv'
  <2>1. PICK d \in ReqRecords : d = mreq[q]
    BY Zenon, <1>t
  <2>2. PICK r : r = [d EXCEPT !.pc = "put", !.ms = [key |-> d.key, inc |-> d.pod]]
    BY Zenon
  <2>3. r.new = d.new
    BY Zenon, <2>2 DEF ReqRecords
  <2> QED
    BY Zenon, <1>3, <1>r, <2>1, <2>2, <2>3 DEF Initialized, SetReq
<1>4. ASSUME NEW q \in Reqs, Forwarded(q) \/ PutSessionLost(q) PROVE MintInv'
  BY Zenon, <1>4, <1>n, <1>r DEF Forwarded, PutSessionLost, SetReq
<1>5. ASSUME NEW q \in Reqs, PutSession(q) PROVE MintInv'
  <2>1. mreq[q].new \in minted
    BY Zenon, <1>5 DEF PutSession, SessIInv, HeldInv
  <2>2. \A x \in Reqs : mreq'[x] = IF x = q THEN NoReq ELSE mreq[x]
    BY Zenon, <1>5, <1>t DEF PutSession, SetReq
  <2>3. \A id \in Ids : id # mreq[q].new => sess'[id] = sess[id]
    BY Zenon, <1>5, <1>t DEF PutSession
  <2> QED
    BY Zenon, <1>5, <1>n, <2>1, <2>2, <2>3 DEF PutSession
<1>6. ASSUME NEW id \in Ids, ExpireSession(id) \/ \E u \in Subjects : DeleteSession(u, id) PROVE MintInv'
  <2>1. \A x \in Ids : sess'[x] \in {NoRow, sess[x]}
    BY Zenon, <1>6, <1>t DEF ExpireSession, DeleteSession
  <2> QED
    BY Zenon, <1>6, <2>1 DEF ExpireSession, DeleteSession
<1>7. ASSUME NEW k \in Keys, ReleasePod(k) \/ DeleteSessionsForPod(k) \/ DeletePodRow(k) PROVE MintInv'
  <2>1. UNCHANGED <<last, minted, mreq, late>> /\ \A x \in Ids : sess'[x] \in {NoRow, sess[x]}
    BY Zenon, <1>7 DEF ReleasePod, DeleteSessionsForPod, DeletePodRow
  <2>2. \A j \in Keys : row'[j] \in {0, row[j]}
    BY Zenon, <1>7, <1>t DEF ReleasePod, DeleteSessionsForPod, DeletePodRow
  <2> QED
    BY Zenon, <2>1, <2>2
<1>8. ASSUME NEW k \in Keys, ListSessionsOfPod(k) PROVE MintInv'
  <2>1. Under(k) \subseteq minted
    BY Zenon DEF Under
  <2> QED
    BY Zenon, <1>8, <2>1 DEF ListSessionsOfPod
<1>9. CASE UNCHANGED sessVars
  BY Zenon, <1>9 DEF sessVars
<1> QED
  BY Zenon, <1>1, <1>2, <1>3, <1>4, <1>5, <1>6, <1>7, <1>8, <1>9 DEF SessNext, Serve

\* The two together give the type invariant.
LEMMA SessTypes == SessIInv /\ MintInv => SessTypeOK
<1> SUFFICES ASSUME SessIInv, MintInv PROVE SessTypeOK
  BY Zenon
<1>1. \A q \in Reqs : mreq[q] \in ReqRecords /\ (mreq[q].pc # "idle" => mreq[q].key \in Keys)
  BY Zenon DEF SessIInv, Shape
<1>2. \A q \in Reqs : mreq[q].pc \in {"idle", "ensured", "forward", "put"} /\ mreq[q].ms \in SessionRows
  BY Zenon, <1>1 DEF ReqRecords
<1>3. \A k \in Keys : up[k] \in {0, last[k]} /\ row[k] <= last[k]
  <2>1. \A k \in Keys : row[k] \in 0 .. MaxInc /\ last[k] \in 0 .. MaxInc
    BY Zenon DEF SessIInv, Shape
  <2> QED
    BY <2>1 DEF SessIInv, PodInv, MintInv
<1> QED
  BY Zenon, <1>1, <1>2, <1>3 DEF SessIInv, Shape, MintInv, SessTypeOK

HIDE SessionsAssumption

-----------------------------------------------------------------------------
(***************************************************************************)
(* The router.  Upstreams and calls belong to one subject and one type     *)
(* throughout; under the first configuration what ran with credentials is  *)
(* declared to.                                                            *)
(***************************************************************************)

UpRecs == [u : Clients \cup {"none"}, t : RTypes \cup {"none"}, cred : BOOLEAN, open : BOOLEAN]
RCallRecs ==
    [pc : {"idle", "get", "connect", "use", "panic"}, kind : {"list", "call"}, u : Clients \cup {"none"},
     t : RTypes \cup {"none"}, hash : Configs \cup {0}, cred : BOOLEAN, up : Ups \cup {0}]

\* The call is for a type of a subject, and uses an upstream of theirs.
RCallAt(r) ==
    /\ r.pc \in {"get", "connect", "use"} => r.u \in Clients /\ r.t \in RTypes
    /\ r.pc = "use" => r.up \in Ups /\ ups[r.up].u = r.u /\ ups[r.up].t = r.t

\* What holds until the configuration changes.
FirstCall(r) == r.pc = "connect" /\ r.cred => config[1][r.t]
FirstUp(n) == ups[n].cred => config[1][ups[n].t]
FirstCache(t) ==
    /\ \A u \in Clients : cache[t][u].cred => cache[t][u].of = u
    /\ cache[t]["all"].cred => config[1][t]

FirstConfig ==
    /\ \A u \in Clients : decl[u] = 1
    /\ \A n \in Ups : FirstUp(n)
    /\ \A c \in RCalls : FirstCall(rcall[c])
    /\ \A t \in RTypes : FirstCache(t)

RouterIInv ==
    /\ RouterTypeOK /\ ups \in [Ups -> UpRecs] /\ rcall \in [RCalls -> RCallRecs]
    /\ \A c \in RCalls : RCallAt(rcall[c])
    /\ hash = 1 => FirstConfig

USE RouterAssumption

\* The pointwise facts of the types.
LEMMA RouterTypes ==
    ASSUME RouterIInv
    PROVE  /\ hash \in Nat /\ hash >= 1 /\ 1 \in Configs
           /\ \A h \in Configs, t \in RTypes : config[h][t] \in BOOLEAN
           /\ \A u \in Clients : decl[u] \in Configs /\ \A t \in RTypes : conns[u][t] \in Ups \cup {0}
           /\ \A n \in Ups : n # 0 /\ ups[n] \in UpRecs
           /\ \A c \in RCalls : rcall[c] \in RCallRecs
           /\ DOMAIN ups = Ups /\ DOMAIN rcall = RCalls
<1>1. hash \in 1 .. MaxConfig /\ 1 \in Configs
  BY DEF RouterIInv, RouterTypeOK, Configs
<1>2. hash \in Nat /\ hash >= 1 /\ \A n \in Ups : n # 0
  BY <1>1 DEF Ups
<1>3. /\ \A h \in Configs, t \in RTypes : config[h][t] \in BOOLEAN
      /\ \A u \in Clients : decl[u] \in Configs /\ \A t \in RTypes : conns[u][t] \in Ups \cup {0}
  BY DEF RouterIInv, RouterTypeOK
<1>4. /\ \A n \in Ups : ups[n] \in UpRecs
      /\ \A c \in RCalls : rcall[c] \in RCallRecs
      /\ DOMAIN ups = Ups /\ DOMAIN rcall = RCalls
  BY Zenon DEF RouterIInv
<1> QED
  BY Zenon, <1>1, <1>2, <1>3, <1>4

\* What a listing or a call that is over leaves.
LEMMA EndRecs ==
    ASSUME NEW x \in {"idle", "panic"}
    PROVE  /\ [NoRCall EXCEPT !.pc = x] \in RCallRecs /\ [NoRCall EXCEPT !.pc = x].pc = x
           /\ RCallAt([NoRCall EXCEPT !.pc = x]) /\ FirstCall([NoRCall EXCEPT !.pc = x])
BY Zenon DEF RCallRecs, NoRCall, RCallAt, FirstCall

\* A step of one call that opens no upstream.
LEMMA SetCallInv ==
    ASSUME RouterIInv, NEW c \in RCalls, NEW r \in RCallRecs, SetCall(c, r),
           RCallAt(r), hash = 1 => FirstCall(r),
           UNCHANGED <<config, hash, client, decl, conns, ups>>,
           cache' \in [RTypes -> [Clients \cup {"all"} -> Listings]],
           hash = 1 => \A t \in RTypes : FirstCache(t)'
    PROVE  RouterIInv'
<1>1. /\ rcall' \in [RCalls -> RCallRecs]
      /\ \A x \in RCalls : rcall'[x] = IF x = c THEN r ELSE rcall[x]
  BY Zenon DEF RouterIInv, SetCall
<1>2. \A x \in RCalls : rcall'[x].pc \in {"idle", "get", "connect", "use", "panic"}
  BY Zenon, <1>1 DEF RCallRecs
<1>3. RouterTypeOK'
  BY Zenon, <1>2 DEF RouterIInv, RouterTypeOK
<1>4. ASSUME NEW x \in RCalls PROVE RCallAt(rcall[x])'
  <2>1. RCallAt(rcall'[x])
    BY Zenon, <1>1 DEF RouterIInv
  <2> QED
    BY Zenon, <2>1 DEF RCallAt
<1>5. ASSUME hash = 1, NEW x \in RCalls PROVE FirstCall(rcall[x])'
  <2>1. FirstCall(rcall'[x])
    BY Zenon, <1>1, <1>5 DEF RouterIInv, FirstConfig
  <2> QED
    BY Zenon, <2>1 DEF FirstCall
<1>6. hash = 1 => FirstConfig'
  BY Zenon, <1>5 DEF RouterIInv, FirstConfig, FirstUp
<1> QED
  BY Zenon, <1>1, <1>3, <1>4, <1>6 DEF RouterIInv

\* The invariant holds initially.
LEMMA RouterInitInv == RouterInit => RouterIInv
<1> SUFFICES ASSUME RouterInit PROVE RouterIInv
  BY Zenon
<1> USE DEF RouterInit
<1>1. NoUp \in UpRecs /\ ~NoUp.cred /\ NoRCall \in RCallRecs /\ NoRCall.pc = "idle"
      /\ NoListing \in Listings /\ ~NoListing.cred
  BY Zenon DEF NoUp, UpRecs, NoRCall, RCallRecs, NoListing, Listings
<1>2. ups \in [Ups -> UpRecs] /\ rcall \in [RCalls -> RCallRecs]
      /\ (\A n \in Ups : ups[n] = NoUp) /\ (\A c \in RCalls : rcall[c] = NoRCall)
  BY Zenon, <1>1
<1>3. \A t \in RTypes, w \in Clients \cup {"all"} : cache[t][w] = NoListing
  BY Zenon DEF NoCache
<1>4. RouterTypeOK
  <2>1. cache \in [RTypes -> [Clients \cup {"all"} -> Listings]]
    BY Zenon, <1>1 DEF NoCache
  <2>2. 1 \in Configs
    BY DEF Configs
  <2> QED
    BY Zenon, <1>1, <1>2, <2>1, <2>2 DEF RouterTypeOK
<1>5. \A c \in RCalls : RCallAt(rcall[c]) /\ FirstCall(rcall[c])
  BY Zenon, <1>1, <1>2 DEF RCallAt, FirstCall
<1>6. \A n \in Ups : FirstUp(n)
  BY Zenon, <1>1, <1>2 DEF FirstUp
<1>7. \A t \in RTypes : FirstCache(t)
  BY Zenon, <1>1, <1>3 DEF FirstCache
<1> QED
  BY Zenon, <1>2, <1>4, <1>5, <1>6, <1>7 DEF RouterIInv, FirstConfig

\* An upstream taken into use leaves the others' as they are.
LEMMA ConnectInv ==
    ASSUME RouterIInv, NEW c \in RCalls, Connect(c)
    PROVE  RouterIInv'
<1> USE RouterTypes
<1>t. /\ cache \in [RTypes -> [Clients \cup {"all"} -> Listings]]
      /\ hash = 1 => \A t \in RTypes : FirstCache(t)
  BY Zenon DEF RouterIInv, RouterTypeOK, FirstConfig
<1>1. CASE EndCall(c) /\ UNCHANGED <<conns, ups>>
  <2>1. PICK x \in {"idle", "panic"} : SetCall(c, [NoRCall EXCEPT !.pc = x])
    BY Zenon, <1>1 DEF EndCall, OnCall
  <2>2. UNCHANGED <<config, hash, client, decl, conns, ups, cache>>
    BY Zenon, <1>1 DEF Connect
  <2>3. hash = 1 => \A t \in RTypes : FirstCache(t)'
    BY Zenon, <1>t, <2>2 DEF FirstCache
  <2> QED
    BY Zenon, <1>t, <2>1, <2>2, <2>3, EndRecs, SetCallInv
<1>2. ASSUME NEW n \in Ups, ups[n] = NoUp,
             ups' = [ups EXCEPT ![n] = [u |-> rcall[c].u, t |-> rcall[c].t, cred |-> rcall[c].cred, open |-> TRUE]],
             conns' = [conns EXCEPT ![rcall[c].u][rcall[c].t] = n],
             SetCall(c, [rcall[c] EXCEPT !.pc = "use", !.up = n])
      PROVE  RouterIInv'
  <2>1. PICK d \in RCallRecs : d = rcall[c]
    BY Zenon
  <2>2. /\ d.pc = "connect" /\ d.u \in Clients /\ d.t \in RTypes
        /\ hash = 1 /\ d.cred => config[1][d.t]
    BY Zenon, <2>1 DEF Connect, RouterIInv, RCallAt, FirstConfig, FirstCall
  <2>3. PICK p : p = [u |-> d.u, t |-> d.t, cred |-> d.cred, open |-> TRUE]
    BY Zenon
  <2>4. p \in UpRecs
    BY Zenon, <2>2, <2>3 DEF UpRecs, RCallRecs
  <2>5. PICK r : r = [d EXCEPT !.pc = "use", !.up = n]
    BY Zenon
  <2>6. r \in RCallRecs /\ r.pc = "use" /\ r.up = n /\ r.u = d.u /\ r.t = d.t
    BY Zenon, <2>5 DEF RCallRecs
  <2>7. UNCHANGED <<config, hash, client, decl, cache>>
    BY Zenon DEF Connect
  <2>8. /\ ups' \in [Ups -> UpRecs]
        /\ \A m \in Ups : ups'[m] = IF m = n THEN p ELSE ups[m]
    BY Zenon, <1>2, <2>1, <2>3, <2>4 DEF RouterIInv
  <2>9. /\ rcall' \in [RCalls -> RCallRecs]
        /\ \A x \in RCalls : rcall'[x] = IF x = c THEN r ELSE rcall[x]
    BY Zenon, <1>2, <2>1, <2>5, <2>6 DEF RouterIInv, SetCall
  <2>10. /\ conns' \in [Clients -> [RTypes -> Ups \cup {0}]]
         /\ \A u \in Clients, t \in RTypes :
              conns'[u][t] = IF u = d.u /\ t = d.t THEN n ELSE conns[u][t]
    <3>1. conns \in [Clients -> [RTypes -> Ups \cup {0}]]
      BY Zenon DEF RouterIInv, RouterTypeOK
    <3> QED
      BY <1>2, <2>1, <2>2, <3>1
  <2>11. ups[n].u \notin Clients /\ p.u = d.u /\ p.t = d.t
    BY SMTT(30), <1>2, <2>3 DEF NoUp
  <2>12. RouterTypeOK'
    <3>1. \A u \in Clients, t \in RTypes :
            conns'[u][t] # 0 => ups'[conns'[u][t]].u = u /\ ups'[conns'[u][t]].t = t
      BY SMTT(30), <2>8, <2>10, <2>11 DEF RouterIInv, RouterTypeOK
    <3>2. \A x \in RCalls : rcall'[x].pc \in {"idle", "get", "connect", "use", "panic"}
      BY Zenon, <2>9 DEF RCallRecs
    <3> QED
      BY Zenon, <2>7, <2>10, <3>1, <3>2 DEF RouterIInv, RouterTypeOK
  <2>13. ASSUME NEW x \in RCalls PROVE RCallAt(rcall[x])'
    <3>1. CASE x = c
      <4>1. RCallAt(r)'
        BY Zenon, <2>2, <2>6, <2>8, <2>11 DEF RCallAt
      <4> QED
        BY Zenon, <2>9, <3>1, <4>1
    <3>2. CASE x # c
      <4>1. PICK e \in RCallRecs : e = rcall[x]
        BY Zenon
      <4>2. RCallAt(e)
        BY Zenon, <4>1 DEF RouterIInv
      <4>3. RCallAt(e)'
        BY Zenon, <2>8, <2>11, <4>2 DEF RCallAt
      <4> QED
        BY Zenon, <2>9, <3>2, <4>1, <4>3
    <3> QED
      BY Zenon, <3>1, <3>2
  <2>14. ASSUME hash = 1 PROVE FirstConfig'
    <3>1. \A m \in Ups : FirstUp(m)'
      BY SMTT(30), <2>2, <2>3, <2>7, <2>8, <2>14 DEF RouterIInv, FirstConfig, FirstUp
    <3>2. \A x \in RCalls : FirstCall(rcall[x])'
      BY Zenon, <2>6, <2>7, <2>9, <2>14 DEF RouterIInv, FirstConfig, FirstCall
    <3>3. \A t \in RTypes : FirstCache(t)'
      BY Zenon, <1>t, <2>7, <2>14 DEF FirstCache
    <3> QED
      BY Zenon, <2>7, <2>14, <3>1, <3>2, <3>3 DEF RouterIInv, FirstConfig
  <2> QED
    BY Zenon, <2>7, <2>8, <2>9, <2>12, <2>13, <2>14 DEF RouterIInv
<1>3. CASE ~(EndCall(c) /\ UNCHANGED <<conns, ups>>)
  <2> DEFINE free == {n \in Ups : ups[n] = NoUp}
  <2>1. free # {}
    BY Zenon, <1>3 DEF Connect
  <2>2. PICK n : n = CHOOSE x \in free : TRUE
    BY Zenon
  <2>3. n \in free
    BY Zenon, <2>1, <2>2
  <2> QED
    BY Zenon, <1>2, <1>3, <2>2, <2>3 DEF Connect
<1> QED
  BY Zenon, <1>1, <1>3

\* Every step of a session, of a call and of the operator preserves the invariant.
LEMMA RouterStepInv == RouterIInv /\ [RouterNext]_routerVars => RouterIInv'
<1> SUFFICES ASSUME RouterIInv, [RouterNext]_routerVars PROVE RouterIInv'
  BY Zenon
<1> USE RouterTypes
<1>t. /\ cache \in [RTypes -> [Clients \cup {"all"} -> Listings]]
      /\ hash = 1 => (\A t \in RTypes : FirstCache(t)) /\ (\A u \in Clients : decl[u] = 1)
      /\ \A c \in RCalls : RCallAt(rcall[c])
  BY Zenon DEF RouterIInv, RouterTypeOK, FirstConfig
\* A step that is one call's alone, and lists nothing.
<1>s. ASSUME NEW c \in RCalls, NEW r \in RCallRecs, SetCall(c, r), RCallAt(r), hash = 1 => FirstCall(r),
             UNCHANGED <<config, hash, client, decl, conns, ups, cache>>
      PROVE  RouterIInv'
  <2>1. hash = 1 => \A t \in RTypes : FirstCache(t)'
    BY Zenon, <1>s, <1>t DEF FirstCache
  <2> QED
    BY Zenon, <1>s, <1>t, <2>1, SetCallInv
<1>e. ASSUME NEW c \in RCalls, NEW p, OnCall(c, p), UNCHANGED <<config, hash, client, decl, conns, ups, cache>>
      PROVE  RouterIInv'
  <2>1. PICK x \in {"idle", "panic"} : SetCall(c, [NoRCall EXCEPT !.pc = x])
    BY Zenon, <1>e DEF OnCall
  <2> QED
    BY Zenon, <1>e, <1>s, <2>1, EndRecs
<1>1. ASSUME NEW c \in RCalls, NEW u \in Clients, NEW t \in RTypes, ToolsFor(c, u, t) PROVE RouterIInv'
  <2>1. PICK r : r = [NoRCall EXCEPT !.pc = "get", !.u = u, !.t = t, !.hash = hash]
    BY Zenon
  <2>2. hash \in Configs
    BY Zenon DEF RouterIInv, RouterTypeOK
  <2>3. r \in RCallRecs /\ RCallAt(r) /\ FirstCall(r)
    BY Zenon, <2>1, <2>2 DEF RCallRecs, NoRCall, RCallAt, FirstCall
  <2> QED
    BY Zenon, <1>1, <1>s, <2>1, <2>3 DEF ToolsFor
<1>2. ASSUME NEW c \in RCalls, NEW u \in Clients, NEW t \in RTypes, Authorize(c, u, t) PROVE RouterIInv'
  <2>1. PICK r : r = [NoRCall EXCEPT !.pc = "get", !.kind = "call", !.u = u, !.t = t]
    BY Zenon
  <2>2. r \in RCallRecs /\ RCallAt(r) /\ FirstCall(r)
    BY Zenon, <2>1 DEF RCallRecs, NoRCall, RCallAt, FirstCall
  <2>3. CASE SetCall(c, r)
    BY Zenon, <1>2, <1>s, <2>2, <2>3 DEF Authorize
  <2>4. CASE OnCall(c, "nil")
    BY Zenon, <1>2, <1>e, <2>4 DEF Authorize
  <2> QED
    BY Zenon, <1>2, <2>1, <2>3, <2>4 DEF Authorize
<1>3. ASSUME NEW c \in RCalls, UpstreamFor(c) PROVE RouterIInv'
  <2>1. PICK d \in RCallRecs : d = rcall[c]
    BY Zenon
  <2>2. d.pc = "get" /\ d.u \in Clients /\ d.t \in RTypes
    BY Zenon, <1>3, <1>t, <2>1 DEF UpstreamFor, RCallAt
  <2>3. UNCHANGED <<config, hash, client, decl, conns, ups, cache>>
    BY Zenon, <1>3 DEF UpstreamFor
  <2>4. CASE conns[d.u][d.t] # 0 /\ SetCall(c, [d EXCEPT !.pc = "use", !.up = conns[d.u][d.t]])
    <3>1. PICK n : n = conns[d.u][d.t]
      BY Zenon
    <3>2. n \in Ups /\ ups[n].u = d.u /\ ups[n].t = d.t
      BY <2>2, <2>4, <3>1 DEF RouterIInv, RouterTypeOK
    <3>3. PICK r : r = [d EXCEPT !.pc = "use", !.up = n]
      BY Zenon
    <3>4. r \in RCallRecs /\ r.pc = "use" /\ r.u = d.u /\ r.t = d.t /\ r.up = n
      BY Zenon, <3>2, <3>3 DEF RCallRecs
    <3>5. RCallAt(r) /\ FirstCall(r)
      BY Zenon, <2>2, <3>2, <3>4 DEF RCallAt, FirstCall
    <3> QED
      BY Zenon, <1>s, <2>3, <2>4, <3>1, <3>3, <3>4, <3>5
  <2>5. CASE SetCall(c, [d EXCEPT !.pc = "connect", !.cred = config[hash][d.t]])
    <3>1. PICK r : r = [d EXCEPT !.pc = "connect", !.cred = config[hash][d.t]]
      BY Zenon
    <3>2. config[hash][d.t] \in BOOLEAN
      BY Zenon, <2>2 DEF RouterIInv, RouterTypeOK
    <3>3. r \in RCallRecs /\ r.pc = "connect" /\ r.u = d.u /\ r.t = d.t /\ r.cred = config[hash][d.t]
      BY Zenon, <3>1, <3>2 DEF RCallRecs
    <3>4. RCallAt(r)
      BY Zenon, <2>2, <3>3 DEF RCallAt
    <3>5. hash = 1 => FirstCall(r)
      BY Zenon, <3>3 DEF FirstCall
    <3> QED
      BY Zenon, <1>s, <2>3, <2>5, <3>1, <3>3, <3>4, <3>5
  <2>6. CASE EndCall(c)
    BY Zenon, <1>e, <2>3, <2>6 DEF EndCall
  <2> QED
    BY Zenon, <1>3, <2>1, <2>4, <2>5, <2>6 DEF UpstreamFor
<1>4. ASSUME NEW c \in RCalls, Connect(c) PROVE RouterIInv'
  BY Zenon, <1>4, ConnectInv
<1>5. ASSUME NEW c \in RCalls, UseUpstream(c) PROVE RouterIInv'
  <2>1. PICK d \in RCallRecs : d = rcall[c]
    BY Zenon
  <2>2. d.pc = "use" /\ d.u \in Clients /\ d.t \in RTypes /\ d.up \in Ups /\ ups[d.up].t = d.t
    BY Zenon, <1>5, <1>t, <2>1 DEF UseUpstream, RCallAt
  <2>3. UNCHANGED <<config, hash, client, decl, conns, ups>> /\ EndCall(c)
    BY Zenon, <1>5 DEF UseUpstream
  <2>4. CASE UNCHANGED cache
    BY Zenon, <1>e, <2>3, <2>4 DEF EndCall
  <2>5. CASE UNCHANGED cache => FALSE
    <3>1. PICK k : k = CacheKey(d.u, d.t)
      BY Zenon
    <3>2. k \in {d.u, "all"} /\ (hash = 1 /\ k = "all" => ~config[1][d.t]) /\ (k # "all" => k = d.u)
      BY Zenon, <1>t, <2>2, <3>1 DEF CacheKey
    <3>3. PICK l : l = [of |-> d.u, cred |-> config[decl[d.u]][d.t] \/ ups[d.up].cred]
      BY Zenon
    <3>4. config[decl[d.u]][d.t] \in BOOLEAN /\ ups[d.up].cred \in BOOLEAN
      BY Zenon, <2>2 DEF UpRecs
    <3>5. l \in Listings /\ l.of = d.u
      BY Zenon, <2>2, <3>3, <3>4 DEF Listings
    <3>6. ASSUME hash = 1, l.cred PROVE config[1][d.t]
      <4>1. config[decl[d.u]][d.t] \/ ups[d.up].cred
        BY Zenon, <3>3, <3>6
      <4>2. decl[d.u] = 1
        BY Zenon, <1>t, <2>2, <3>6
      <4>3. ups[d.up].cred => config[1][d.t]
        BY ZenonT(40), <2>2, <3>6 DEF RouterIInv, FirstConfig, FirstUp
      <4> QED
        BY Zenon, <4>1, <4>2, <4>3
    <3>7. cache' = [cache EXCEPT ![d.t][k] = l]
      BY Zenon, <1>5, <2>1, <2>5, <3>1, <3>3 DEF UseUpstream
    <3>8. /\ cache' \in [RTypes -> [Clients \cup {"all"} -> Listings]]
          /\ \A t \in RTypes, w \in Clients \cup {"all"} :
               cache'[t][w] = IF t = d.t /\ w = k THEN l ELSE cache[t][w]
      BY Zenon, <1>t, <2>2, <3>2, <3>5, <3>7
    <3>9. ASSUME hash = 1, NEW t \in RTypes PROVE FirstCache(t)'
      <4>1. FirstCache(t) /\ UNCHANGED config
        BY Zenon, <1>t, <2>3, <3>9
      <4>2. ASSUME NEW u \in Clients, cache'[t][u].cred PROVE cache'[t][u].of = u
        BY SMTT(30), <3>2, <3>5, <3>8, <4>1, <4>2 DEF FirstCache
      <4>3. ASSUME cache'[t]["all"].cred PROVE config'[1][t]
        BY <3>2, <3>6, <3>8, <3>9, <4>1, <4>3 DEF FirstCache
      <4> QED
        BY Zenon, <4>2, <4>3 DEF FirstCache
    <3>10. PICK x \in {"idle", "panic"} : SetCall(c, [NoRCall EXCEPT !.pc = x])
      BY Zenon, <2>3 DEF EndCall, OnCall
    <3> QED
      BY Zenon, <2>3, <3>8, <3>9, <3>10, EndRecs, SetCallInv
  <2> QED
    BY Zenon, <2>4, <2>5
<1>6. ASSUME NEW u \in Clients, Initialize(u) PROVE RouterIInv'
  <2>1. /\ client' \in [Clients -> {"none", "open", "closed"}]
        /\ decl' \in [Clients -> Configs] /\ \A v \in Clients : decl'[v] = IF v = u THEN hash ELSE decl[v]
        /\ UNCHANGED <<config, hash, conns, ups, cache, rcall>>
    BY Zenon, <1>6 DEF Initialize, RouterIInv, RouterTypeOK
  <2>2. RouterTypeOK'
    BY ZenonT(40), <2>1 DEF RouterIInv, RouterTypeOK
  <2>3. \A c \in RCalls : RCallAt(rcall[c])'
    BY Zenon, <1>t, <2>1 DEF RCallAt
  <2>4. hash = 1 => FirstConfig'
    BY Zenon, <2>1 DEF RouterIInv, FirstConfig, FirstUp, FirstCall, FirstCache
  <2> QED
    BY Zenon, <2>1, <2>2, <2>3, <2>4 DEF RouterIInv
<1>7. ASSUME NEW u \in Clients, CloseAll(u) PROVE RouterIInv'
  <2>1. UNCHANGED <<config, hash, decl, cache, rcall>> /\ client' \in [Clients -> {"none", "open", "closed"}]
    BY Zenon, <1>7 DEF CloseAll, RouterIInv, RouterTypeOK
  <2>2. \A n \in Ups : ups'[n] \in UpRecs /\ ups'[n].u = ups[n].u /\ ups'[n].t = ups[n].t
                       /\ ups'[n].cred = ups[n].cred
    BY ZenonT(40), <1>7 DEF CloseAll, UpRecs
  <2>3. ups' \in [Ups -> UpRecs]
    BY Zenon, <1>7, <2>2 DEF CloseAll
  <2>4. /\ conns' \in [Clients -> [RTypes -> Ups \cup {0}]]
        /\ \A v \in Clients, t \in RTypes : conns'[v][t] = IF v = u THEN 0 ELSE conns[v][t]
    BY Zenon, <1>7 DEF CloseAll, RouterIInv, RouterTypeOK
  <2>5. RouterTypeOK'
    <3>1. ASSUME NEW v \in Clients, NEW t \in RTypes, conns'[v][t] # 0
          PROVE  ups'[conns'[v][t]].u = v /\ ups'[conns'[v][t]].t = t
      <4>1. PICK n \in Ups : n = conns[v][t]
        BY <2>4, <3>1
      <4>2. ups[n].u = v /\ ups[n].t = t
        BY Zenon, <4>1 DEF RouterIInv, RouterTypeOK
      <4> QED
        BY <2>2, <2>4, <3>1, <4>1, <4>2
    <3> QED
      BY Zenon, <2>1, <2>4, <3>1 DEF RouterIInv, RouterTypeOK
  <2>6. \A c \in RCalls : RCallAt(rcall[c])'
    BY <1>t, <2>1, <2>2 DEF RCallAt
  <2>7. hash = 1 => FirstConfig'
    BY Zenon, <2>1, <2>2 DEF RouterIInv, FirstConfig, FirstUp, FirstCall, FirstCache
  <2> QED
    BY Zenon, <2>1, <2>3, <2>5, <2>6, <2>7 DEF RouterIInv
<1>8. CASE Reload
  <2>1. /\ hash' = hash + 1 /\ hash' # 1 /\ hash' \in Configs /\ cache' = NoCache
        /\ UNCHANGED <<config, client, decl, conns, ups, rcall>>
    BY SMTT(30), <1>8 DEF Reload, Configs
  <2>2. NoCache \in [RTypes -> [Clients \cup {"all"} -> Listings]]
    BY Zenon DEF NoCache, Listings
  <2>3. RouterTypeOK'
    BY ZenonT(40), <2>1, <2>2 DEF RouterIInv, RouterTypeOK
  <2>4. \A c \in RCalls : RCallAt(rcall[c])'
    BY Zenon, <1>t, <2>1 DEF RCallAt
  <2> QED
    BY Zenon, <2>1, <2>3, <2>4 DEF RouterIInv
<1>9. CASE UNCHANGED routerVars
  <2>1. RouterTypeOK' /\ \A c \in RCalls : RCallAt(rcall[c])'
    <3>1. RouterTypeOK'
      BY ZenonT(40), <1>9 DEF routerVars, RouterIInv, RouterTypeOK
    <3>2. \A c \in RCalls : RCallAt(rcall[c])'
      BY Zenon, <1>9, <1>t DEF routerVars, RCallAt
    <3> QED
      BY Zenon, <3>1, <3>2
  <2>2. hash = 1 => FirstConfig'
    BY Zenon, <1>9 DEF routerVars, RouterIInv, FirstConfig, FirstUp, FirstCall, FirstCache
  <2> QED
    BY Zenon, <1>9, <2>1, <2>2 DEF routerVars, RouterIInv
<1> QED
  BY Zenon, <1>1, <1>2, <1>3, <1>4, <1>5, <1>6, <1>7, <1>8, <1>9 DEF RouterNext

\* "Tool lists of servers that run with user credentials may differ per user and must never be
\* shown to another user" (cacheKey): however listings, calls, and the begin and end of sessions
\* overlap, what toolsFor finds for a session before the configuration changes was not taken with
\* another subject's credentials.
THEOREM ListingsStayApart == RouterSpec => []ListingsNotShared
<1>1. RouterIInv => ListingsNotShared
  <2> SUFFICES ASSUME RouterIInv, hash = 1, NEW u \in Clients, NEW t \in RTypes, Cached(u, t).cred
               PROVE  Cached(u, t).of = u
    BY Zenon DEF ListingsNotShared
  <2>1. FirstCache(t) /\ decl[u] = 1
    BY Zenon DEF RouterIInv, FirstConfig
  <2> QED
    BY Zenon, <2>1 DEF FirstCache, Cached, CacheKey
<1> QED
  BY <1>1, RouterInitInv, RouterStepInv, PTL DEF RouterSpec

HIDE RouterAssumption

-----------------------------------------------------------------------------
(***************************************************************************)
(* The parts side by side.                                                 *)
(***************************************************************************)

\* A request for a pod goes through its stages with a key of a user and a server type.
LEMMA CapsTypes == TypeOK /\ [Next]_vars => TypeOK'
<1> SUFFICES ASSUME TypeOK, [Next]_vars PROVE TypeOK'
  BY Zenon
<1> USE DEF TypeOK
<1>0. table' = table
  BY Zenon DEF Next, vars
<1>1. ASSUME NEW q \in Requests, Step(q) PROVE TypeOK'
  <2>1. CASE \E k \in PodKeys : GetPod(q, k)
    <3>1. PICK k \in PodKeys : GetPod(q, k)
      BY Zenon, <2>1
    <3>2. /\ rows' = rows
          /\ \/ req' = [req EXCEPT ![q] = [pc |-> "hold", key |-> k, seen |-> {}]]
             \/ req' = [req EXCEPT ![q] = [pc |-> "count", key |-> k, seen |-> {}]]
      BY Zenon, <3>1 DEF GetPod, IdleReq
    <3> QED
      BY <1>0, <3>2
  <2>2. CASE CountMemory(q)
    BY <1>0, <2>2 DEF CountMemory, Admit, GoTo, Finish, At, IdleReq
  <2>3. CASE ListIndex(q) \/ CountRedis(q)
    BY <1>0, <2>3 DEF ListIndex, CountRedis, Finish, At, IdleReq
  <2>4. CASE PutPending(q)
    BY Zenon, <1>0, <2>4 DEF PutPending, GoTo, At
  <2>5. CASE Ensure(q)
    BY <1>0, <2>5 DEF Ensure, GoTo, Finish, At, IdleReq
  <2>6. CASE Hold(q)
    BY Zenon, <1>0, <2>6 DEF Hold, Finish, At, IdleReq
  <2> QED
    BY Zenon, <1>1, <2>1, <2>2, <2>3, <2>4, <2>5, <2>6 DEF Step
<1>2. ASSUME NEW k \in PodKeys, Release(k) PROVE TypeOK'
  BY Zenon, <1>0, <1>2 DEF Release
<1>3. CASE UNCHANGED vars
  BY Zenon, <1>3 DEF vars
<1> QED
  BY Zenon, <1>1, <1>2, <1>3 DEF Next

GatewayIInv == CredIInv /\ TypeOK /\ SessIInv /\ MintInv /\ RouterIInv /\ SecretsIInv

\* Whichever part of the gateway's data plane runs, the state of every part is well formed.
THEOREM GatewayTypeCorrect == GatewaySpec => []GatewayTypeOK
<1>1. GatewayInit => GatewayIInv
  <2> SUFFICES ASSUME GatewayInit PROVE GatewayIInv
    BY Zenon
  <2>1. CredInit /\ Init /\ SessInit /\ RouterInit /\ SecretsInit
    BY Zenon DEF GatewayInit
  <2>2. TypeOK
    BY Zenon, <2>1 DEF Init, IdleReq, TypeOK
  <2>3. MintInv
    BY Zenon, <2>1 DEF SessInit, MintInv, NoReq
  <2> QED
    BY Zenon, <2>1, <2>2, <2>3, CredInitInv, SessInduction, RouterInitInv, SecretsInitInv DEF GatewayIInv
<1>2. GatewayIInv /\ [GatewayNext]_<<part, credVars, vars, sessVars, routerVars, secretVars>> => GatewayIInv'
  <2> SUFFICES ASSUME GatewayIInv, [GatewayNext]_<<part, credVars, vars, sessVars, routerVars, secretVars>>
               PROVE  GatewayIInv'
    BY Zenon
  <2>1. /\ [CredNext]_credVars /\ [Next]_vars /\ [SessNext]_sessVars
        /\ [RouterNext]_routerVars /\ [SecretsNext]_secretVars
    <3>1. CASE UNCHANGED <<part, credVars, vars, sessVars, routerVars, secretVars>>
      BY Zenon, <3>1
    <3>2. CASE GatewayNext
      BY Zenon, <3>2 DEF GatewayNext, Unless
    <3> QED
      BY Zenon, <3>1, <3>2
  <2> QED
    BY Zenon, <2>1, CredStepInv, CapsTypes, SessInduction, MintStep, RouterStepInv, SecretsStepInv DEF GatewayIInv
<1>3. GatewayIInv => GatewayTypeOK
  BY Zenon, SessTypes DEF GatewayIInv, GatewayTypeOK, CredIInv, RouterIInv, SecretsIInv
<1> QED
  BY <1>1, <1>2, <1>3, PTL DEF GatewaySpec
=============================================================================
