----------------------------- MODULE McpSessions -----------------------------
(***************************************************************************)
(* gateway/handlers_mcp.go: the MCP sessions of clients with the adapters' *)
(* own endpoints.  The gateway gives a client a session id of its own and  *)
(* keeps, in the routing table, which upstream session of which pod it     *)
(* stands for.  The id is in the header of the response; the row is put    *)
(* only when the response has been copied, which for an event stream is    *)
(* when it ends.  Manager.Release ends a pod and purges its rows in steps. *)
(*                                                                         *)
(* What EnsurePod does is the subject of module Manager.  Here it returns  *)
(* the incarnation in the pod's row, or makes a new one.  A pod has the    *)
(* same name in every incarnation, so rows and index refer to its key.     *)
(* The counter of requests in flight is in module Reaper.                  *)
(***************************************************************************)
EXTENDS Naturals, FiniteSets

CONSTANTS
    Subjects, Adapters,
    Reqs,           \* requests the gateways serve at a time
    Ids,            \* session ids, in the order they are minted
    MaxInc          \* bound: incarnations of each pod

ASSUME SessionsAssumption == Ids \subseteq Nat \ {0} /\ IsFiniteSet(Ids) /\ MaxInc \in Nat

VARIABLES
    row,        \* row[k]: the incarnation in the pod's row, 0 without a row
    last,       \* last[k]: incarnations made so far
    up,         \* up[k]: the incarnation that runs, 0 when none does
    sess,       \* sess[id]: the row of the session
    byPod,      \* byPod[k]: the index sess:by-pod
    minted,     \* ids minted so far
    release,    \* release[k]: how far Manager.Release is, and the ids it listed
    mreq,       \* mreq[q]: the request
    late        \* history: ids whose initialize was under way when their pod was released

sessVars == <<row, last, up, sess, byPod, minted, release, mreq, late>>

Keys == Subjects \X Adapters

\* An upstream session belongs to the incarnation of the pod that started it.
NoRow == [key |-> <<>>, inc |-> 0]
NoReq == [pc |-> "idle", key |-> <<>>, sid |-> 0, pod |-> 0, ms |-> NoRow, new |-> 0]
NoRelease == [pc |-> "no", ids |-> {}]

SessionRows == [key : Keys, inc : 1 .. MaxInc] \cup {NoRow}

SessTypeOK ==
    /\ row \in [Keys -> 0 .. MaxInc] /\ last \in [Keys -> 0 .. MaxInc]
    /\ up \in [Keys -> 0 .. MaxInc]
    /\ sess \in [Ids -> SessionRows]
    /\ byPod \in [Keys -> SUBSET Ids]
    /\ minted \subseteq Ids /\ late \subseteq minted
    /\ release \in [Keys -> [pc : {"no", "list", "purge", "row"}, ids : SUBSET Ids]]
    /\ \A q \in Reqs :
         /\ mreq[q].pc \in {"idle", "ensured", "forward", "put"}
         /\ mreq[q].pc # "idle" => mreq[q].key \in Keys
         /\ mreq[q].ms \in SessionRows
    /\ \A k \in Keys : up[k] \in {0, last[k]} /\ row[k] <= last[k]
    /\ \A id \in Ids : sess[id] # NoRow => id \in minted

SessInit ==
    /\ row = [k \in Keys |-> 0] /\ last = [k \in Keys |-> 0] /\ up = [k \in Keys |-> 0]
    /\ sess = [id \in Ids |-> NoRow]
    /\ byPod = [k \in Keys |-> {}]
    /\ minted = {} /\ late = {}
    /\ release = [k \in Keys |-> NoRelease]
    /\ mreq = [q \in Reqs |-> NoReq]

-----------------------------------------------------------------------------

SetReq(q, r) == mreq' = [mreq EXCEPT ![q] = r]

\* The caller is granted the adapter and has its secrets: EnsurePod, with the id the client sends.
Post(q, k, sid) ==
    /\ mreq[q].pc = "idle" /\ sid \in minted \cup {0}
    /\ IF row[k] # 0 THEN UNCHANGED <<row, last, up>>
       ELSE /\ last[k] < MaxInc
            /\ last' = [last EXCEPT ![k] = @ + 1]
            /\ row' = [row EXCEPT ![k] = last[k] + 1]
            /\ up' = [up EXCEPT ![k] = last[k] + 1]
    /\ SetReq(q, [NoReq EXCEPT !.pc = "ensured", !.key = k, !.sid = sid, !.pod = row'[k]])
    /\ UNCHANGED <<sess, byPod, minted, release, late>>

\* Mutant: any session of the subject will do.
MayUseAnyPod(r, s) == r.sid = 0 \/ (s # NoRow /\ s.key[1] = r.key[1])

\* The session the request may use: it names none, or one of its own subject and pod.
MayUse(r, s) == r.sid = 0 \/ (s # NoRow /\ s.key[1] = r.key[1] /\ s.key = r.key)

\* Mutant: the id of the new session is not noted as given.
GetSessionUnminted(q) ==
    LET r == mreq[q]
        s == IF r.sid = 0 THEN NoRow ELSE sess[r.sid]
    IN
    /\ r.pc = "ensured"
    /\ \/ MayUse(r, s) /\ SetReq(q, [r EXCEPT !.pc = "forward", !.ms = s])
       \/ r.sid = 0 /\ \E id \in Ids : SetReq(q, [r EXCEPT !.pc = "forward", !.new = id])
    /\ UNCHANGED <<row, last, up, sess, byPod, minted, release, late>>

\* GetSession and what follows up to the call of the pod.  The request is refused for want of
\* its session, of a token, or of a secret by now.  Without a session an id is minted for a POST.
GetSession(q) ==
    LET r == mreq[q]
        s == IF r.sid = 0 THEN NoRow ELSE sess[r.sid]
        free == {id \in Ids \ minted : \A x \in Ids \ minted : id <= x}
    IN
    /\ r.pc = "ensured"
    /\ \/ SetReq(q, NoReq) /\ UNCHANGED minted
       \/ /\ MayUse(r, s)
          /\ SetReq(q, [r EXCEPT !.pc = "forward", !.ms = s]) /\ UNCHANGED minted
       \/ /\ r.sid = 0
          /\ \E id \in free :
                minted' = minted \cup {id} /\ SetReq(q, [r EXCEPT !.pc = "forward", !.new = id])
    /\ UNCHANGED <<row, last, up, sess, byPod, release, late>>

\* The pod that the row named runs and starts a session: the client has the id from here on.
Initialized(q) ==
    LET r == mreq[q] IN
    /\ r.pc = "forward" /\ r.new # 0 /\ up[r.key] = r.pod
    /\ SetReq(q, [r EXCEPT !.pc = "put", !.ms = [key |-> r.key, inc |-> r.pod]])
    /\ UNCHANGED <<row, last, up, sess, byPod, minted, release, late>>

\* Any other response, or none.
Forwarded(q) ==
    /\ mreq[q].pc = "forward"
    /\ SetReq(q, NoReq)
    /\ UNCHANGED <<row, last, up, sess, byPod, minted, release, late>>

\* PutSession: row and index in one transaction.
PutSession(q) ==
    LET r == mreq[q] IN
    /\ r.pc = "put"
    /\ sess' = [sess EXCEPT ![r.new] = r.ms]
    /\ byPod' = [byPod EXCEPT ![r.key] = @ \cup {r.new}]
    /\ SetReq(q, NoReq)
    /\ UNCHANGED <<row, last, up, minted, release, late>>

\* The client has left: the call has a context that is done.
PutSessionLost(q) ==
    /\ mreq[q].pc = "put"
    /\ SetReq(q, NoReq)
    /\ UNCHANGED <<row, last, up, sess, byPod, minted, release, late>>

\* DELETE by a subject: GetSession, the comparison of subjects, DeleteSession.  The row of an
\* id does not change between them.
DeleteSession(u, id) ==
    /\ sess[id] # NoRow /\ sess[id].key[1] = u
    /\ sess' = [sess EXCEPT ![id] = NoRow]
    /\ byPod' = [byPod EXCEPT ![sess[id].key] = @ \ {id}]
    /\ UNCHANGED <<row, last, up, minted, release, mreq, late>>

\* The row of the session expires; the index has an expiry of its own, which every put renews.
ExpireSession(id) ==
    /\ sess[id] # NoRow
    /\ sess' = [sess EXCEPT ![id] = NoRow]
    /\ UNCHANGED <<row, last, up, byPod, minted, release, mreq, late>>

-----------------------------------------------------------------------------
(***************************************************************************)
(* Manager.Release: the provisioner, DeleteSessionsForPod (the index is    *)
(* read, then the keys are deleted), DeletePod.                            *)
(***************************************************************************)

Under(k) == {mreq[q].new : q \in {x \in Reqs : mreq[x].key = k}} \ {0}

ReleasePod(k) ==
    /\ release[k].pc = "no" /\ row[k] # 0
    /\ up' = [up EXCEPT ![k] = 0]
    /\ release' = [release EXCEPT ![k].pc = "list"]
    /\ UNCHANGED <<row, last, sess, byPod, minted, mreq, late>>

\* SMembers of the index.
ListSessionsOfPod(k) ==
    /\ release[k].pc = "list"
    /\ release' = [release EXCEPT ![k] = [pc |-> "purge", ids |-> byPod[k]]]
    /\ late' = late \cup Under(k)
    /\ UNCHANGED <<row, last, up, sess, byPod, minted, mreq>>

\* Mutant: the sessions of the pod stay.
DeleteSessionsNone(k) ==
    /\ release[k].pc = "purge"
    /\ release' = [release EXCEPT ![k] = [pc |-> "row", ids |-> {}]]
    /\ UNCHANGED <<row, last, up, sess, byPod, minted, mreq, late>>

\* Del of the rows listed and of the index.
DeleteSessionsForPod(k) ==
    /\ release[k].pc = "purge"
    /\ sess' = [id \in Ids |-> IF id \in release[k].ids THEN NoRow ELSE sess[id]]
    /\ byPod' = [byPod EXCEPT ![k] = {}]
    /\ release' = [release EXCEPT ![k] = [pc |-> "row", ids |-> {}]]
    /\ UNCHANGED <<row, last, up, minted, mreq, late>>

\* DeletePod.
DeletePodRow(k) ==
    /\ release[k].pc = "row"
    /\ row' = [row EXCEPT ![k] = 0]
    /\ release' = [release EXCEPT ![k] = NoRelease]
    /\ UNCHANGED <<last, up, sess, byPod, minted, mreq, late>>

-----------------------------------------------------------------------------

Serve(q) ==
    \/ \E k \in Keys, sid \in Ids \cup {0} : Post(q, k, sid)
    \/ GetSession(q) \/ Initialized(q) \/ Forwarded(q) \/ PutSession(q) \/ PutSessionLost(q)

SessNext ==
    \/ \E q \in Reqs : Serve(q)
    \/ \E id \in Ids : ExpireSession(id) \/ \E u \in Subjects : DeleteSession(u, id)
    \/ \E k \in Keys : ReleasePod(k) \/ ListSessionsOfPod(k) \/ DeleteSessionsForPod(k) \/ DeletePodRow(k)

SessSpec == SessInit /\ [][SessNext]_sessVars

-----------------------------------------------------------------------------

\* A request that names a session reaches the pod of its own subject and adapter with it: the
\* id of one subject or adapter never opens the session of another.
ForwardsOwnSession ==
    \A q \in Reqs : mreq[q].pc = "forward" /\ mreq[q].ms # NoRow => mreq[q].ms.key = mreq[q].key

\* A session of an incarnation that has been released is gone from the table, so that its id
\* answers 404 and the client initializes again; and the rows that are there are in the index of
\* their pod, where the next release finds them.  The exception is a session whose initialize was
\* under way during the release: its row is put after the purge, or between the two steps of the
\* purge, where it loses its place in the index.
StaleRowsAreLate ==
    \A id \in Ids \ late : sess[id] # NoRow =>
        /\ sess[id].inc \in {row[sess[id].key], up[sess[id].key]}
        /\ id \in byPod[sess[id].key]
=============================================================================
