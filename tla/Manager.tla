------------------------------- MODULE Manager -------------------------------
(***************************************************************************)
(* gateway/manager.go over adapters/provision/kube: EnsurePod, hold and    *)
(* Release as the requests of several gateway processes run them, one      *)
(* store or API call at a time.  The gateway reads the API server, not an  *)
(* informer.  A request may be abandoned at every step: the client goes    *)
(* away (the store calls of error paths use the same cancelled context),   *)
(* the cold-start budget runs out, a call returns an error.                *)
(***************************************************************************)
EXTENDS KubeApi, RoutingTable

CONSTANT Requests   \* concurrent requests

VARIABLES
    req,            \* req[q]: the request's step and the Pod it holds
    mint            \* mint[t]: key newPodToken returned t for, or None

mgrVars == <<req, mint>>

-----------------------------------------------------------------------------

ReqSteps == {"idle", "getToken", "count", "putPending", "getSession", "createSecret",
             "createSession", "undo", "hold", "putReady", "release", "purge", "forward"}

IdleReq == [pc |-> "idle", r |-> None, key |-> None,
            phase |-> "Pending", endpoint |-> None, token |-> None]

MgrTypeOK ==
    /\ req \in [Requests ->
                  [pc : ReqSteps, r : Replicas \cup {None}, key : Keys \cup {None},
                   phase : Phases, endpoint : IPs \cup {None}, token : Tokens \cup {None}]]
    /\ \A q \in Requests :
          /\ req[q].pc # "idle" => req[q].key \in Keys /\ req[q].r \in Replicas
          /\ req[q].pc \in {"getSession", "createSecret", "createSession"} => req[q].token # None
          /\ req[q].pc \in {"putReady", "forward"} => req[q].phase = "Ready"
    /\ mint \in [Tokens -> Keys \cup {None}]

MgrInit ==
    /\ req = [q \in Requests |-> IdleReq]
    /\ mint = [t \in Tokens |-> None]

-----------------------------------------------------------------------------

At(q, pc) == req[q].pc = pc
ReqGoTo(q, pc) == req' = [req EXCEPT ![q].pc = pc]
Finish(q) == req' = [req EXCEPT ![q] = IdleReq]
PodOf(q) == [phase |-> req[q].phase, endpoint |-> req[q].endpoint, token |-> req[q].token]

\* A request enters EnsurePod and GetPod reads memory, then the row.
GetPod(q, r, k) ==
    /\ At(q, "idle")
    /\ LET start == [IdleReq EXCEPT !.r = r, !.key = k]
           found(pc, p, t) == [start EXCEPT !.pc = pc, !.phase = p.phase,
                                            !.endpoint = p.endpoint, !.token = t]
       IN \/ /\ MemHit(r, k)
             /\ req' = [req EXCEPT ![q] = found("forward", mem[r][k], mem[r][k].token)]
             /\ mem' = mem
          \/ /\ ~MemHit(r, k) /\ row[k] # None
             /\ req' = [req EXCEPT ![q] = found("getToken", row[k], None)]
             /\ mem' = mem
          \/ /\ ~MemHit(r, k) /\ row[k] = None
             /\ req' = [req EXCEPT ![q] = [start EXCEPT !.pc = "count"]]
             /\ Forget(r, k)
    /\ UNCHANGED <<kubeVars, row, tok, mint>>

\* GetPod's second read; a pod that is not Ready is waited for.
GetPodToken(q) ==
    /\ At(q, "getToken")
    /\ LET k == req[q].key
       IN /\ req' = [req EXCEPT ![q].token = tok[k],
                                ![q].pc = IF req[q].phase = "Ready" THEN "forward" ELSE "hold"]
          /\ Remember(req[q].r, k, [PodOf(q) EXCEPT !.token = tok[k]])
    /\ UNCHANGED <<kubeVars, row, tok, mint>>

\* The caps are checked; module PodCaps has the numbers.
CheckCaps(q) ==
    /\ At(q, "count")
    /\ CountPods(req[q].r)
    /\ ReqGoTo(q, "putPending") \/ Finish(q)
    /\ UNCHANGED <<kubeVars, row, tok, mint>>

\* 32 random bytes: a token nobody has seen.
newPodToken(k, t) ==
    /\ mint[t] = None
    /\ mint' = [mint EXCEPT ![t] = k]

\* Mutant: an error of the random source leaves the token empty.
PutPendingEmpty(q) ==
    /\ At(q, "putPending")
    /\ ReqGoTo(q, "getSession")
    /\ PutPod(req[q].r, req[q].key, PodOf(q))
    /\ UNCHANGED <<kubeVars, mint>>

PutPending(q) ==
    /\ At(q, "putPending")
    /\ \E t \in Tokens :
          /\ newPodToken(req[q].key, t)
          /\ req' = [req EXCEPT ![q].token = t, ![q].pc = "getSession"]
          /\ PutPod(req[q].r, req[q].key, [PodOf(q) EXCEPT !.token = t])
    /\ UNCHANGED kubeVars

\* Ensure returns early when the Session is already there.
EnsureGet(q) ==
    /\ At(q, "getSession")
    /\ ReqGoTo(q, IF session[req[q].key] # None THEN "hold" ELSE "createSecret")
    /\ UNCHANGED <<kubeVars, tableVars, mint>>

EnsureSecret(q) ==
    /\ At(q, "createSecret")
    /\ CreateSecret(req[q].key, req[q].token)
    /\ ReqGoTo(q, "createSession")
    /\ UNCHANGED <<session, pod, netpol, uid, cSession, cPod, tableVars, mint>>

EnsureSession(q) ==
    /\ At(q, "createSession")
    /\ CreateSession(req[q].key)
    /\ ReqGoTo(q, "hold")
    /\ UNCHANGED <<secret, pod, netpol, cSession, cPod, tableVars, mint>>

\* Ensure returned an error: the row goes again.
EnsureError(q) ==
    /\ req[q].pc \in {"getSession", "createSecret", "createSession"}
    /\ ReqGoTo(q, "undo")
    /\ UNCHANGED <<kubeVars, tableVars, mint>>

Undo(q) ==
    /\ At(q, "undo")
    /\ DeletePod(req[q].r, req[q].key)
    /\ Finish(q)
    /\ UNCHANGED <<kubeVars, mint>>

\* One turn of hold: Status reads the Session.
Hold(q) ==
    /\ At(q, "hold")
    /\ LET s == session[req[q].key]
       IN \/ s = None /\ Finish(q)
          \/ /\ s # None /\ s.phase = "Ready"
             /\ req' = [req EXCEPT ![q].pc = "putReady", ![q].phase = "Ready",
                                   ![q].endpoint = s.endpoint]
          \/ s # None /\ s.phase = "Failed" /\ ReqGoTo(q, "release")
    /\ UNCHANGED <<kubeVars, tableVars, mint>>

PutReady(q) ==
    /\ At(q, "putReady")
    /\ PutPod(req[q].r, req[q].key, PodOf(q))
    /\ ReqGoTo(q, "forward")
    /\ UNCHANGED <<kubeVars, mint>>

\* A user or an administrator releases a pod the table has: GetPod or ListPods
\* finds it and remembers it.  Then the same two calls as in hold's Failed
\* branch: delete the Session by name, then the row.
StartRelease(q, r, k) ==
    /\ At(q, "idle")
    /\ \/ MemHit(r, k) /\ mem' = mem
       \/ ~MemHit(r, k) /\ row[k] # None /\ Remember(r, k, WithToken(row[k], tok[k]))
    /\ req' = [req EXCEPT ![q] = [IdleReq EXCEPT !.pc = "release", !.r = r, !.key = k]]
    /\ UNCHANGED <<kubeVars, row, tok, mint>>

\* Mutant: the Session is removed with its finalizer still set.
ReleaseForced(q) ==
    /\ At(q, "release")
    /\ session' = [session EXCEPT ![req[q].key] = None]
    /\ ReqGoTo(q, "purge")
    /\ UNCHANGED <<secret, pod, netpol, uid, cSession, cPod, tableVars, mint>>

ReleaseSession(q) ==
    /\ At(q, "release")
    /\ DeleteSession(req[q].key)
    /\ ReqGoTo(q, "purge")
    /\ UNCHANGED <<secret, pod, netpol, uid, cSession, cPod, tableVars, mint>>

Purge(q) ==
    /\ At(q, "purge")
    /\ DeletePod(req[q].r, req[q].key)
    /\ Finish(q)
    /\ UNCHANGED <<kubeVars, mint>>

\* Mutant: the wrapper does not look at the token.
AcceptsAny(p, t) == TRUE

\* requirePodToken: the wrapper compares the presented token with its own.
Accepts(p, t) == p.token = t

\* Pod of key j answers what request q sends to the endpoint it holds.
Serves(q, j) ==
    /\ pod[j] # None
    /\ pod[j].state \in {"Running", "Ready"}
    /\ pod[j].ip = req[q].endpoint
    /\ Accepts(pod[j], req[q].token)

\* The request is sent upstream and answered, by a pod or by an error.
Forward(q) ==
    /\ At(q, "forward")
    /\ Finish(q)
    /\ UNCHANGED <<kubeVars, tableVars, mint>>

Abandon(q) ==
    /\ ~At(q, "idle")
    /\ Finish(q)
    /\ UNCHANGED <<kubeVars, tableVars, mint>>

\* A gateway process dies with its memory and its requests.
GatewayCrash(r) ==
    /\ mem' = [mem EXCEPT ![r] = [k \in Keys |-> None]]
    /\ req' = [q \in Requests |-> IF req[q].r = r THEN IdleReq ELSE req[q]]
    /\ UNCHANGED <<kubeVars, row, tok, mint>>

StoreLoss ==
    /\ LoseStore
    /\ UNCHANGED <<kubeVars, mgrVars>>

EnsurePod(q) ==
    \/ \E r \in Replicas, k \in Keys : GetPod(q, r, k)
    \/ GetPodToken(q) \/ CheckCaps(q) \/ PutPending(q) \/ EnsureGet(q) \/ EnsureSecret(q)
    \/ EnsureSession(q) \/ Undo(q) \/ Hold(q) \/ PutReady(q) \/ Forward(q)

Release(q) == ReleaseSession(q) \/ Purge(q)
=============================================================================
