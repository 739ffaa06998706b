-------------------------- MODULE SessionReconciler --------------------------
(***************************************************************************)
(* controller/session_controller.go: one Reconcile at a time (the manager  *)
(* runs a single worker under leader election), reading the informers'     *)
(* copies and writing to the API server.  Every API call is a step of its  *)
(* own, so gateways, the reaper, the kubelet and the garbage collector     *)
(* interleave with it.  A Reconcile may stop at any step: a call that      *)
(* returns an error ends it, and so does a crash of the controller, whose  *)
(* successor lists the objects afresh.                                     *)
(*                                                                         *)
(* What gateways and the reaper do to these objects is the environment     *)
(* here; module SessionLifecycle has their code.                           *)
(***************************************************************************)
EXTENDS KubeApi

CONSTANT PKI    \* network.podAuth is mtls: the pod Secret must be readable

ASSUME PKIAssumption == PKI \in BOOLEAN

VARIABLES
    rec,        \* the Reconcile in progress: step, key, copy of the Session
    allow       \* allow[ip]: key whose egress allowlist the proxy applies to ip

recVars == <<rec, allow>>
ctlVars == <<kubeVars, recVars>>

-----------------------------------------------------------------------------

RecSteps == {"idle", "backoff", "markTerm", "delPod", "delSecret", "onCleanup", "delSession",
             "rmFinalizer", "addFinalizer", "isolate", "createPod", "onReady", "status"}

\* phase and ip: what the pending status update will write.
IdleRec == [pc |-> "idle", key |-> None, s |-> None, phase |-> "Pending", ip |-> None]

RecTypeOK ==
    /\ rec \in [pc : RecSteps, key : Keys \cup {None}, s : SessionObject \cup {None},
                phase : Phases, ip : IPs \cup {None}]
    /\ rec.pc \notin {"idle", "backoff"} => rec.key \in Keys /\ rec.s \in SessionObject
    /\ allow \in [IPs -> Keys \cup {None}]

TypeOK == KubeTypeOK /\ RecTypeOK

Init ==
    /\ KubeInit
    /\ rec = IdleRec
    /\ allow = [ip \in IPs |-> None]

-----------------------------------------------------------------------------

GoTo(pc) == rec' = [rec EXCEPT !.pc = pc]
Done == rec' = IdleRec

\* Go on to write phase (and, for Ready, the endpoint) to the Session status.
GoToStatus(phase) == rec' = [rec EXCEPT !.pc = "status", !.phase = phase]

Terminating(s) == s.del \/ s.desired

\* Mutant: a Session already marked Terminating is taken for handled.
BeginSkipsTerminating(k) ==
    /\ rec.pc \in {"idle", "backoff"}
    /\ cSession[k] # None
    /\ LET s == cSession[k]
       IN /\ s.phase # "Terminating"
          /\ rec' = [IdleRec EXCEPT !.key = k, !.s = s,
                       !.pc = IF Terminating(s) THEN "markTerm"
                              ELSE IF ~s.fin THEN "addFinalizer" ELSE "isolate"]
    /\ UNCHANGED <<kubeVars, allow>>

\* Reconcile begins: Get the Session and choose the branch.
Begin(k) ==
    /\ rec.pc \in {"idle", "backoff"}
    /\ cSession[k] # None
    /\ LET s == cSession[k]
       IN rec' = [IdleRec EXCEPT !.key = k, !.s = s,
                    !.pc = IF Terminating(s)
                           THEN IF s.phase # "Terminating" THEN "markTerm" ELSE "delPod"
                           ELSE IF ~s.fin THEN "addFinalizer" ELSE "isolate"]
    /\ UNCHANGED <<kubeVars, allow>>

\* Mutant: the copy is read again and NotFound is not looked at.
MarkTerminatingRereads(k) ==
    /\ rec.pc = "markTerm" /\ rec.key = k
    /\ UpdateSession(k, rec.s, [rec.s EXCEPT !.phase = "Terminating"])
    /\ rec' = [rec EXCEPT !.pc = "delPod", !.s = session'[k]]
    /\ UNCHANGED <<secret, pod, netpol, uid, cSession, cPod, allow>>

\* The Terminating status is best effort: a conflict is ignored.
MarkTerminating(k) ==
    /\ rec.pc = "markTerm" /\ rec.key = k
    /\ LET new == [rec.s EXCEPT !.phase = "Terminating"]
       IN /\ UpdateSession(k, rec.s, new)
          /\ rec' = [rec EXCEPT !.pc = "delPod", !.s = IF session[k] = rec.s THEN new ELSE rec.s]
    /\ UNCHANGED <<secret, pod, netpol, uid, cSession, cPod, allow>>

\* Mutant: the pod is left to the garbage collector.
CleanupPodSkipped(k) ==
    /\ rec.pc = "delPod" /\ rec.key = k
    /\ GoTo("delSecret")
    /\ UNCHANGED <<kubeVars, allow>>

CleanupPod(k) ==
    /\ rec.pc = "delPod" /\ rec.key = k
    /\ DeletePodObject(k)
    /\ GoTo("delSecret")
    /\ UNCHANGED <<session, secret, netpol, uid, cSession, cPod, allow>>

CleanupSecret(k) ==
    /\ rec.pc = "delSecret" /\ rec.key = k
    /\ secret' = [secret EXCEPT ![k] = None]
    /\ GoTo("onCleanup")
    /\ UNCHANGED <<session, pod, netpol, uid, cSession, cPod, allow>>

\* Mutant: only the entry of the address in the Session's status is dropped.
OnCleanupByEndpoint(k) ==
    /\ rec.pc = "onCleanup" /\ rec.key = k
    /\ allow' = [ip \in IPs |-> IF ip = rec.s.endpoint THEN None ELSE allow[ip]]
    /\ IF ~rec.s.del THEN GoTo("delSession")
       ELSE IF rec.s.fin THEN GoTo("rmFinalizer")
       ELSE Done
    /\ UNCHANGED kubeVars

\* Egress.OnCleanup drops every allowlist entry of the session's name.
OnCleanup(k) ==
    /\ rec.pc = "onCleanup" /\ rec.key = k
    /\ allow' = [ip \in IPs |-> IF allow[ip] = k THEN None ELSE allow[ip]]
    /\ IF ~rec.s.del THEN GoTo("delSession")
       ELSE IF rec.s.fin THEN GoTo("rmFinalizer")
       ELSE Done
    /\ UNCHANGED kubeVars

\* Reaper-initiated: delete the object itself, by name.
DeleteTerminated(k) ==
    /\ rec.pc = "delSession" /\ rec.key = k
    /\ DeleteSession(k)
    /\ Done
    /\ UNCHANGED <<secret, pod, netpol, uid, cSession, cPod, allow>>

RemoveFinalizer(k) ==
    /\ rec.pc = "rmFinalizer" /\ rec.key = k
    /\ UpdateSession(k, rec.s, [rec.s EXCEPT !.fin = FALSE])
    /\ Done
    /\ UNCHANGED <<secret, pod, netpol, uid, cSession, cPod, allow>>

AddFinalizer(k) ==
    /\ rec.pc = "addFinalizer" /\ rec.key = k
    /\ UpdateSession(k, rec.s, [rec.s EXCEPT !.fin = TRUE])
    /\ Done
    /\ UNCHANGED <<secret, pod, netpol, uid, cSession, cPod, allow>>

\* What the pod's state, read after the isolation is in place, calls for.
AfterIsolation(p) ==
    IF p = None
    THEN IF rec.s.phase \in {"Ready", "Idle"} THEN GoToStatus("Failed") ELSE GoTo("createPod")
    ELSE IF p.state \in {"Failed", "Backoff"} THEN GoToStatus("Failed")
    ELSE IF p.state = "Ready"
         THEN IF rec.s.phase # "Ready"
              THEN rec' = [rec EXCEPT !.pc = "onReady", !.ip = p.ip]
              ELSE Done
    ELSE IF rec.s.phase # "Starting" THEN GoToStatus("Starting") ELSE Done

\* Mutant: a policy that is already there is kept as it is.
ApplyIsolationOnce(k) ==
    /\ rec.pc = "isolate" /\ rec.key = k
    /\ \/ /\ GoToStatus("Failed")
          /\ netpol' = netpol
       \/ /\ netpol' = IF netpol[k] = 0 THEN [netpol EXCEPT ![k] = rec.s.uid] ELSE netpol
          /\ AfterIsolation(cPod[k])
    /\ UNCHANGED <<session, secret, pod, uid, cSession, cPod, allow>>

\* The server type is looked up; when the config syncer has pruned it, or a
\* rendered object cannot be applied, the session fails.  Otherwise the policy
\* is in place and the pod is looked up.
ApplyIsolation(k) ==
    /\ rec.pc = "isolate" /\ rec.key = k
    /\ \/ /\ GoToStatus("Failed")
          /\ netpol' = netpol
       \/ /\ netpol' = [netpol EXCEPT ![k] = rec.s.uid]
          /\ AfterIsolation(cPod[k])
    /\ UNCHANGED <<session, secret, pod, uid, cSession, cPod, allow>>

\* With PKI on the Secret must be there to hold the pod's certificate.  A
\* create that fails fails the session; AlreadyExists counts as created.
CreateSessionPod(k) ==
    /\ rec.pc = "createPod" /\ rec.key = k
    /\ \/ /\ PKI => secret[k] # None
          /\ CreatePod(k, rec.s.uid)
          /\ GoToStatus("Starting")
       \/ /\ pod' = pod
          /\ GoToStatus("Failed")
    /\ UNCHANGED <<session, secret, netpol, uid, cSession, cPod, allow>>

\* Egress.OnReady publishes the allowlist under the pod's address.
OnReady(k) ==
    /\ rec.pc = "onReady" /\ rec.key = k
    /\ allow' = [allow EXCEPT ![rec.ip] = k]
    /\ GoToStatus("Ready")
    /\ UNCHANGED kubeVars

StatusUpdate(k) ==
    /\ rec.pc = "status" /\ rec.key = k
    /\ UpdateSession(k, rec.s,
          [rec.s EXCEPT !.phase = rec.phase,
                        !.endpoint = IF rec.phase = "Ready" THEN rec.ip ELSE @])
    /\ Done
    /\ UNCHANGED <<secret, pod, netpol, uid, cSession, cPod, allow>>

\* A call returned an error, or the controller crashed: Reconcile starts over.
Abort ==
    /\ rec.pc \notin {"idle", "backoff"}
    /\ rec' = [IdleRec EXCEPT !.pc = "backoff"]
    /\ UNCHANGED <<kubeVars, allow>>

Reconcile(k) ==
    \/ Begin(k) \/ MarkTerminating(k) \/ CleanupPod(k) \/ CleanupSecret(k)
    \/ OnCleanup(k) \/ DeleteTerminated(k) \/ RemoveFinalizer(k) \/ AddFinalizer(k)
    \/ ApplyIsolation(k) \/ CreateSessionPod(k) \/ OnReady(k) \/ StatusUpdate(k)

Cluster(k) ==
    /\ \/ KubeletStart(k) \/ KubeletBackoff(k) \/ KubeletProbe(k) \/ KubeletExit(k)
       \/ PodGone(k) \/ PodLost(k) \/ CollectGarbage(k) \/ SyncSession(k) \/ SyncPod(k)
    /\ UNCHANGED recVars

-----------------------------------------------------------------------------
(***************************************************************************)
(* The environment: what the other processes may do to the objects.        *)
(***************************************************************************)

\* The gateway's kube provisioner: Ensure creates the Secret and the Session,
\* Release deletes the Session.
GatewayWrites(k) ==
    /\ \/ /\ \E t \in Tokens : CreateSecret(k, t)
          /\ UNCHANGED <<session, uid>>
       \/ CreateSession(k) /\ UNCHANGED secret
       \/ DeleteSession(k) /\ UNCHANGED <<secret, uid>>
    /\ UNCHANGED <<pod, netpol, cSession, cPod, recVars>>

\* Mutant: Idle is a patch that carries no version.
ReaperPatches(k) ==
    /\ session[k] # None
    /\ session' = [session EXCEPT ![k].phase = "Idle"]
    /\ UNCHANGED <<secret, pod, netpol, uid, cSession, cPod, recVars>>

\* The reaper asks for termination, or marks a protected session Idle.
ReaperWrites(k) ==
    /\ session[k] # None
    /\ ~Terminating(session[k])
    /\ \/ session' = [session EXCEPT ![k].desired = TRUE]
       \/ session[k].phase = "Ready" /\ session' = [session EXCEPT ![k].phase = "Idle"]
    /\ UNCHANGED <<secret, pod, netpol, uid, cSession, cPod, recVars>>

Environment(k) == GatewayWrites(k) \/ ReaperWrites(k)

Next ==
    \/ Abort
    \/ \E k \in Keys : Reconcile(k) \/ Cluster(k) \/ Environment(k)

Spec == Init /\ [][Next]_ctlVars

(***************************************************************************)
(* Fairness.  Reconcile is requeued on every change of its Session or pod  *)
(* and after every error, the work queue serves every key, and watches     *)
(* deliver.  Errors and crashes may cut Reconcile short any number of      *)
(* times before they stop.                                                 *)
(***************************************************************************)
Fairness ==
    /\ \A k \in Keys :
          /\ WF_ctlVars(Reconcile(k)) /\ SF_ctlVars(Begin(k))
          /\ WF_ctlVars(SyncSession(k) /\ UNCHANGED recVars)
          /\ WF_ctlVars(SyncPod(k) /\ UNCHANGED recVars)
    /\ <>[][~Abort]_ctlVars

FairSpec == Spec /\ Fairness

-----------------------------------------------------------------------------
(***************************************************************************)
(* Properties.                                                             *)
(***************************************************************************)

LivePod(k) == pod[k] # None /\ ~pod[k].del

\* A pod that nobody asked to delete belongs to the Session that is there, and
\* that Session holds the finalizer: no interleaving of Release, the reaper and
\* a Reconcile working on a stale copy leaves a pod whose cleanup nobody owns.
NoLeakedPod ==
    \A k \in Keys : LivePod(k) => Owned(k, pod[k].owner) /\ session[k].fin

\* Reconcile applies the network policy before it creates the pod, and as long
\* as the pod is wanted the policy of the same Session is there.
IsolationBeforePod ==
    \A k \in Keys : LivePod(k) => netpol[k] = pod[k].owner

\* The egress proxy's allowlist names only sessions whose finalizer is still
\* to run: OnCleanup has removed the entries of every session that is gone.
AllowlistFollowsSession ==
    \A ip \in IPs : allow[ip] # None =>
        session[allow[ip]] # None /\ session[allow[ip]].fin

\* A Session that reached Terminating stays there until it is gone: no status
\* write computed from an older copy brings it back to life.
TerminationIrrevocable ==
    [][\A k \in Keys :
          /\ session[k] # None
          /\ session[k].phase = "Terminating"
          /\ session'[k] # None
          /\ session'[k].uid = session[k].uid
          => session'[k].phase = "Terminating"]_ctlVars

\* Every Session asked to terminate, by deletion or by the reaper, goes away
\* once Reconcile is no longer cut short, whatever state it was cut short in.
\* (Nothing takes the request back: a Session that was asked to terminate
\* ceases to be one only by going.)
TerminationCompletes ==
    \A k \in Keys : []<>(session[k] = None \/ ~Terminating(session[k]))
=============================================================================
