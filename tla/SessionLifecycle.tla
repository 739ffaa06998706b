--------------------------- MODULE SessionLifecycle --------------------------
(***************************************************************************)
(* The session pods of the whole system: gateways running EnsurePod and    *)
(* Release against the shared routing table, the controller's reconciler   *)
(* and reaper, and the cluster.  They share the Session, Secret and Pod    *)
(* objects and the table, and nothing orders their steps.                  *)
(***************************************************************************)
EXTENDS SessionReconciler, Manager

CONSTANT Scenarios  \* bound: the sets of disturbances, one of which a behaviour is limited to

FaultKinds == {"abort", "abandon", "ensureError", "release", "gatewayCrash", "storeLoss",
               "reap", "kubelet", "podLost"}

ASSUME ScenariosAssumption == Scenarios \subseteq SUBSET FaultKinds

VARIABLES
    reap,           \* the reaper's step, the key it is at, its copy of the Session
    faults          \* the disturbances of this behaviour

sysVars == <<ctlVars, tableVars, mgrVars, reap, faults>>

IdleReap == [pc |-> "idle", key |-> None, s |-> None]

ReapTypeOK ==
    /\ reap \in [pc : {"idle", "terminate", "markIdle", "purge"}, key : Keys \cup {None},
                 s : SessionObject \cup {None}]
    /\ reap.pc # "idle" => reap.key \in Keys /\ reap.s \in SessionObject

SystemTypeOK == TypeOK /\ TableTypeOK /\ MgrTypeOK /\ ReapTypeOK /\ faults \in Scenarios

SystemInit == Init /\ TableInit /\ MgrInit /\ reap = IdleReap /\ faults \in Scenarios

-----------------------------------------------------------------------------
(***************************************************************************)
(* controller/reaper.go.  The sweep works on the informers' copies.  Why a *)
(* session is over (failed, idle, too old, type removed) is left open      *)
(* here; module Reaper decides it from the clock and the in-flight counts. *)
(***************************************************************************)

Sweep(k) ==
    /\ reap.pc = "idle"
    /\ cSession[k] # None
    /\ ~Terminating(cSession[k])
    /\ \/ reap' = [pc |-> "terminate", key |-> k, s |-> cSession[k]]
       \/ /\ cSession[k].phase = "Ready"
          /\ reap' = [pc |-> "markIdle", key |-> k, s |-> cSession[k]]
    /\ UNCHANGED <<ctlVars, tableVars, mgrVars>>

\* terminate: ask for Terminating; a conflict leaves the rest to the next sweep.
ReapTerminate ==
    /\ reap.pc = "terminate"
    /\ UpdateSession(reap.key, reap.s, [reap.s EXCEPT !.desired = TRUE])
    /\ reap' = IF session[reap.key] = reap.s THEN [reap EXCEPT !.pc = "purge"] ELSE IdleReap
    /\ UNCHANGED <<secret, pod, netpol, uid, cSession, cPod, recVars, tableVars, mgrVars>>

\* terminate goes on to purge the routing entries; the controller process has
\* no memory copies of its own to clear.
ReapPurge ==
    /\ reap.pc = "purge"
    /\ row' = [row EXCEPT ![reap.key] = None]
    /\ tok' = [tok EXCEPT ![reap.key] = None]
    /\ reap' = IdleReap
    /\ UNCHANGED <<ctlVars, mem, mgrVars>>

ReapMarkIdle ==
    /\ reap.pc = "markIdle"
    /\ UpdateSession(reap.key, reap.s, [reap.s EXCEPT !.phase = "Idle"])
    /\ reap' = IdleReap
    /\ UNCHANGED <<secret, pod, netpol, uid, cSession, cPod, recVars, tableVars, mgrVars>>

ReapAbort ==
    /\ reap.pc # "idle"
    /\ reap' = IdleReap
    /\ UNCHANGED <<ctlVars, tableVars, mgrVars>>

-----------------------------------------------------------------------------

Controller ==
    /\ \/ \E k \in Keys : Reconcile(k)
       \/ "abort" \in faults /\ Abort
    /\ UNCHANGED <<tableVars, mgrVars, reap>>

ReaperStep ==
    /\ "reap" \in faults
    /\ \/ \E k \in Keys : Sweep(k)
       \/ ReapTerminate \/ ReapPurge \/ ReapMarkIdle
       \/ "abort" \in faults /\ ReapAbort

ClusterStep ==
    /\ \E k \in Keys :
          \/ KubeletStart(k) \/ PodGone(k) \/ CollectGarbage(k) \/ SyncSession(k) \/ SyncPod(k)
          \/ "kubelet" \in faults /\ (KubeletBackoff(k) \/ KubeletProbe(k) \/ KubeletExit(k))
          \/ "podLost" \in faults /\ PodLost(k)
    /\ UNCHANGED <<recVars, tableVars, mgrVars, reap>>

Gateways ==
    /\ \/ \E q \in Requests :
             \/ EnsurePod(q)
             \/ Release(q)
             \/ "release" \in faults /\ \E r \in Replicas, k \in Keys : StartRelease(q, r, k)
             \/ "ensureError" \in faults /\ EnsureError(q)
             \/ "abandon" \in faults /\ Abandon(q)
       \/ "gatewayCrash" \in faults /\ \E r \in Replicas : GatewayCrash(r)
       \/ "storeLoss" \in faults /\ StoreLoss
    /\ UNCHANGED <<recVars, reap>>

SystemNext ==
    /\ Controller \/ ReaperStep \/ ClusterStep \/ Gateways
    /\ UNCHANGED faults

SystemSpec == SystemInit /\ [][SystemNext]_sysVars

-----------------------------------------------------------------------------

\* A request, however stale the route it holds and whoever has its address now,
\* is answered only by the pod of its own user and server type: another pod's
\* wrapper never accepts the token it presents.
ServedByOwnPod ==
    \A q \in Requests, j \in Keys : At(q, "forward") /\ Serves(q, j) => j = req[q].key

(***************************************************************************)
(* Claims of documents and comments that the code does not keep.           *)
(***************************************************************************)

\* "PodToken is the shared secret the gateway presents to the wrapper": the
\* request that reaches its own running pod presents the token of that pod.
RouteTokenIsPodToken ==
    \A q \in Requests :
        At(q, "forward") =>
            LET p == pod[req[q].key]
            IN p # None /\ p.ip = req[q].endpoint /\ p.state = "Ready" /\ ~p.del
                   => Accepts(p, req[q].token)
=============================================================================
