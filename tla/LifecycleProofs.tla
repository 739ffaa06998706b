-------------------------- MODULE LifecycleProofs ---------------------------
(***************************************************************************)
(* The session pods, for every set of keys, tokens and addresses: first    *)
(* the reconciler with any gateways and reaper its module allows, then the *)
(* whole system with theirs, for any number of gateways and requests and   *)
(* any disturbances.                                                       *)
(***************************************************************************)
EXTENDS SessionLifecycle, TLAPS

-----------------------------------------------------------------------------
(***************************************************************************)
(* The reconciler.  The invariant relates each copy of a Session, in the   *)
(* informer or in the hands of Reconcile, to the object itself: a copy     *)
(* that has the finalizer and no deletion timestamp can only be of the     *)
(* Session that is there now, because the finalizer is removed only by     *)
(* Reconcile, which by then has seen the timestamp, and the informer never *)
(* goes back.                                                              *)
(***************************************************************************)

Active == rec.pc \notin {"idle", "backoff"}

\* What is known of a copy x of the Session of key k.
CopyOK(k, x) ==
    x # None =>
        /\ x.uid <= uid
        /\ x.fin /\ ~x.del => session[k] # None /\ session[k].uid = x.uid /\ session[k].fin
        /\ x.del => session[k] = None \/ session[k].uid # x.uid \/ session[k].del

SessionInv ==
    \A k \in Keys : session[k] # None =>
        /\ session[k].uid <= uid
        /\ session[k].del => session[k].fin
        /\ session[k].phase = "Terminating" => Terminating(session[k])

CacheInv == \A k \in Keys : CopyOK(k, cSession[k])

\* The informer is never behind the copy Reconcile took from it.
RecCopyInv ==
    Active => /\ CopyOK(rec.key, rec.s)
              /\ rec.s.del => LET c == cSession[rec.key]
                              IN c = None \/ c.uid # rec.s.uid \/ c.del

RecStepInv ==
    /\ rec.pc \in {"markTerm", "delPod", "delSecret", "onCleanup", "delSession", "rmFinalizer"}
          => Terminating(rec.s)
    /\ rec.pc \in {"addFinalizer", "isolate", "createPod", "onReady", "status"}
          => ~Terminating(rec.s)
    /\ rec.pc \in {"isolate", "createPod", "onReady", "status"} => rec.s.fin
    /\ rec.pc = "rmFinalizer" => rec.s.del /\ \A ip \in IPs : allow[ip] # rec.key
    /\ rec.pc \in {"delSecret", "onCleanup", "delSession", "rmFinalizer"} => ~LivePod(rec.key)
    /\ rec.pc = "createPod" => netpol[rec.key] = rec.s.uid
    /\ rec.pc = "onReady" => rec.ip \in IPs
    /\ rec.pc = "status" => rec.phase # "Terminating"

\* A pod that runs has an address.
PodInv ==
    \A k \in Keys :
        /\ pod[k] # None /\ pod[k].state \in {"Running", "Ready"} => pod[k].ip \in IPs
        /\ cPod[k] # None /\ cPod[k].state \in {"Running", "Ready"} => cPod[k].ip \in IPs

TypeInv == TypeOK /\ PodInv /\ (rec.pc = "onReady" => rec.ip \in IPs)

ObjectInv == NoLeakedPod /\ IsolationBeforePod /\ AllowlistFollowsSession

IInv == TypeInv /\ SessionInv /\ CacheInv /\ RecCopyInv /\ RecStepInv /\ PodInv /\ ObjectInv

-----------------------------------------------------------------------------
(***************************************************************************)
(* Types.                                                                  *)
(***************************************************************************)

USE NoneAssumption, MaxUidAssumption, ObjectsAssumption, PKIAssumption

\* The initial state is well typed.
LEMMA InitTypes == Init => TypeInv
  BY DEF Init, KubeInit, IdleRec, TypeInv, TypeOK, KubeTypeOK, RecTypeOK, PodInv, RecSteps, Phases

\* An update writes a Session, or removes the one it finds.
LEMMA UpdateType ==
    ASSUME KubeTypeOK, NEW k \in Keys, NEW old, NEW new \in SessionObject,
           UpdateSession(k, old, new)
    PROVE  session' \in [Keys -> SessionObject \cup {None}]
  BY Zenon DEF KubeTypeOK, UpdateSession, Settle

\* Changing a field of a Session, to a value of its type, leaves a Session.
LEMMA SessionFields ==
    ASSUME NEW s \in SessionObject, NEW p \in Phases, NEW e \in IPs \cup {None}
    PROVE  /\ [s EXCEPT !.phase = p] \in SessionObject
           /\ [s EXCEPT !.phase = p, !.endpoint = e] \in SessionObject
           /\ [s EXCEPT !.fin = TRUE] \in SessionObject
           /\ [s EXCEPT !.fin = FALSE] \in SessionObject
           /\ [s EXCEPT !.del = TRUE] \in SessionObject
           /\ [s EXCEPT !.desired = TRUE] \in SessionObject
  BY Zenon DEF SessionObject

\* A Session as the gateway creates it: not asked to terminate, no finalizer.
LEMMA NewSessionFields ==
    ASSUME NEW u \in 1 .. MaxUid
    PROVE  /\ NewSession(u) # None /\ NewSession(u).uid = u
           /\ ~NewSession(u).del /\ NewSession(u).phase # "Terminating"
<1>1. NewSession(u) \in SessionObject
  BY Zenon DEF NewSession, SessionObject, Phases
<1> QED
  BY Zenon, <1>1 DEF NewSession

\* Uids are numbers.
LEMMA UidType == \A x \in SessionObject : x.uid \in Nat
  BY DEF SessionObject

\* The finalizer and the deletion timestamp are fields of their own.
LEMMA FinalizerFields ==
    ASSUME NEW s \in SessionObject
    PROVE  /\ LET n == [s EXCEPT !.fin = TRUE]
              IN /\ n \in SessionObject /\ n.uid = s.uid /\ n.del = s.del /\ n.fin
                 /\ n.phase = s.phase /\ n.desired = s.desired
           /\ LET n == [s EXCEPT !.del = TRUE]
              IN /\ n \in SessionObject /\ n.uid = s.uid /\ n.fin = s.fin /\ n.del
                 /\ n.phase = s.phase /\ n.desired = s.desired
           /\ LET n == [s EXCEPT !.fin = FALSE]
              IN n \in SessionObject /\ n.uid = s.uid /\ n.del = s.del /\ ~n.fin
  BY Zenon DEF SessionObject

\* What the kubelet writes to a pod leaves its owner and its deletion alone.
LEMMA PodFields ==
    ASSUME NEW p \in PodObject, NEW st, NEW ip, NEW t
    PROVE  /\ LET n == [p EXCEPT !.state = st]
              IN n.del = p.del /\ n.owner = p.owner
           /\ LET n == [[[p EXCEPT !.state = st] EXCEPT !.ip = ip] EXCEPT !.token = t]
              IN n.del = p.del /\ n.owner = p.owner
  BY Zenon DEF PodObject

\* Deleting a Session removes it or sets its deletion timestamp.
LEMMA DeleteType ==
    ASSUME KubeTypeOK, NEW k \in Keys, DeleteSession(k)
    PROVE  session' \in [Keys -> SessionObject \cup {None}]
<1>1. CASE session[k] = None
  BY Zenon, <1>1 DEF KubeTypeOK, DeleteSession
<1>2. CASE session[k] # None
  <2>1. session[k] \in SessionObject
    BY Zenon, <1>2 DEF KubeTypeOK
  <2>2. [session[k] EXCEPT !.del = TRUE] \in SessionObject
    BY Zenon, <2>1 DEF SessionObject
  <2> QED
    BY Zenon, <1>2, <2>2 DEF KubeTypeOK, DeleteSession
<1> QED
  BY Zenon, <1>1, <1>2

\* What a write may make of a pod: its address stays, or it gets one.
PodsOK == /\ pod \in [Keys -> PodObject \cup {None}]
          /\ \A k \in Keys : pod[k] # None /\ pod[k].state \in {"Running", "Ready"}
                                => pod[k].ip \in IPs

\* Asking for the deletion of a pod keeps the pods well typed.
LEMMA DeletePodType ==
    ASSUME PodsOK, NEW k \in Keys, DeletePodObject(k)
    PROVE  PodsOK'
<1>1. CASE pod[k] = None
  BY Zenon, <1>1 DEF PodsOK, DeletePodObject
<1>2. CASE pod[k] # None
  <2>1. /\ [pod[k] EXCEPT !.del = TRUE] \in PodObject
        /\ [pod[k] EXCEPT !.del = TRUE].state = pod[k].state
        /\ [pod[k] EXCEPT !.del = TRUE].ip = pod[k].ip
    BY Zenon, <1>2 DEF PodsOK, PodObject
  <2> QED
    BY Zenon, <1>2, <2>1 DEF PodsOK, DeletePodObject
<1> QED
  BY Zenon, <1>1, <1>2

\* Every step of Reconcile, an aborted one included, preserves the types.
LEMMA ReconcileTypes ==
    ASSUME TypeInv, NEW k \in Keys, Reconcile(k)
    PROVE  TypeInv'
<1> USE DEF TypeInv, TypeOK, KubeTypeOK, RecTypeOK, PodInv, kubeVars
<1>1. CASE Begin(k)
  <2> DEFINE pc == IF Terminating(cSession[k])
                   THEN IF cSession[k].phase # "Terminating" THEN "markTerm" ELSE "delPod"
                   ELSE IF ~cSession[k].fin THEN "addFinalizer" ELSE "isolate"
  <2>1. rec' = [pc |-> pc, key |-> k, s |-> cSession[k], phase |-> "Pending", ip |-> None]
    BY Zenon, <1>1 DEF Begin, IdleRec
  <2>2. pc \in RecSteps /\ pc # "onReady"
    BY Zenon DEF RecSteps
  <2>3. cSession[k] \in SessionObject
    BY Zenon, <1>1 DEF Begin
  <2> HIDE DEF pc
  <2> QED
    BY <1>1, <2>1, <2>2, <2>3 DEF Begin, Phases
<1>2. CASE MarkTerminating(k)
  <2> DEFINE new == [rec.s EXCEPT !.phase = "Terminating"]
  <2>1. rec.s \in SessionObject /\ new \in SessionObject
    BY Zenon, <1>2, SessionFields DEF MarkTerminating, Phases
  <2>2. session' \in [Keys -> SessionObject \cup {None}]
    BY Zenon, <1>2, <2>1, UpdateType DEF MarkTerminating
  <2>3. rec' \in [pc : RecSteps, key : Keys \cup {None}, s : SessionObject \cup {None},
                  phase : Phases, ip : IPs \cup {None}]
        /\ rec'.pc = "delPod" /\ rec'.key \in Keys /\ rec'.s \in SessionObject
    BY Zenon, <1>2, <2>1 DEF MarkTerminating, RecSteps
  <2> QED
    BY Zenon, <1>2, <2>2, <2>3 DEF MarkTerminating
<1>3. CASE CleanupPod(k)
  BY Zenon, <1>3, DeletePodType DEF CleanupPod, GoTo, RecSteps, PodsOK
<1>4. CASE CleanupSecret(k)
  BY Zenon, <1>4 DEF CleanupSecret, GoTo, RecSteps
<1>5. CASE OnCleanup(k)
  BY <1>5 DEF OnCleanup, GoTo, Done, IdleRec, RecSteps, Phases
<1>6. CASE DeleteTerminated(k)
  BY Zenon, <1>6, DeleteType DEF DeleteTerminated, Done, IdleRec, RecSteps, Phases
<1>7. CASE RemoveFinalizer(k)
  BY Zenon, <1>7 DEF RemoveFinalizer, UpdateSession, Settle, Done, IdleRec, RecSteps, Phases, SessionObject
<1>8. CASE AddFinalizer(k)
  BY Zenon, <1>8 DEF AddFinalizer, UpdateSession, Settle, Done, IdleRec, RecSteps, Phases, SessionObject
<1>9. CASE ApplyIsolation(k)
  <2>1. netpol' \in [Keys -> 0 .. MaxUid]
    BY <1>9 DEF ApplyIsolation, SessionObject
  <2>2. \/ \E pc \in {"status", "createPod"}, phase \in Phases :
               rec' = [rec EXCEPT !.pc = pc, !.phase = phase]
        \/ rec' = [rec EXCEPT !.pc = "onReady", !.ip = cPod[k].ip] /\ cPod[k].ip \in IPs
        \/ rec' = IdleRec
    <3> HIDE DEF KubeTypeOK
    <3>1. rec.phase \in Phases /\ \A pc : [rec EXCEPT !.pc = pc] = [rec EXCEPT !.pc = pc, !.phase = rec.phase]
      BY Zenon
    <3>2. CASE GoToStatus("Failed")
      BY Zenon, <3>2 DEF GoToStatus, Phases
    <3>3. CASE AfterIsolation(cPod[k])
      BY Zenon, <3>1, <3>3 DEF AfterIsolation, GoToStatus, GoTo, Done, Phases
    <3> QED
      BY Zenon, <1>9, <3>2, <3>3 DEF ApplyIsolation
  <2>3. RecTypeOK' /\ (rec'.pc = "onReady" => rec'.ip \in IPs)
    <3> HIDE DEF KubeTypeOK
    <3>1. allow' = allow /\ rec.key \in Keys /\ rec.s \in SessionObject
      BY Zenon, <1>9 DEF ApplyIsolation
    <3>2. CASE \E pc \in {"status", "createPod"}, phase \in Phases :
                   rec' = [rec EXCEPT !.pc = pc, !.phase = phase]
      BY Zenon, <3>1, <3>2 DEF RecSteps
    <3>3. CASE rec' = [rec EXCEPT !.pc = "onReady", !.ip = cPod[k].ip] /\ cPod[k].ip \in IPs
      BY Zenon, <3>1, <3>3 DEF RecSteps
    <3>4. CASE rec' = IdleRec
      BY Zenon, <3>1, <3>4 DEF IdleRec, RecSteps, Phases
    <3> QED
      BY Zenon, <2>2, <3>2, <3>3, <3>4
  <2> QED
    BY Zenon, <1>9, <2>1, <2>3 DEF ApplyIsolation
<1>10. CASE CreateSessionPod(k)
  <2>1. NewPod(rec.s.uid) \in PodObject /\ NewPod(rec.s.uid).state = "Pending"
    BY Zenon, <1>10 DEF CreateSessionPod, NewPod, PodObject, PodStates, SessionObject
  <2>2. PodsOK'
    BY <1>10, <2>1 DEF CreateSessionPod, CreatePod, PodsOK
  <2>3. RecTypeOK' /\ rec'.pc = "status"
    <3> HIDE DEF KubeTypeOK
    <3>1. allow' = allow /\ rec.key \in Keys /\ rec.s \in SessionObject
      BY Zenon, <1>10 DEF CreateSessionPod
    <3>2. \E phase \in Phases : rec' = [rec EXCEPT !.pc = "status", !.phase = phase]
      BY Zenon, <1>10 DEF CreateSessionPod, GoToStatus, Phases
    <3> QED
      BY Zenon, <3>1, <3>2 DEF RecSteps
  <2> QED
    BY Zenon, <1>10, <2>2, <2>3 DEF CreateSessionPod, PodsOK
<1>11. CASE OnReady(k)
  BY Zenon, <1>11 DEF OnReady, GoToStatus, RecSteps, Phases
<1>12. CASE StatusUpdate(k)
  BY Zenon, <1>12 DEF StatusUpdate, UpdateSession, Settle, Done, IdleRec, RecSteps, Phases, SessionObject
<1> QED
  BY Zenon, <1>1, <1>2, <1>3, <1>4, <1>5, <1>6, <1>7, <1>8, <1>9, <1>10, <1>11, <1>12 DEF Reconcile

\* Every step of the kubelet, the garbage collector and the informers does.
LEMMA ClusterTypes ==
    ASSUME TypeInv, NEW k \in Keys, Cluster(k)
    PROVE  TypeInv'
<1> USE DEF TypeInv, TypeOK, KubeTypeOK, PodInv
<1>1. PodsOK
  BY Zenon DEF PodsOK
<1>2. UNCHANGED <<rec, allow>>
  BY Zenon DEF Cluster, recVars
<1>3. RecTypeOK'
  BY Zenon, <1>2 DEF RecTypeOK
<1>4. CASE KubeletStart(k)
  <2>1. PICK ip \in IPs : pod' = [pod EXCEPT ![k].state = "Ready", ![k].ip = ip, ![k].token = secret[k]]
    BY Zenon, <1>4 DEF KubeletStart, FreeIPs
  <2>2. pod[k] \in PodObject /\ secret[k] \in Tokens
    BY Zenon, <1>4 DEF KubeletStart
  <2> DEFINE new == [pod[k] EXCEPT !.state = "Ready", !.ip = ip, !.token = secret[k]]
  <2>3. pod' = [pod EXCEPT ![k] = new]
    BY Zenon, <2>1
  <2>4. new \in PodObject /\ new.ip \in IPs
    BY Zenon, <2>2 DEF PodObject, PodStates
  <2> HIDE DEF new
  <2>5. PodsOK'
    BY Zenon, <1>1, <2>3, <2>4 DEF PodsOK
  <2> QED
    BY Zenon, <1>2, <1>3, <1>4, <2>5 DEF KubeletStart, PodsOK
<1>5. ASSUME NEW st \in PodStates, pod[k] # None,
             pod' = [pod EXCEPT ![k].state = st],
             st \in {"Running", "Ready"} => pod[k].state \in {"Running", "Ready"}
      PROVE  PodsOK'
  <2> DEFINE new == [pod[k] EXCEPT !.state = st]
  <2>1. pod' = [pod EXCEPT ![k] = new] /\ pod[k] \in PodObject
    BY Zenon, <1>5
  <2>2. new \in PodObject /\ new.ip = pod[k].ip /\ new.state = st
    BY Zenon, <2>1 DEF PodObject
  <2> HIDE DEF new
  <2> QED
    BY <1>1, <1>5, <2>1, <2>2 DEF PodsOK
<1>6. CASE KubeletBackoff(k)
  <2>1. PodsOK'
    BY Zenon, <1>5, <1>6 DEF KubeletBackoff, PodStates
  <2> QED
    BY Zenon, <1>2, <1>3, <1>6, <2>1 DEF KubeletBackoff, PodsOK
<1>7. CASE KubeletProbe(k)
  <2>1. PodsOK'
    BY Zenon, <1>5, <1>7 DEF KubeletProbe, PodStates
  <2> QED
    BY Zenon, <1>2, <1>3, <1>7, <2>1 DEF KubeletProbe, PodsOK
<1>8. CASE KubeletExit(k)
  <2>1. PodsOK'
    BY Zenon, <1>5, <1>8 DEF KubeletExit, PodStates
  <2> QED
    BY Zenon, <1>2, <1>3, <1>8, <2>1 DEF KubeletExit, PodsOK
<1>9. CASE PodGone(k)
  BY Zenon, <1>2, <1>3, <1>9 DEF PodGone
<1>10. CASE PodLost(k)
  BY Zenon, <1>2, <1>3, <1>10 DEF PodLost
<1>11. CASE CollectGarbage(k)
  <2>1. PodsOK'
    BY Zenon, <1>1, <1>11, DeletePodType DEF CollectGarbage, PodsOK
  <2>2. netpol' \in [Keys -> 0 .. MaxUid]
    BY <1>11 DEF CollectGarbage
  <2> QED
    BY Zenon, <1>2, <1>3, <1>11, <2>1, <2>2 DEF CollectGarbage, PodsOK
<1>12. CASE SyncSession(k)
  BY Zenon, <1>2, <1>3, <1>12 DEF SyncSession
<1>13. CASE SyncPod(k)
  BY Zenon, <1>2, <1>3, <1>13 DEF SyncPod
<1> QED
  BY Zenon, <1>4, <1>6, <1>7, <1>8, <1>9, <1>10, <1>11, <1>12, <1>13 DEF Cluster

\* So does everything gateways and the reaper write.
LEMMA EnvironmentTypes ==
    ASSUME TypeInv, NEW k \in Keys, Environment(k)
    PROVE  TypeInv'
<1> USE DEF TypeInv, TypeOK, KubeTypeOK, PodInv
<1>1. UNCHANGED <<rec, allow, pod, netpol, cSession, cPod>>
  BY Zenon DEF Environment, GatewayWrites, ReaperWrites, recVars
<1>2. RecTypeOK'
  BY Zenon, <1>1 DEF RecTypeOK
<1>3. CASE GatewayWrites(k)
  <2>1. secret' \in [Keys -> Tokens \cup {None}]
    BY Zenon, <1>3 DEF GatewayWrites, CreateSecret
  <2>2. session' \in [Keys -> SessionObject \cup {None}] /\ uid' \in 0 .. MaxUid
    <3>1. CASE CreateSession(k)
      <4>1. uid < MaxUid => NewSession(uid + 1) \in SessionObject
        BY DEF NewSession, SessionObject, Phases
      <4> QED
        BY <3>1, <4>1 DEF CreateSession
    <3>2. CASE DeleteSession(k) /\ UNCHANGED uid
      BY Zenon, <3>2, DeleteType
    <3> QED
      BY Zenon, <1>3, <3>1, <3>2 DEF GatewayWrites
  <2> QED
    BY Zenon, <1>1, <1>2, <2>1, <2>2
<1>4. CASE ReaperWrites(k)
  <2>1. session[k] \in SessionObject
    BY Zenon, <1>4 DEF ReaperWrites
  <2>2. session' \in [Keys -> SessionObject \cup {None}]
    BY ZenonT(40), <1>4, <2>1, SessionFields DEF ReaperWrites, Phases
  <2> QED
    BY Zenon, <1>1, <1>2, <1>4, <2>2 DEF ReaperWrites
<1> QED
  BY Zenon, <1>3, <1>4 DEF Environment

\* The types are inductive.
LEMMA NextTypes == TypeInv /\ [Next]_ctlVars => TypeInv'
<1> SUFFICES ASSUME TypeInv, [Next]_ctlVars PROVE TypeInv'
  BY Zenon
<1>1. CASE Abort
  BY Zenon, <1>1 DEF Abort, kubeVars, IdleRec, TypeInv, TypeOK, KubeTypeOK, RecTypeOK, PodInv, RecSteps, Phases
<1>2. CASE \E k \in Keys : Reconcile(k) \/ Cluster(k) \/ Environment(k)
  BY Zenon, <1>2, ReconcileTypes, ClusterTypes, EnvironmentTypes
<1>3. CASE UNCHANGED ctlVars
  BY Zenon, <1>3 DEF ctlVars, kubeVars, recVars, TypeInv, TypeOK, KubeTypeOK, RecTypeOK, PodInv
<1> QED
  BY Zenon, <1>1, <1>2, <1>3 DEF Next

\* Every object, every informer copy and the state of Reconcile keep their
\* types, whatever the controller, the cluster and the gateways do.
THEOREM TypeCorrect == Spec => []TypeOK
<1>1. TypeInv => TypeOK
  BY Zenon DEF TypeInv
<1> QED
  BY <1>1, InitTypes, NextTypes, PTL DEF Spec

-----------------------------------------------------------------------------
(***************************************************************************)
(* The copies and the objects.                                             *)
(***************************************************************************)

\* A write that keeps each Session, its finalizer and its deletion timestamp.
Kept ==
    \A k \in Keys :
        IF session[k] = None THEN session'[k] = None
        ELSE /\ session'[k] # None
             /\ session'[k].uid = session[k].uid
             /\ session[k].fin => session'[k].fin
             /\ session[k].del => session'[k].del

\* Such a write invalidates no copy, and no object that is tied to a Session.
LEMMA KeptInv ==
    ASSUME CacheInv, ObjectInv, KubeTypeOK, Kept,
           UNCHANGED <<uid, pod, netpol, cSession, allow>>, RecTypeOK
    PROVE  CacheInv' /\ ObjectInv'
<1>1. CacheInv'
  BY Zenon DEF CacheInv, CopyOK, Kept, KubeTypeOK, SessionObject
<1>2. ObjectInv'
  BY DEF ObjectInv, NoLeakedPod, IsolationBeforePod, AllowlistFollowsSession, LivePod, Owned,
         Kept, RecTypeOK
<1> QED
  BY Zenon, <1>1, <1>2

\* An update of a Session that is there, to one with the same marks.
LEMMA UpdateKept ==
    ASSUME KubeTypeOK, SessionInv, NEW k \in Keys, NEW old \in SessionObject,
           NEW new \in SessionObject, UpdateSession(k, old, new),
           new.uid = old.uid, new.del = old.del, old.fin => new.fin
    PROVE  Kept
<1>1. CASE session[k] # old
  BY Zenon, <1>1 DEF UpdateSession, Kept
<1>2. CASE session[k] = old
  <2>1. old # None /\ new # None
    BY Zenon
  <2>2. Settle(new) = new
    BY Zenon, <1>2, <2>1 DEF SessionInv, Settle, SessionObject
  <2> QED
    BY Zenon, <1>2, <2>1, <2>2 DEF UpdateSession, Kept, KubeTypeOK
<1> QED
  BY Zenon, <1>1, <1>2

\* The update of a Session to one that is Terminating only if asked to.
LEMMA UpdateSessionInv ==
    ASSUME KubeTypeOK, SessionInv, NEW k \in Keys, NEW old \in SessionObject,
           NEW new \in SessionObject, UpdateSession(k, old, new), UNCHANGED uid,
           new.uid = old.uid, new.del = old.del, old.fin => new.fin,
           new.phase = "Terminating" => Terminating(new)
    PROVE  SessionInv'
<1>1. CASE session[k] # old
  BY Zenon, <1>1 DEF UpdateSession, SessionInv, Terminating
<1>2. CASE session[k] = old
  <2>1. old # None /\ old.uid <= uid /\ (old.del => old.fin)
    BY Zenon, <1>2 DEF SessionInv
  <2>2. new.del => new.fin
    BY Zenon, <2>1
  <2>3. session' = [session EXCEPT ![k] = new] /\ session \in [Keys -> SessionObject \cup {None}]
    BY Zenon, <1>2, <2>2 DEF UpdateSession, Settle, KubeTypeOK
  <2>4. session'[k] = new /\ \A j \in Keys : j # k => session'[j] = session[j]
    BY Zenon, <2>3
  <2> SUFFICES ASSUME NEW j \in Keys, session'[j] # None
               PROVE  /\ session'[j].uid <= uid' /\ (session'[j].del => session'[j].fin)
                      /\ session'[j].phase = "Terminating" => Terminating(session'[j])
    BY Zenon DEF SessionInv, Terminating
  <2>5. CASE j = k
    BY Zenon, <2>1, <2>2, <2>4, <2>5
  <2>6. CASE j # k
    BY Zenon, <2>4, <2>6 DEF SessionInv
  <2> QED
    BY Zenon, <2>5, <2>6
<1> QED
  BY Zenon, <1>1, <1>2

\* The deletion of a pod leaves the other pods alone.
LEMMA DeletePodLive ==
    ASSUME KubeTypeOK, NEW k \in Keys, DeletePodObject(k)
    PROVE  \A j \in Keys : LivePod(j)' => j # k /\ LivePod(j) /\ pod'[j] = pod[j]
<1>1. pod \in [Keys -> PodObject \cup {None}]
  BY Zenon DEF KubeTypeOK
<1>2. CASE pod[k] = None
  BY Zenon, <1>2 DEF DeletePodObject, LivePod
<1>3. CASE pod[k] # None
  <2>1. pod' = [pod EXCEPT ![k] = [pod[k] EXCEPT !.del = TRUE]] /\ pod[k] \in PodObject
    BY Zenon, <1>1, <1>3 DEF DeletePodObject
  <2>2. pod'[k].del /\ \A j \in Keys : j # k => pod'[j] = pod[j]
    BY Zenon, <1>1, <2>1 DEF PodObject
  <2> QED
    BY Zenon, <2>2 DEF LivePod
<1> QED
  BY Zenon, <1>2, <1>3

\* A deletion by name marks a Session that has the finalizer, and removes one
\* that has not: no live pod and no allowlist entry depends on that one.
LEMMA DeleteInv ==
    ASSUME CacheInv, ObjectInv, SessionInv, KubeTypeOK, RecTypeOK, NEW k \in Keys,
           DeleteSession(k), UNCHANGED <<uid, pod, netpol, cSession, allow>>
    PROVE  SessionInv' /\ CacheInv' /\ ObjectInv'
<1>1. CASE session[k] # None /\ session[k].fin
  <2>1. session[k] \in SessionObject
    BY Zenon, <1>1 DEF KubeTypeOK
  <2> DEFINE new == [session[k] EXCEPT !.del = TRUE]
  <2>2. /\ session' = [session EXCEPT ![k] = new]
        /\ new \in SessionObject /\ new.uid = session[k].uid /\ new.fin = session[k].fin
        /\ new.del = TRUE
    BY Zenon, <1>1, <2>1 DEF DeleteSession, SessionObject
  <2> HIDE DEF new
  <2>3. Kept
    BY Zenon, <1>1, <2>2 DEF Kept, KubeTypeOK
  <2>4. SessionInv'
    BY Zenon, <1>1, <2>2 DEF SessionInv, KubeTypeOK, Terminating
  <2> QED
    BY Zenon, <2>3, <2>4, KeptInv
<1>2. CASE session[k] # None /\ ~session[k].fin
  <2>1. session' = [session EXCEPT ![k] = None]
    BY Zenon, <1>2 DEF DeleteSession
  <2>2. SessionInv'
    BY Zenon, <2>1 DEF SessionInv, KubeTypeOK, Terminating
  <2>3. CacheInv'
    BY Zenon, <1>2, <2>1 DEF CacheInv, CopyOK, KubeTypeOK
  <2>4. ObjectInv'
    BY <1>2, <2>1 DEF ObjectInv, NoLeakedPod, IsolationBeforePod, AllowlistFollowsSession,
                      LivePod, Owned, KubeTypeOK, RecTypeOK
  <2> QED
    BY Zenon, <2>2, <2>3, <2>4
<1>3. CASE session[k] = None
  <2>1. Kept /\ session' = session
    BY Zenon, <1>3 DEF DeleteSession, Kept
  <2> QED
    BY Zenon, <2>1, KeptInv DEF SessionInv
<1> QED
  BY Zenon, <1>1, <1>2, <1>3

\* A step that writes the Session of rec.key with its marks kept, and ends.
LEMMA UpdateInv ==
    ASSUME IInv, Active, rec' = IdleRec,
           NEW new \in SessionObject, UpdateSession(rec.key, rec.s, new),
           new.uid = rec.s.uid, new.del = rec.s.del, rec.s.fin => new.fin,
           new.phase = "Terminating" => Terminating(new),
           UNCHANGED <<uid, pod, netpol, cSession, allow>>
    PROVE  SessionInv' /\ CacheInv' /\ RecCopyInv' /\ RecStepInv' /\ ObjectInv'
<1>1. rec.key \in Keys /\ rec.s \in SessionObject /\ KubeTypeOK /\ RecTypeOK
  BY Zenon DEF IInv, TypeInv, TypeOK, RecTypeOK, Active
<1>2. Kept
  BY Zenon, <1>1, UpdateKept DEF IInv
<1>3. CacheInv' /\ ObjectInv'
  BY Zenon, <1>1, <1>2, KeptInv DEF IInv
<1>4. SessionInv'
  BY Zenon, <1>1, UpdateSessionInv DEF IInv
<1>5. RecCopyInv' /\ RecStepInv'
  BY Zenon DEF IdleRec, Active, RecCopyInv, RecStepInv
<1> QED
  BY Zenon, <1>3, <1>4, <1>5

\* A step that leaves the objects alone keeps what is known of them.
LEMMA SameObjects ==
    ASSUME SessionInv, CacheInv, ObjectInv, UNCHANGED <<session, uid, pod, netpol, cSession, allow>>
    PROVE  SessionInv' /\ CacheInv' /\ ObjectInv'
<1>1. SessionInv'
  BY Zenon DEF SessionInv, Terminating
<1>2. CacheInv'
  BY Zenon DEF CacheInv, CopyOK
<1>3. NoLeakedPod' /\ IsolationBeforePod'
  BY Zenon DEF ObjectInv, NoLeakedPod, IsolationBeforePod, LivePod, Owned
<1>4. AllowlistFollowsSession'
  BY Zenon DEF ObjectInv, AllowlistFollowsSession
<1> QED
  BY Zenon, <1>1, <1>2, <1>3, <1>4 DEF ObjectInv

\* An idle Reconcile has no copy.
LEMMA IdleInv == ASSUME rec' = IdleRec PROVE RecCopyInv' /\ RecStepInv'
  BY Zenon DEF IdleRec, Active, RecCopyInv, RecStepInv

\* Reconcile's copy stays good as long as its marks and the Session's are kept.
LEMMA SameCopy ==
    ASSUME Active, RecCopyInv, rec.key \in Keys, rec.s # None, Kept, UNCHANGED <<uid, cSession>>,
           rec'.key = rec.key, rec'.s.uid = rec.s.uid, rec'.s.fin = rec.s.fin, rec'.s.del = rec.s.del
    PROVE  RecCopyInv'
  BY Zenon DEF RecCopyInv, CopyOK, Kept

\* Writing the step, the phase or the address of a Reconcile keeps its copy.
LEMMA RecFields ==
    ASSUME RecTypeOK, NEW p, NEW x
    PROVE  /\ LET r == [rec EXCEPT !.pc = p]
              IN r.pc = p /\ r.key = rec.key /\ r.s = rec.s
           /\ LET r == [rec EXCEPT !.pc = p, !.phase = x]
              IN r.pc = p /\ r.key = rec.key /\ r.s = rec.s /\ r.phase = x
           /\ LET r == [rec EXCEPT !.pc = p, !.ip = x]
              IN r.pc = p /\ r.key = rec.key /\ r.s = rec.s /\ r.ip = x
           /\ LET r == [rec EXCEPT !.pc = p, !.s = x]
              IN r.pc = p /\ r.key = rec.key /\ r.s = x
  BY Zenon DEF RecTypeOK

\* A Reconcile that goes on with the same copy while no Session is written.
LEMMA StepCopy ==
    ASSUME Active, RecCopyInv, UNCHANGED <<session, uid, cSession>>,
           rec'.key = rec.key, rec'.s = rec.s
    PROVE  RecCopyInv'
  BY Zenon DEF RecCopyInv, CopyOK

\* The branch of Reconcile that takes a Session down.
LEMMA TerminateInv ==
    ASSUME IInv, NEW k \in Keys,
           \/ Begin(k) \/ MarkTerminating(k) \/ CleanupPod(k) \/ CleanupSecret(k)
           \/ OnCleanup(k) \/ DeleteTerminated(k) \/ RemoveFinalizer(k)
    PROVE  SessionInv' /\ CacheInv' /\ RecCopyInv' /\ RecStepInv' /\ ObjectInv'
<1>t. KubeTypeOK /\ RecTypeOK
  BY Zenon DEF IInv, TypeInv, TypeOK
<1>i. SessionInv /\ CacheInv /\ RecCopyInv /\ RecStepInv /\ ObjectInv
  BY Zenon DEF IInv
<1>a. Active => rec.key \in Keys /\ rec.s \in SessionObject /\ rec.s # None
  BY Zenon, <1>t DEF RecTypeOK, Active
<1>1. CASE Begin(k)
  <2>1. /\ UNCHANGED <<session, uid, pod, netpol, cSession, allow>>
        /\ cSession[k] # None
        /\ rec' = [IdleRec EXCEPT !.key = k, !.s = cSession[k],
                     !.pc = IF Terminating(cSession[k])
                            THEN IF cSession[k].phase # "Terminating" THEN "markTerm" ELSE "delPod"
                            ELSE IF ~cSession[k].fin THEN "addFinalizer" ELSE "isolate"]
    BY Zenon, <1>1 DEF Begin, kubeVars
  <2>2. /\ rec'.key = k /\ rec'.s = cSession[k]
        /\ rec'.pc = IF Terminating(cSession[k])
                     THEN IF cSession[k].phase # "Terminating" THEN "markTerm" ELSE "delPod"
                     ELSE IF ~cSession[k].fin THEN "addFinalizer" ELSE "isolate"
    BY Zenon, <2>1 DEF IdleRec
  <2>3. SessionInv' /\ CacheInv' /\ ObjectInv'
    BY Zenon, <1>i, <2>1, SameObjects
  <2>4. RecCopyInv'
    <3>1. CopyOK(k, cSession[k])
      BY Zenon, <1>i DEF CacheInv
    <3> QED
      BY Zenon, <2>1, <2>2, <3>1 DEF RecCopyInv, CopyOK
  <2>5. RecStepInv'
    BY Zenon, <2>2 DEF RecStepInv, Terminating
  <2> QED
    BY Zenon, <2>3, <2>4, <2>5
<1>2. CASE MarkTerminating(k)
  <2> DEFINE new == [rec.s EXCEPT !.phase = "Terminating"]
  <2>1. /\ rec.pc = "markTerm" /\ rec.key = k
        /\ UpdateSession(k, rec.s, new)
        /\ UNCHANGED <<uid, pod, netpol, cSession, allow>>
        /\ rec' = [rec EXCEPT !.pc = "delPod", !.s = IF session[k] = rec.s THEN new ELSE rec.s]
    BY Zenon, <1>2 DEF MarkTerminating
  <2>2. Active /\ rec.s \in SessionObject /\ rec.s # None
    BY Zenon, <1>a, <2>1 DEF Active
  <2>3. /\ new \in SessionObject /\ new.uid = rec.s.uid /\ new.del = rec.s.del
        /\ new.fin = rec.s.fin /\ new.desired = rec.s.desired
    BY Zenon, <2>2 DEF SessionObject, Phases
  <2>4. rec'.key = k /\ rec'.pc = "delPod" /\ (rec'.s = new \/ rec'.s = rec.s)
    BY <1>t, <2>1, RecFields
  <2> HIDE DEF new
  <2>5. Terminating(rec.s) /\ Terminating(new) /\ Terminating(rec'.s)
    BY Zenon, <1>i, <2>1, <2>3, <2>4 DEF RecStepInv, Terminating
  <2>6. Kept
    BY Zenon, <1>i, <1>t, <2>1, <2>2, <2>3, UpdateKept
  <2>7. CacheInv' /\ ObjectInv'
    BY Zenon, <1>i, <1>t, <2>1, <2>6, KeptInv
  <2>8. SessionInv'
    BY Zenon, <1>i, <1>t, <2>1, <2>2, <2>3, <2>5, UpdateSessionInv
  <2>9. RecCopyInv'
    <3>1. rec'.s.uid = rec.s.uid /\ rec'.s.fin = rec.s.fin /\ rec'.s.del = rec.s.del
      BY Zenon, <2>3, <2>4
    <3> QED
      BY Zenon, <1>i, <2>1, <2>2, <2>4, <2>6, <3>1, SameCopy
  <2>10. RecStepInv'
    BY Zenon, <2>4, <2>5 DEF RecStepInv, Terminating
  <2> QED
    BY Zenon, <2>7, <2>8, <2>9, <2>10
<1>3. CASE CleanupPod(k)
  <2>1. /\ UNCHANGED <<session, uid, netpol, cSession, allow>>
        /\ rec.pc = "delPod" /\ rec.key = k /\ rec' = [rec EXCEPT !.pc = "delSecret"]
        /\ DeletePodObject(k)
    BY Zenon, <1>3 DEF CleanupPod, GoTo
  <2>2. rec'.key = rec.key /\ rec'.s = rec.s /\ rec'.pc = "delSecret"
    BY Zenon, <1>t, <2>1, RecFields
  <2>3. \A j \in Keys : LivePod(j)' => j # k /\ LivePod(j) /\ pod'[j] = pod[j]
    BY Zenon, <1>t, <2>1, DeletePodLive
  <2>4. SessionInv' /\ CacheInv'
    BY Zenon, <1>i, <2>1 DEF SessionInv, CacheInv, CopyOK, Terminating
  <2>5. RecCopyInv'
    BY Zenon, <1>i, <2>1, <2>2, StepCopy DEF Active
  <2>6. RecStepInv'
    BY Zenon, <1>i, <2>1, <2>2, <2>3 DEF RecStepInv, Terminating
  <2>7. ObjectInv'
    BY ZenonT(40), <1>i, <2>1, <2>3 DEF ObjectInv, NoLeakedPod, IsolationBeforePod, AllowlistFollowsSession, Owned
  <2> QED
    BY Zenon, <2>4, <2>5, <2>6, <2>7
<1>4. CASE CleanupSecret(k)
  <2>1. /\ UNCHANGED <<session, uid, pod, netpol, cSession, allow>>
        /\ rec.pc = "delSecret" /\ rec' = [rec EXCEPT !.pc = "onCleanup"]
    BY Zenon, <1>4 DEF CleanupSecret, GoTo
  <2>2. rec'.key = rec.key /\ rec'.s = rec.s /\ rec'.pc = "onCleanup"
    BY Zenon, <1>t, <2>1, RecFields
  <2>3. SessionInv' /\ CacheInv' /\ ObjectInv'
    BY Zenon, <1>i, <2>1, SameObjects
  <2>4. RecCopyInv'
    BY Zenon, <1>i, <2>1, <2>2, StepCopy DEF Active
  <2>5. RecStepInv'
    BY Zenon, <1>i, <2>1, <2>2 DEF RecStepInv, LivePod, Terminating
  <2> QED
    BY Zenon, <2>3, <2>4, <2>5
<1>5. CASE OnCleanup(k)
  <2>1. /\ UNCHANGED <<session, uid, pod, netpol, cSession>>
        /\ allow' = [ip \in IPs |-> IF allow[ip] = k THEN None ELSE allow[ip]]
        /\ rec.key = k /\ rec.pc = "onCleanup"
        /\ \/ rec' = IdleRec
           \/ ~rec.s.del /\ rec' = [rec EXCEPT !.pc = "delSession"]
           \/ rec.s.del /\ rec' = [rec EXCEPT !.pc = "rmFinalizer"]
    BY Zenon, <1>5 DEF OnCleanup, GoTo, Done, kubeVars
  <2>2. \A ip \in IPs : allow'[ip] # k /\ (allow'[ip] # None => allow'[ip] = allow[ip])
    BY Zenon, <2>1
  <2>3. SessionInv' /\ CacheInv'
    BY Zenon, <1>i, <2>1 DEF SessionInv, CacheInv, CopyOK, Terminating
  <2>4. ObjectInv'
    BY Zenon, <1>i, <2>1, <2>2 DEF ObjectInv, NoLeakedPod, IsolationBeforePod, AllowlistFollowsSession,
                            LivePod, Owned
  <2>5. CASE rec' = IdleRec
    BY Zenon, <2>3, <2>4, <2>5, IdleInv
  <2>6. CASE rec' # IdleRec
    <3>1. /\ rec'.key = rec.key /\ rec'.s = rec.s /\ rec'.pc \in {"delSession", "rmFinalizer"}
          /\ rec'.pc = "rmFinalizer" => rec.s.del
      BY Zenon, <1>t, <2>1, <2>6 DEF RecTypeOK
    <3>2. RecCopyInv'
      BY Zenon, <1>i, <2>1, <3>1, StepCopy DEF Active
    <3>3. RecStepInv'
      BY Zenon, <1>i, <2>1, <2>2, <3>1 DEF RecStepInv, LivePod, Terminating
    <3> QED
      BY Zenon, <2>3, <2>4, <3>2, <3>3
  <2> QED
    BY Zenon, <2>5, <2>6
<1>6. CASE DeleteTerminated(k)
  <2>1. DeleteSession(k) /\ UNCHANGED <<uid, pod, netpol, cSession, allow>> /\ rec' = IdleRec
    BY Zenon, <1>6 DEF DeleteTerminated, Done
  <2> QED
    BY Zenon, <1>i, <1>t, <2>1, DeleteInv, IdleInv
<1>7. CASE RemoveFinalizer(k)
  <2>1. /\ UNCHANGED <<uid, pod, netpol, cSession, allow>> /\ rec' = IdleRec
        /\ rec.key = k /\ rec.pc = "rmFinalizer"
        /\ UpdateSession(k, rec.s, [rec.s EXCEPT !.fin = FALSE])
    BY Zenon, <1>7 DEF RemoveFinalizer, Done
  <2>2. Active /\ rec.s \in SessionObject /\ rec.s.del
    BY Zenon, <1>a, <1>i, <2>1 DEF Active, RecStepInv
  <2>3. \A j \in Keys : session'[j] = session[j] \/ (j = k /\ session'[j] = None /\ session[j] = rec.s)
    <3> DEFINE new == [rec.s EXCEPT !.fin = FALSE]
    <3>1. new.del /\ ~new.fin
      BY ZenonT(40), <2>2, FinalizerFields
    <3>2. UpdateSession(k, rec.s, new)
      BY Zenon, <2>1
    <3> HIDE DEF new
    <3>3. session' = session \/ (session[k] = rec.s /\ session' = [session EXCEPT ![k] = None])
      BY Zenon, <3>1, <3>2 DEF UpdateSession, Settle
    <3>4. session \in [Keys -> SessionObject \cup {None}]
      BY Zenon, <1>t DEF KubeTypeOK
    <3> QED
      BY Zenon, <3>3, <3>4
  <2>4. SessionInv'
    <3>1. \A j \in Keys : session'[j] # None => session'[j] = session[j]
      BY Zenon, <2>3
    <3> QED
      BY Zenon, <1>i, <2>1, <3>1 DEF SessionInv, Terminating
  <2>5. CacheInv'
    <3> SUFFICES ASSUME NEW j \in Keys, cSession[j] # None PROVE CopyOK(j, cSession[j])'
      BY Zenon, <2>1 DEF CacheInv, CopyOK
    <3>1. CopyOK(j, cSession[j])
      BY Zenon, <1>i DEF CacheInv
    <3>2. CASE session'[j] = session[j]
      BY Zenon, <2>1, <3>1, <3>2 DEF CopyOK
    <3>3. CASE j = k /\ session'[j] = None /\ session[j] = rec.s
      <4>1. cSession[k].uid # rec.s.uid \/ cSession[k].del
        BY Zenon, <1>i, <2>1, <2>2, <3>3 DEF RecCopyInv
      <4> QED
        BY Zenon, <2>1, <3>1, <3>3, <4>1 DEF CopyOK
    <3> QED
      BY Zenon, <2>3, <3>2, <3>3
  <2>6. ObjectInv'
    <3>1. ~LivePod(k) /\ \A ip \in IPs : allow[ip] # k
      BY Zenon, <1>i, <2>1 DEF RecStepInv
    <3>2. \A j \in Keys : j # k => session'[j] = session[j]
      BY Zenon, <2>3
    <3>3. NoLeakedPod'
      BY Zenon, <1>i, <2>1, <3>1, <3>2 DEF ObjectInv, NoLeakedPod, LivePod, Owned
    <3>4. IsolationBeforePod'
      BY Zenon, <1>i, <2>1 DEF ObjectInv, IsolationBeforePod, LivePod
    <3>5. AllowlistFollowsSession'
      <4>1. \A ip \in IPs : allow[ip] \in Keys \cup {None}
        BY Zenon, <1>t DEF RecTypeOK
      <4> QED
        BY Zenon, <1>i, <2>1, <3>1, <3>2, <4>1 DEF ObjectInv, AllowlistFollowsSession
    <3> QED
      BY Zenon, <3>3, <3>4, <3>5 DEF ObjectInv
  <2> QED
    BY Zenon, <2>1, <2>4, <2>5, <2>6, IdleInv
<1> QED
  BY Zenon, <1>1, <1>2, <1>3, <1>4, <1>5, <1>6, <1>7

\* The branch of Reconcile that brings a Session up.
LEMMA BringUpInv ==
    ASSUME IInv, NEW k \in Keys,
           \/ AddFinalizer(k) \/ ApplyIsolation(k) \/ CreateSessionPod(k)
           \/ OnReady(k) \/ StatusUpdate(k)
    PROVE  SessionInv' /\ CacheInv' /\ RecCopyInv' /\ RecStepInv' /\ ObjectInv'
<1>t. KubeTypeOK /\ RecTypeOK /\ PodInv
  BY Zenon DEF IInv, TypeInv, TypeOK
<1>i. SessionInv /\ CacheInv /\ RecCopyInv /\ RecStepInv /\ ObjectInv
  BY Zenon DEF IInv
<1>0. /\ rec.key = k
      /\ rec.pc \in {"addFinalizer", "isolate", "createPod", "onReady", "status"}
  BY Zenon DEF AddFinalizer, ApplyIsolation, CreateSessionPod, OnReady, StatusUpdate
<1>1. Active /\ rec.s \in SessionObject /\ rec.s # None /\ ~Terminating(rec.s)
  BY Zenon, <1>0, <1>i, <1>t DEF RecTypeOK, Active, RecStepInv
<1>2. rec.pc # "addFinalizer" =>
        rec.s.fin /\ session[k] # None /\ session[k].uid = rec.s.uid /\ session[k].fin
  <2>1. rec.pc # "addFinalizer" => rec.s.fin
    BY Zenon, <1>0, <1>i DEF RecStepInv
  <2>2. CopyOK(k, rec.s)
    BY Zenon, <1>0, <1>1, <1>i DEF RecCopyInv
  <2> QED
    BY Zenon, <1>1, <2>1, <2>2 DEF CopyOK, Terminating
<1>3. CASE AddFinalizer(k)
  <2> DEFINE new == [rec.s EXCEPT !.fin = TRUE]
  <2>1. /\ new \in SessionObject /\ new.uid = rec.s.uid /\ new.del = rec.s.del /\ new.fin
        /\ new.phase = rec.s.phase /\ new.desired = rec.s.desired
    BY Zenon, <1>1, FinalizerFields
  <2>2. /\ UpdateSession(k, rec.s, new) /\ rec' = IdleRec
        /\ UNCHANGED <<uid, pod, netpol, cSession, allow>>
    BY Zenon, <1>3 DEF AddFinalizer, Done
  <2> HIDE DEF new
  <2>3. CASE session[k] = rec.s
    <3>1. new.phase = "Terminating" => Terminating(new)
      BY Zenon, <1>1, <1>i, <2>1, <2>3 DEF SessionInv, Terminating
    <3> QED
      BY Zenon, <1>0, <1>1, <2>1, <2>2, <3>1, UpdateInv
  <2>4. CASE session[k] # rec.s
    <3>1. session' = session
      BY Zenon, <2>2, <2>4 DEF UpdateSession
    <3> QED
      BY Zenon, <1>i, <2>2, <3>1, SameObjects, IdleInv
  <2> QED
    BY Zenon, <2>3, <2>4
<1>4. CASE ApplyIsolation(k)
  <2>1. /\ UNCHANGED <<session, uid, pod, cSession, allow>>
        /\ rec.pc = "isolate"
        /\ netpol' = netpol \/ netpol' = [netpol EXCEPT ![k] = rec.s.uid]
    BY Zenon, <1>4 DEF ApplyIsolation
  <2>2. \A j \in Keys : netpol'[j] = netpol[j] \/ (j = k /\ netpol'[j] = rec.s.uid)
    BY Zenon, <1>t, <2>1 DEF KubeTypeOK
  <2>3. SessionInv' /\ CacheInv'
    BY Zenon, <1>i, <2>1 DEF SessionInv, CacheInv, CopyOK, Terminating
  <2>4. ObjectInv'
    <3>1. NoLeakedPod' /\ AllowlistFollowsSession'
      BY Zenon, <1>i, <2>1 DEF ObjectInv, NoLeakedPod, AllowlistFollowsSession, LivePod, Owned
    <3>2. IsolationBeforePod'
      BY Zenon, <1>2, <1>i, <2>1, <2>2 DEF ObjectInv, NoLeakedPod, IsolationBeforePod, LivePod, Owned
    <3> QED
      BY Zenon, <3>1, <3>2 DEF ObjectInv
  <2>5. \/ rec' = [rec EXCEPT !.pc = "status", !.phase = "Failed"]
        \/ rec' = [rec EXCEPT !.pc = "status", !.phase = "Starting"]
        \/ rec' = [rec EXCEPT !.pc = "createPod"] /\ netpol'[k] = rec.s.uid
        \/ rec' = [rec EXCEPT !.pc = "onReady", !.ip = cPod[k].ip] /\ cPod[k].ip \in IPs
        \/ rec' = IdleRec
    <3>1. CASE GoToStatus("Failed")
      BY Zenon, <3>1 DEF GoToStatus
    <3>2. CASE netpol' = [netpol EXCEPT ![k] = rec.s.uid] /\ AfterIsolation(cPod[k])
      <4>1. netpol'[k] = rec.s.uid
        BY Zenon, <1>t, <3>2 DEF KubeTypeOK
      <4>2. cPod[k] # None /\ cPod[k].state = "Ready" => cPod[k].ip \in IPs
        BY Zenon, <1>t DEF PodInv
      <4> QED
        BY Zenon, <3>2, <4>1, <4>2 DEF AfterIsolation, GoToStatus, GoTo, Done
    <3> QED
      BY Zenon, <1>4, <3>1, <3>2 DEF ApplyIsolation
  <2>6. CASE rec' = IdleRec
    BY Zenon, <2>3, <2>4, <2>6, IdleInv
  <2>7. CASE rec' # IdleRec
    <3>1. /\ rec'.key = k /\ rec'.s = rec.s
          /\ \/ rec'.pc = "status" /\ rec'.phase \in {"Failed", "Starting"}
             \/ rec'.pc = "createPod" /\ netpol'[k] = rec.s.uid
             \/ rec'.pc = "onReady" /\ rec'.ip \in IPs
      BY ZenonT(40), <1>0, <1>t, <2>5, <2>7 DEF RecTypeOK
    <3>2. RecCopyInv'
      BY Zenon, <1>0, <1>1, <1>i, <2>1, <3>1, StepCopy
    <3>3. RecStepInv'
      BY Zenon, <1>1, <1>2, <2>1, <3>1 DEF RecStepInv, Terminating
    <3> QED
      BY Zenon, <2>3, <2>4, <3>2, <3>3
  <2> QED
    BY Zenon, <2>6, <2>7
<1>5. CASE CreateSessionPod(k)
  <2>1. /\ UNCHANGED <<session, uid, netpol, cSession, allow>>
        /\ rec.pc = "createPod"
        /\ pod' = pod \/ pod' = [pod EXCEPT ![k] = NewPod(rec.s.uid)]
        /\ \/ rec' = [rec EXCEPT !.pc = "status", !.phase = "Starting"]
           \/ rec' = [rec EXCEPT !.pc = "status", !.phase = "Failed"]
    BY Zenon, <1>5 DEF CreateSessionPod, CreatePod, GoToStatus
  <2>2. /\ rec'.key = rec.key /\ rec'.s = rec.s /\ rec'.pc = "status"
        /\ rec'.phase \in {"Starting", "Failed"}
    BY Zenon, <1>t, <2>1 DEF RecTypeOK
  <2>3. \A j \in Keys : LivePod(j)' => \/ LivePod(j) /\ pod'[j].owner = pod[j].owner
                                       \/ j = k /\ pod'[j].owner = rec.s.uid
    <3>1. pod \in [Keys -> PodObject \cup {None}]
      BY Zenon, <1>t DEF KubeTypeOK
    <3>2. \A j \in Keys : pod'[j] = pod[j] \/ (j = k /\ pod'[j] = NewPod(rec.s.uid))
      BY Zenon, <2>1, <3>1
    <3>3. NewPod(rec.s.uid).owner = rec.s.uid
      BY Zenon DEF NewPod
    <3> QED
      BY Zenon, <3>2, <3>3 DEF LivePod
  <2>4. SessionInv' /\ CacheInv'
    BY Zenon, <1>i, <2>1 DEF SessionInv, CacheInv, CopyOK, Terminating
  <2>5. ObjectInv'
    <3>1. netpol[k] = rec.s.uid
      BY Zenon, <1>0, <1>i, <2>1 DEF RecStepInv
    <3>2. NoLeakedPod'
      BY Zenon, <1>2, <1>i, <2>1, <2>3 DEF ObjectInv, NoLeakedPod, Owned
    <3>3. IsolationBeforePod'
      BY Zenon, <1>i, <2>1, <2>3, <3>1 DEF ObjectInv, IsolationBeforePod
    <3>4. AllowlistFollowsSession'
      BY Zenon, <1>i, <2>1 DEF ObjectInv, AllowlistFollowsSession
    <3> QED
      BY Zenon, <3>2, <3>3, <3>4 DEF ObjectInv
  <2>6. RecCopyInv'
    BY Zenon, <1>1, <1>i, <2>1, <2>2, StepCopy
  <2>7. RecStepInv'
    BY Zenon, <1>1, <1>2, <2>1, <2>2 DEF RecStepInv, Terminating
  <2> QED
    BY Zenon, <2>4, <2>5, <2>6, <2>7
<1>6. CASE OnReady(k)
  <2>1. /\ UNCHANGED <<session, uid, pod, netpol, cSession>>
        /\ rec.pc = "onReady" /\ allow' = [allow EXCEPT ![rec.ip] = k]
        /\ rec' = [rec EXCEPT !.pc = "status", !.phase = "Ready"]
    BY Zenon, <1>6 DEF OnReady, GoToStatus, kubeVars
  <2>2. rec'.key = rec.key /\ rec'.s = rec.s /\ rec'.pc = "status" /\ rec'.phase = "Ready"
    BY <1>t, <2>1, RecFields
  <2>3. SessionInv' /\ CacheInv'
    BY Zenon, <1>i, <2>1 DEF SessionInv, CacheInv, CopyOK, Terminating
  <2>4. ObjectInv'
    <3>1. \A ip \in IPs : allow'[ip] = allow[ip] \/ allow'[ip] = k
      BY Zenon, <1>t, <2>1 DEF RecTypeOK
    <3>2. NoLeakedPod' /\ IsolationBeforePod'
      BY Zenon, <1>i, <2>1 DEF ObjectInv, NoLeakedPod, IsolationBeforePod, LivePod, Owned
    <3>3. AllowlistFollowsSession'
      BY Zenon, <1>2, <1>i, <2>1, <3>1 DEF ObjectInv, AllowlistFollowsSession
    <3> QED
      BY Zenon, <3>2, <3>3 DEF ObjectInv
  <2>5. RecCopyInv'
    BY Zenon, <1>1, <1>i, <2>1, <2>2, StepCopy
  <2>6. RecStepInv'
    BY Zenon, <1>1, <1>2, <2>1, <2>2 DEF RecStepInv, Terminating
  <2> QED
    BY Zenon, <2>3, <2>4, <2>5, <2>6
<1>7. CASE StatusUpdate(k)
  <2> DEFINE e == IF rec.phase = "Ready" THEN rec.ip ELSE rec.s.endpoint
  <2> DEFINE new == [rec.s EXCEPT !.phase = rec.phase, !.endpoint = e]
  <2>1. rec.phase \in Phases /\ e \in IPs \cup {None}
    BY Zenon, <1>1, <1>t DEF RecTypeOK, SessionObject
  <2>2. /\ UpdateSession(k, rec.s, new) /\ rec' = IdleRec /\ rec.pc = "status"
        /\ UNCHANGED <<uid, pod, netpol, cSession, allow>>
    BY Zenon, <1>7 DEF StatusUpdate, Done
  <2>3. rec.phase # "Terminating"
    BY Zenon, <1>i, <2>2 DEF RecStepInv
  <2> HIDE DEF e
  <2>4. /\ new \in SessionObject /\ new.uid = rec.s.uid /\ new.del = rec.s.del
        /\ new.fin = rec.s.fin /\ new.phase = rec.phase
    BY Zenon, <1>1, <2>1 DEF SessionObject
  <2> HIDE DEF new
  <2> QED
    BY Zenon, <1>0, <1>1, <2>2, <2>3, <2>4, UpdateInv
<1> QED
  BY Zenon, <1>3, <1>4, <1>5, <1>6, <1>7

\* The cluster takes pods and policies away and brings copies up to date.
LEMMA ClusterInv ==
    ASSUME IInv, NEW k \in Keys, Cluster(k)
    PROVE  SessionInv' /\ CacheInv' /\ RecCopyInv' /\ RecStepInv' /\ ObjectInv'
<1>t. KubeTypeOK /\ RecTypeOK
  BY Zenon DEF IInv, TypeInv, TypeOK
<1>i. SessionInv /\ CacheInv /\ RecCopyInv /\ RecStepInv /\ ObjectInv
  BY Zenon DEF IInv
<1>p. pod \in [Keys -> PodObject \cup {None}]
  BY Zenon, <1>t DEF KubeTypeOK
<1>1. UNCHANGED <<rec, allow, session, uid>>
  BY Zenon DEF Cluster, recVars, KubeletStart, KubeletBackoff, KubeletProbe, KubeletExit,
         PodGone, PodLost, CollectGarbage, SyncSession, SyncPod
<1>2. \A j \in Keys : LivePod(j)' => LivePod(j) /\ pod'[j].owner = pod[j].owner
  <2>1. CASE KubeletStart(k) \/ KubeletBackoff(k) \/ KubeletProbe(k) \/ KubeletExit(k)
    <3>1. pod[k] \in PodObject /\ pod[k] # None
      BY Zenon, <1>p, <2>1 DEF KubeletStart, KubeletBackoff, KubeletProbe, KubeletExit
    <3>2. pod'[k].del = pod[k].del /\ pod'[k].owner = pod[k].owner
      <4>1. CASE KubeletStart(k)
        <5>1. PICK ip \in FreeIPs :
                 pod' = [pod EXCEPT ![k].state = "Ready", ![k].ip = ip, ![k].token = secret[k]]
          BY Zenon, <4>1 DEF KubeletStart
        <5>2. pod'[k] = [[[pod[k] EXCEPT !.state = "Ready"] EXCEPT !.ip = ip] EXCEPT !.token = secret[k]]
          BY Zenon, <1>p, <5>1
        <5> QED
          BY SMTT(30), <3>1, <5>2, PodFields
      <4>2. CASE KubeletBackoff(k)
        BY Zenon, <1>p, <3>1, <4>2 DEF KubeletBackoff, PodObject
      <4>3. CASE KubeletProbe(k)
        <5>1. PICK st \in PodStates : pod' = [pod EXCEPT ![k].state = st]
          BY Zenon, <4>3 DEF KubeletProbe, PodStates
        <5>2. pod'[k] = [pod[k] EXCEPT !.state = st]
          BY Zenon, <1>p, <5>1
        <5> QED
          BY <3>1, <5>2, PodFields
      <4>4. CASE KubeletExit(k)
        BY Zenon, <1>p, <3>1, <4>4 DEF KubeletExit, PodObject
      <4> QED
        BY Zenon, <2>1, <4>1, <4>2, <4>3, <4>4
    <3>3. \A j \in Keys : j # k => pod'[j] = pod[j]
      <4>1. CASE KubeletStart(k)
        BY Zenon, <1>p, <4>1 DEF KubeletStart
      <4>2. CASE KubeletBackoff(k) \/ KubeletProbe(k) \/ KubeletExit(k)
        BY Zenon, <1>p, <4>2 DEF KubeletBackoff, KubeletProbe, KubeletExit
      <4> QED
        BY Zenon, <2>1, <4>1, <4>2
    <3> QED
      BY Zenon, <3>1, <3>2, <3>3 DEF LivePod
  <2>2. CASE PodGone(k) \/ PodLost(k)
    <3>1. pod' = [pod EXCEPT ![k] = None]
      BY Zenon, <2>2 DEF PodGone, PodLost
    <3>2. pod'[k] = None /\ \A j \in Keys : j # k => pod'[j] = pod[j]
      BY Zenon, <1>p, <3>1
    <3> QED
      BY Zenon, <3>2 DEF LivePod
  <2>3. CASE CollectGarbage(k)
    <3>1. pod' = pod \/ DeletePodObject(k)
      BY Zenon, <2>3 DEF CollectGarbage
    <3>2. CASE pod' = pod
      BY Zenon, <3>2 DEF LivePod
    <3>3. CASE DeletePodObject(k)
      BY Zenon, <1>t, <3>3, DeletePodLive
    <3> QED
      BY Zenon, <3>1, <3>2, <3>3
  <2>4. CASE SyncSession(k) \/ SyncPod(k)
    BY Zenon, <2>4 DEF SyncSession, SyncPod, LivePod
  <2> QED
    BY Zenon, <2>1, <2>2, <2>3, <2>4 DEF Cluster
<1>3. \A j \in Keys : netpol'[j] # netpol[j] => ~Owned(j, netpol[j])
  <2>1. netpol' = netpol \/ (netpol' = [netpol EXCEPT ![k] = 0] /\ ~Owned(k, netpol[k]))
    BY Zenon DEF Cluster, KubeletStart, KubeletBackoff, KubeletProbe, KubeletExit, PodGone, PodLost,
           CollectGarbage, SyncSession, SyncPod
  <2> QED
    BY Zenon, <1>t, <2>1 DEF KubeTypeOK
<1>4. \A j \in Keys : cSession'[j] = cSession[j] \/ cSession'[j] = session[j]
  <2>1. UNCHANGED cSession \/ cSession' = [cSession EXCEPT ![k] = session[k]]
    BY Zenon DEF Cluster, KubeletStart, KubeletBackoff, KubeletProbe, KubeletExit, PodGone, PodLost,
           CollectGarbage, SyncSession, SyncPod
  <2> QED
    BY Zenon, <1>t, <2>1 DEF KubeTypeOK
<1>5. SessionInv'
  BY Zenon, <1>1, <1>i DEF SessionInv, Terminating
<1>6. CacheInv'
  <2> SUFFICES ASSUME NEW j \in Keys PROVE CopyOK(j, cSession[j])'
    BY Zenon DEF CacheInv
  <2>1. CASE cSession'[j] = cSession[j]
    BY Zenon, <1>1, <1>i, <2>1 DEF CacheInv, CopyOK
  <2>2. CASE cSession'[j] = session[j]
    BY Zenon, <1>1, <1>i, <2>2 DEF CopyOK, SessionInv
  <2> QED
    BY Zenon, <1>4, <2>1, <2>2
<1>7. RecCopyInv'
  <2> SUFFICES ASSUME Active PROVE RecCopyInv'
    BY Zenon, <1>1 DEF RecCopyInv, Active
  <2>1. rec.key \in Keys /\ rec.s # None
    BY Zenon, <1>t DEF RecTypeOK, Active
  <2>2. CopyOK(rec.key, rec.s)'
    BY Zenon, <1>1, <1>i DEF RecCopyInv, CopyOK
  <2>3. CASE cSession'[rec.key] = cSession[rec.key]
    BY Zenon, <1>1, <1>i, <2>2, <2>3 DEF RecCopyInv
  <2>4. CASE cSession'[rec.key] = session[rec.key]
    BY Zenon, <1>1, <1>i, <2>1, <2>2, <2>4 DEF RecCopyInv, CopyOK
  <2> QED
    BY Zenon, <1>4, <2>1, <2>3, <2>4
<1>8. RecStepInv'
  <2>1. CASE ~Active
    BY Zenon, <1>1, <2>1 DEF RecStepInv, Active
  <2>2. CASE Active
    <3>1. rec.key \in Keys /\ rec.s # None
      BY Zenon, <1>t, <2>2 DEF RecTypeOK, Active
    <3>2. rec.pc = "createPod" => Owned(rec.key, rec.s.uid) /\ netpol[rec.key] = rec.s.uid
      BY Zenon, <1>i, <2>2, <3>1 DEF RecStepInv, RecCopyInv, CopyOK, Owned, Terminating
    <3>3. rec.pc = "createPod" => netpol'[rec.key] = rec.s.uid
      BY Zenon, <1>3, <3>1, <3>2
    <3>4. LivePod(rec.key)' => LivePod(rec.key)
      BY Zenon, <1>1, <1>2, <3>1 DEF LivePod
    <3> QED
      BY Zenon, <1>1, <1>i, <3>3, <3>4 DEF RecStepInv, LivePod, Terminating
  <2> QED
    BY Zenon, <2>1, <2>2
<1>9. ObjectInv'
  <2>1. NoLeakedPod'
    BY Zenon, <1>1, <1>2, <1>i DEF ObjectInv, NoLeakedPod, Owned
  <2>2. IsolationBeforePod'
    BY Zenon, <1>1, <1>2, <1>3, <1>i DEF ObjectInv, NoLeakedPod, IsolationBeforePod
  <2>3. AllowlistFollowsSession'
    BY Zenon, <1>1, <1>i DEF ObjectInv, AllowlistFollowsSession
  <2> QED
    BY Zenon, <2>1, <2>2, <2>3 DEF ObjectInv
<1> QED
  BY Zenon, <1>5, <1>6, <1>7, <1>8, <1>9

\* What a deletion by name leaves of every Session.
LEMMA DeleteMarks ==
    ASSUME KubeTypeOK, NEW k \in Keys, DeleteSession(k), NEW j \in Keys
    PROVE  /\ session[j] # None /\ session[j].fin =>
                session'[j] # None /\ session'[j].uid = session[j].uid /\ session'[j].fin
           /\ session'[j] # None =>
                /\ session[j] # None /\ session'[j].uid = session[j].uid
                /\ session[j].del => session'[j].del
<1>1. session \in [Keys -> SessionObject \cup {None}]
  BY Zenon DEF KubeTypeOK
<1>2. CASE session[k] = None \/ ~session[k].fin
  BY Zenon, <1>1, <1>2 DEF DeleteSession
<1>3. CASE session[k] # None /\ session[k].fin
  <2> DEFINE n == [session[k] EXCEPT !.del = TRUE]
  <2>1. session' = [session EXCEPT ![k] = n] /\ session[k] \in SessionObject
    BY Zenon, <1>1, <1>3 DEF DeleteSession
  <2>2. n \in SessionObject /\ n.uid = session[k].uid /\ n.fin = session[k].fin /\ n.del
    BY Zenon, <2>1, FinalizerFields
  <2> HIDE DEF n
  <2>3. session'[k] = n /\ (j # k => session'[j] = session[j])
    BY Zenon, <1>1, <2>1
  <2>4. n # None
    BY Zenon, <2>2
  <2> QED
    BY Zenon, <1>3, <2>2, <2>3, <2>4
<1> QED
  BY Zenon, <1>2, <1>3

\* A deletion or an update by another process keeps what Reconcile's copy says.
LEMMA EnvironmentInv ==
    ASSUME IInv, NEW k \in Keys, Environment(k)
    PROVE  SessionInv' /\ CacheInv' /\ RecCopyInv' /\ RecStepInv' /\ ObjectInv'
<1>0. TypeInv /\ TypeInv'
  BY Zenon, EnvironmentTypes DEF IInv
<1>t. KubeTypeOK /\ RecTypeOK /\ session \in [Keys -> SessionObject \cup {None}]
  BY Zenon, <1>0 DEF TypeInv, TypeOK, KubeTypeOK
<1>i. SessionInv /\ CacheInv /\ RecCopyInv /\ RecStepInv /\ ObjectInv
  BY Zenon DEF IInv
<1>a. Active => rec.key \in Keys /\ rec.s \in SessionObject /\ rec.s # None
  BY Zenon, <1>t DEF RecTypeOK, Active
<1>1. UNCHANGED <<rec, allow, pod, netpol, cSession, cPod>>
  BY Zenon DEF Environment, GatewayWrites, ReaperWrites, recVars
<1>2. RecStepInv'
  BY Zenon, <1>1, <1>i DEF RecStepInv, LivePod, Terminating
<1>3. CASE UNCHANGED <<session, uid>>
  <2>1. SessionInv' /\ CacheInv' /\ ObjectInv'
    BY Zenon, <1>1, <1>3, <1>i, SameObjects
  <2>2. RecCopyInv'
    BY Zenon, <1>1, <1>3, <1>i DEF RecCopyInv, CopyOK, Active
  <2> QED
    BY Zenon, <1>2, <2>1, <2>2
<1>4. CASE session[k] = None /\ uid' = uid + 1 /\ session' = [session EXCEPT ![k] = NewSession(uid + 1)]
  <2>1. uid \in Nat /\ uid + 1 \in 1 .. MaxUid
    BY <1>0, <1>4 DEF TypeInv, TypeOK, KubeTypeOK
  <2>2. /\ session'[k] # None /\ session'[k].uid = uid + 1 /\ ~session'[k].del
        /\ session'[k].phase # "Terminating"
        /\ \A j \in Keys : j # k => session'[j] = session[j]
    <3>1. session'[k] = NewSession(uid + 1) /\ \A j \in Keys : j # k => session'[j] = session[j]
      BY Zenon, <1>4, <1>t
    <3> QED
      BY Zenon, <2>1, <3>1, NewSessionFields
  <2>3. \A x \in SessionObject : x.uid <= uid => x.uid <= uid' /\ x.uid # uid + 1
    BY <1>4, <2>1, UidType
  <2>4. SessionInv'
    <3> SUFFICES ASSUME NEW j \in Keys, session'[j] # None
                 PROVE  /\ session'[j].uid <= uid' /\ (session'[j].del => session'[j].fin)
                        /\ session'[j].phase = "Terminating" => Terminating(session'[j])
      BY Zenon DEF SessionInv, Terminating
    <3>1. CASE j = k
      BY <1>4, <2>1, <2>2, <3>1
    <3>2. CASE j # k
      <4>1. session'[j] = session[j] /\ session[j] \in SessionObject
        BY Zenon, <1>t, <2>2, <3>2
      <4> QED
        BY Zenon, <1>i, <2>3, <4>1 DEF SessionInv
    <3> QED
      BY Zenon, <3>1, <3>2
  <2>5. ASSUME NEW j \in Keys, NEW x \in SessionObject, CopyOK(j, x) PROVE CopyOK(j, x)'
    <3>1. x # None /\ x.uid <= uid' /\ x.uid # uid + 1
      BY Zenon, <2>3, <2>5 DEF CopyOK
    <3>2. CASE j = k
      BY Zenon, <1>4, <2>2, <2>5, <3>1, <3>2 DEF CopyOK
    <3>3. CASE j # k
      BY Zenon, <2>2, <2>5, <3>1, <3>3 DEF CopyOK
    <3> QED
      BY Zenon, <3>2, <3>3
  <2>6. CacheInv'
    <3> SUFFICES ASSUME NEW j \in Keys, cSession[j] # None PROVE CopyOK(j, cSession[j])'
      BY Zenon, <1>1 DEF CacheInv, CopyOK
    <3>1. cSession[j] \in SessionObject /\ CopyOK(j, cSession[j])
      BY Zenon, <1>i, <1>t DEF KubeTypeOK, CacheInv
    <3> QED
      BY Zenon, <1>1, <2>5, <3>1 DEF CopyOK
  <2>7. RecCopyInv'
    <3> SUFFICES ASSUME Active PROVE RecCopyInv'
      BY Zenon, <1>1 DEF RecCopyInv, Active
    <3>1. CopyOK(rec.key, rec.s)
      BY Zenon, <1>i DEF RecCopyInv
    <3>2. CopyOK(rec.key, rec.s)'
      BY Zenon, <1>1, <1>a, <2>5, <3>1 DEF CopyOK
    <3> QED
      BY Zenon, <1>1, <1>i, <3>2 DEF RecCopyInv
  <2>8. ObjectInv'
    <3>0. NoLeakedPod'
      <4>1. \A j \in Keys : LivePod(j) => session[j] # None /\ Owned(j, pod[j].owner)
        BY Zenon, <1>i DEF ObjectInv, NoLeakedPod, Owned
      <4>2. \A j \in Keys : LivePod(j) => session'[j] = session[j]
        BY Zenon, <1>4, <2>2, <4>1
      <4> QED
        BY Zenon, <1>1, <1>i, <4>2 DEF ObjectInv, NoLeakedPod, LivePod, Owned
    <3>1. IsolationBeforePod'
      BY Zenon, <1>1, <1>i DEF ObjectInv, IsolationBeforePod, LivePod
    <3>2. AllowlistFollowsSession'
      <4>1. \A ip \in IPs : allow[ip] \in Keys \cup {None}
        BY Zenon, <1>t DEF RecTypeOK
      <4> QED
        BY ZenonT(40), <1>1, <1>4, <1>i, <2>2, <4>1 DEF ObjectInv, AllowlistFollowsSession
    <3> QED
      BY Zenon, <3>0, <3>1, <3>2 DEF ObjectInv
  <2> QED
    BY Zenon, <1>2, <2>4, <2>6, <2>7, <2>8
<1>5. CASE DeleteSession(k) /\ UNCHANGED uid
  <2>1. SessionInv' /\ CacheInv' /\ ObjectInv'
    BY Zenon, <1>1, <1>5, <1>i, <1>t, DeleteInv
  <2>2. RecCopyInv'
    <3> SUFFICES ASSUME Active PROVE RecCopyInv'
      BY Zenon, <1>1 DEF RecCopyInv, Active
    <3> DEFINE j == rec.key
    <3>1. /\ session[j] # None /\ session[j].fin =>
                session'[j] # None /\ session'[j].uid = session[j].uid /\ session'[j].fin
          /\ session'[j] # None =>
                /\ session[j] # None /\ session'[j].uid = session[j].uid
                /\ session[j].del => session'[j].del
      BY Zenon, <1>5, <1>a, <1>t, DeleteMarks
    <3> QED
      BY Zenon, <1>1, <1>5, <1>i, <3>1 DEF RecCopyInv, CopyOK
  <2> QED
    BY Zenon, <1>2, <2>1, <2>2
<1>6. CASE ReaperWrites(k)
  <2>1. session[k] \in SessionObject /\ session[k] # None /\ ~Terminating(session[k]) /\ UNCHANGED uid
    BY Zenon, <1>6, <1>t DEF ReaperWrites
  <2>2. PICK new \in SessionObject :
            /\ session' = [session EXCEPT ![k] = new]
            /\ new.uid = session[k].uid /\ new.fin = session[k].fin /\ new.del = session[k].del
            /\ new.phase = session[k].phase \/ new.phase = "Idle"
    <3>1. CASE session' = [session EXCEPT ![k].desired = TRUE]
      <4>1. LET n == [session[k] EXCEPT !.desired = TRUE]
            IN /\ n \in SessionObject /\ n.uid = session[k].uid /\ n.fin = session[k].fin
               /\ n.del = session[k].del /\ n.phase = session[k].phase
        BY Zenon, <2>1 DEF SessionObject
      <4> QED
        BY Zenon, <3>1, <4>1
    <3>2. CASE session' = [session EXCEPT ![k].phase = "Idle"]
      <4>1. LET n == [session[k] EXCEPT !.phase = "Idle"]
            IN /\ n \in SessionObject /\ n.uid = session[k].uid /\ n.fin = session[k].fin
               /\ n.del = session[k].del /\ n.phase = "Idle"
        BY Zenon, <2>1 DEF SessionObject, Phases
      <4> QED
        BY Zenon, <3>2, <4>1
    <3> QED
      BY Zenon, <1>6, <3>1, <3>2 DEF ReaperWrites
  <2>3. session'[k] = new /\ new # None /\ \A j \in Keys : j # k => session'[j] = session[j]
    BY Zenon, <1>t, <2>2
  <2>4. Kept
    BY Zenon, <2>1, <2>2, <2>3 DEF Kept
  <2>5. CacheInv' /\ ObjectInv'
    BY Zenon, <1>1, <1>i, <1>t, <2>1, <2>4, KeptInv
  <2>6. SessionInv'
    <3>1. new.phase # "Terminating"
      BY Zenon, <1>i, <2>1, <2>2 DEF SessionInv
    <3> QED
      BY <1>i, <2>1, <2>2, <2>3, <3>1 DEF SessionInv, Terminating
  <2>7. RecCopyInv'
    <3>1. CASE Active
      BY Zenon, <1>1, <1>a, <1>i, <2>1, <2>4, <3>1, SameCopy
    <3>2. CASE ~Active
      BY Zenon, <1>1, <3>2 DEF RecCopyInv, Active
    <3> QED
      BY Zenon, <3>1, <3>2
  <2> QED
    BY Zenon, <1>2, <2>5, <2>6, <2>7
<1> QED
  BY Zenon, <1>3, <1>4, <1>5, <1>6 DEF Environment, GatewayWrites, CreateSession

\* The invariant holds at the start and every step keeps it.
LEMMA InvInit == Init => IInv
<1> SUFFICES ASSUME Init PROVE IInv
  BY Zenon
<1>1. TypeInv
  BY Zenon, InitTypes
<1>2. ~Active /\ rec.pc = "idle"
  BY Zenon DEF Init, IdleRec, Active
<1>3. SessionInv /\ CacheInv /\ ObjectInv
  BY Zenon DEF Init, KubeInit, SessionInv, CacheInv, CopyOK, ObjectInv, NoLeakedPod, IsolationBeforePod,
      AllowlistFollowsSession, LivePod
<1>4. RecCopyInv /\ RecStepInv
  BY Zenon, <1>2 DEF RecCopyInv, RecStepInv
<1> QED
  BY Zenon, <1>1, <1>3, <1>4 DEF IInv, TypeInv

\* The invariant is inductive: one lemma per conjunct, above.
LEMMA InvNext == IInv /\ [Next]_ctlVars => IInv'
<1> SUFFICES ASSUME IInv, [Next]_ctlVars PROVE IInv'
  BY Zenon
<1>1. TypeInv'
  BY Zenon, NextTypes DEF IInv
<1>2. PodInv'
  BY Zenon, <1>1 DEF TypeInv
<1>3. CASE Abort
  <2>1. SessionInv' /\ CacheInv' /\ ObjectInv'
    BY Zenon, <1>3, SameObjects DEF Abort, kubeVars, IInv
  <2>2. rec'.pc = "backoff"
    BY Zenon, <1>3 DEF Abort, IdleRec
  <2>3. RecCopyInv' /\ RecStepInv'
    BY Zenon, <2>2 DEF Active, RecCopyInv, RecStepInv
  <2> QED
    BY Zenon, <1>1, <1>2, <2>1, <2>3 DEF IInv
<1>4. CASE \E k \in Keys : Reconcile(k) \/ Cluster(k) \/ Environment(k)
  BY Zenon, <1>1, <1>2, <1>4, TerminateInv, BringUpInv, ClusterInv, EnvironmentInv DEF IInv, Reconcile
<1>5. CASE UNCHANGED ctlVars
  <2>1. UNCHANGED <<session, uid, pod, netpol, cSession, rec, allow>>
    BY Zenon, <1>5 DEF ctlVars, kubeVars, recVars
  <2>2. SessionInv' /\ CacheInv' /\ ObjectInv'
    BY Zenon, <2>1, SameObjects DEF IInv
  <2>3. RecCopyInv' /\ RecStepInv'
    BY Zenon, <2>1 DEF IInv, Active, RecCopyInv, RecStepInv, CopyOK, LivePod, Terminating
  <2> QED
    BY Zenon, <1>1, <1>2, <2>2, <2>3 DEF IInv
<1> QED
  BY Zenon, <1>3, <1>4, <1>5 DEF Next

\* Whatever the interleaving of Reconcile with gateways, the reaper, the
\* kubelet and lagging informers, a live pod belongs to the Session that is
\* there and that still has to run its finalizer.
THEOREM PodsAreOwned == Spec => []NoLeakedPod
<1>1. IInv => NoLeakedPod
  BY Zenon DEF IInv, ObjectInv
<1> QED
  BY <1>1, InvInit, InvNext, PTL DEF Spec

\* Every live pod runs under the network policy of its own Session.
THEOREM PodsAreIsolated == Spec => []IsolationBeforePod
<1>1. IInv => IsolationBeforePod
  BY Zenon DEF IInv, ObjectInv
<1> QED
  BY <1>1, InvInit, InvNext, PTL DEF Spec

\* No entry of the egress allowlist outlives the Session it was published for.
THEOREM AllowlistIsCurrent == Spec => []AllowlistFollowsSession
<1>1. IInv => AllowlistFollowsSession
  BY Zenon DEF IInv, ObjectInv
<1> QED
  BY <1>1, InvInit, InvNext, PTL DEF Spec

\* What TerminationIrrevocable says of one step, for one key.
StaysTerminating(k) ==
    /\ session[k] # None
    /\ session[k].phase = "Terminating"
    /\ session'[k] # None
    /\ session'[k].uid = session[k].uid
    => session'[k].phase = "Terminating"

\* A Session that says Terminating is being terminated, so the writers that
\* would give it another phase find their copy outdated.
LEMMA PhaseKept ==
    ASSUME IInv, [Next]_ctlVars, NEW k \in Keys
    PROVE  StaysTerminating(k)
<1> SUFFICES ASSUME session[k] # None, session[k].phase = "Terminating", session'[k] # None,
                    session'[k] # session[k]
             PROVE  session'[k].phase = "Terminating"
  BY Zenon DEF StaysTerminating
<1>1. session \in [Keys -> SessionObject \cup {None}] /\ session[k] \in SessionObject
  BY Zenon DEF IInv, TypeInv, TypeOK, KubeTypeOK
<1>2. Terminating(session[k])
  BY Zenon DEF IInv, SessionInv
<1>3. PICK j \in Keys : Reconcile(j) \/ Cluster(j) \/ Environment(j)
  BY Zenon DEF Next, Abort, ctlVars, kubeVars
<1>4. CASE Reconcile(j)
  <2>1. CASE MarkTerminating(j)
    <3> DEFINE new == [rec.s EXCEPT !.phase = "Terminating"]
    <3>1. rec.s \in SessionObject /\ UpdateSession(j, rec.s, new)
      BY Zenon, <2>1 DEF MarkTerminating, IInv, TypeInv, TypeOK, RecTypeOK
    <3>2. new.phase = "Terminating"
      BY Zenon, <3>1 DEF SessionObject
    <3> QED
      BY Zenon, <1>1, <3>1, <3>2 DEF UpdateSession, Settle
  <2>2. CASE RemoveFinalizer(j)
    <3> DEFINE new == [rec.s EXCEPT !.fin = FALSE]
    <3>1. rec.s \in SessionObject /\ UpdateSession(j, rec.s, new)
      BY Zenon, <2>2 DEF RemoveFinalizer, IInv, TypeInv, TypeOK, RecTypeOK
    <3>2. new.phase = rec.s.phase
      BY Zenon, <3>1 DEF SessionObject
    <3> QED
      BY Zenon, <1>1, <3>1, <3>2 DEF UpdateSession, Settle
  <2>3. CASE AddFinalizer(j) \/ StatusUpdate(j)
    <3>1. ~Terminating(rec.s)
      BY Zenon, <2>3 DEF AddFinalizer, StatusUpdate, IInv, RecStepInv
    <3>2. PICK new : UpdateSession(j, rec.s, new)
      BY Zenon, <2>3 DEF AddFinalizer, StatusUpdate
    <3> QED
      BY Zenon, <1>1, <1>2, <3>1, <3>2 DEF UpdateSession
  <2>4. CASE DeleteTerminated(j)
    <3>1. DeleteSession(j)
      BY Zenon, <2>4 DEF DeleteTerminated
    <3> QED
      BY Zenon, <1>1, <3>1 DEF DeleteSession, SessionObject
  <2>5. CASE \/ Begin(j) \/ CleanupPod(j) \/ CleanupSecret(j) \/ OnCleanup(j)
             \/ ApplyIsolation(j) \/ CreateSessionPod(j) \/ OnReady(j)
    BY Zenon, <2>5 DEF Begin, CleanupPod, CleanupSecret, OnCleanup, ApplyIsolation, CreateSessionPod,
                OnReady, kubeVars
  <2> QED
    BY Zenon, <1>4, <2>1, <2>2, <2>3, <2>4, <2>5 DEF Reconcile
<1>5. CASE Cluster(j)
  BY Zenon, <1>5 DEF Cluster, KubeletStart, KubeletBackoff, KubeletProbe, KubeletExit, PodGone, PodLost,
              CollectGarbage, SyncSession, SyncPod
<1>6. CASE GatewayWrites(j)
  <2>1. session' = session \/ (session[j] = None /\ CreateSession(j)) \/ DeleteSession(j)
    BY Zenon, <1>6 DEF GatewayWrites, CreateSession
  <2>2. CASE session[j] = None /\ CreateSession(j)
    BY Zenon, <1>1, <2>2 DEF CreateSession
  <2>3. CASE DeleteSession(j)
    BY Zenon, <1>1, <2>3 DEF DeleteSession, SessionObject
  <2> QED
    BY Zenon, <2>1, <2>2, <2>3
<1>7. CASE ReaperWrites(j)
  BY Zenon, <1>1, <1>2, <1>7 DEF ReaperWrites
<1> QED
  BY Zenon, <1>3, <1>4, <1>5, <1>6, <1>7 DEF Environment

\* No write of a phase computed from an older copy brings a Session that says
\* Terminating back.
THEOREM TerminationIsFinal == Spec => TerminationIrrevocable
<1>1. IInv /\ [Next]_ctlVars => [\A k \in Keys : StaysTerminating(k)]_ctlVars
  BY Zenon, PhaseKept
<1>2. Spec => [][\A k \in Keys : StaysTerminating(k)]_ctlVars
  BY <1>1, InvInit, InvNext, PTL DEF Spec
<1> QED
  BY Zenon, <1>2 DEF TerminationIrrevocable, StaysTerminating

-----------------------------------------------------------------------------
(***************************************************************************)
(* The whole system.  What gateways and the reaper do to the objects is    *)
(* what SessionReconciler allows its environment, so everything proved of  *)
(* the reconciler holds of the system.  A pod token belongs to one key     *)
(* wherever it is kept.                                                    *)
(***************************************************************************)

\* The copy the reaper took was not terminating; nothing updates the copy.
ReapInv ==
    /\ reap.pc \in {"terminate", "markIdle"} => ~Terminating(reap.s)
    /\ reap.pc = "markIdle" => reap.s.phase = "Ready"

\* Token t, if it is one, was minted for key k.
Of(m, t, k) == t # None => t \in Tokens /\ k \in Keys /\ m[t] = k

\* A token is kept under the key it was minted for: in the Secret and in a pod
\* that runs, in Redis, in a gateway's memory, and with a request.
KubeTokens ==
    \A k \in Keys :
        /\ Of(mint, secret[k], k)
        /\ pod[k] # None /\ pod[k].state \in {"Running", "Ready"} =>
             pod[k].token # None /\ Of(mint, pod[k].token, k)

StoreInv ==
    /\ row \in [Keys -> RowRecord \cup {None}] /\ tok \in [Keys -> Tokens \cup {None}]
    /\ \A k \in Keys : Of(mint, tok[k], k)

MemInv ==
    /\ mem \in [Replicas -> [Keys -> PodRecord \cup {None}]]
    /\ \A r \in Replicas, k \in Keys : mem[r][k] # None => Of(mint, mem[r][k].token, k)

ReqRecord == [pc : ReqSteps, r : Replicas \cup {None}, key : Keys \cup {None}, phase : Phases,
              endpoint : IPs \cup {None}, token : Tokens \cup {None}]

ReqOK(m, x) ==
    /\ x \in ReqRecord
    /\ x.pc # "idle" => x.key \in Keys /\ x.r \in Replicas
    /\ x.pc \in {"getSession", "createSecret", "createSession"} => x.token # None
    /\ x.pc \in {"putReady", "forward"} => x.phase = "Ready"
    /\ Of(m, x.token, x.key)

MgrInv ==
    /\ mint \in [Tokens -> Keys \cup {None}]
    /\ req \in [Requests -> ReqRecord]
    /\ \A q \in Requests : ReqOK(mint, req[q])

SystemInv ==
    /\ TypeInv /\ KubeTokens /\ StoreInv /\ MemInv /\ MgrInv
    /\ ReapTypeOK /\ ReapInv /\ faults \in Scenarios

USE ReplicasAssumption

-----------------------------------------------------------------------------
(***************************************************************************)
(* Every step is a step the reconciler's environment may take.             *)
(***************************************************************************)

\* An update of a Session the reaper read before it was terminating.
LEMMA ReaperUpdates ==
    ASSUME TypeInv, NEW k \in Keys, NEW s \in SessionObject, NEW new \in SessionObject,
           ~Terminating(s), ~new.del, UpdateSession(k, s, new)
    PROVE  \/ session' = session
           \/ /\ session[k] = s /\ session[k] # None /\ ~Terminating(session[k])
              /\ session' = [session EXCEPT ![k] = new]
  BY Zenon DEF UpdateSession, Settle

\* A step of the reaper is one of ReaperWrites, or leaves the objects alone.
LEMMA ReaperSteps ==
    ASSUME SystemInv, ReaperStep, UNCHANGED faults
    PROVE  [Next]_ctlVars
<1>1. CASE ReapTerminate
  <2>1. reap.key \in Keys /\ reap.s \in SessionObject /\ ~Terminating(reap.s)
    BY Zenon, <1>1 DEF ReapTerminate, SystemInv, ReapTypeOK, ReapInv
  <2> DEFINE new == [reap.s EXCEPT !.desired = TRUE]
  <2>2. new \in SessionObject /\ ~new.del
    BY Zenon, <2>1 DEF SessionObject, Terminating
  <2>3. \/ session' = session
        \/ /\ session[reap.key] = reap.s /\ session[reap.key] # None /\ ~Terminating(session[reap.key])
           /\ session' = [session EXCEPT ![reap.key] = new]
    <3>1. UpdateSession(reap.key, reap.s, new)
      BY Zenon, <1>1 DEF ReapTerminate
    <3> HIDE DEF new
    <3> QED
      BY Zenon, <2>1, <2>2, <3>1, ReaperUpdates DEF SystemInv
  <2>4. UNCHANGED <<secret, pod, netpol, uid, cSession, cPod, recVars>>
    BY Zenon, <1>1 DEF ReapTerminate
  <2>5. CASE session' = session
    BY Zenon, <2>4, <2>5 DEF ctlVars, kubeVars
  <2>6. CASE session[reap.key] = reap.s /\ session[reap.key] # None /\ ~Terminating(session[reap.key])
             /\ session' = [session EXCEPT ![reap.key] = new]
    <3>1. ReaperWrites(reap.key)
      BY Zenon, <2>1, <2>4, <2>6 DEF ReaperWrites
    <3> QED
      BY Zenon, <2>1, <3>1 DEF Next, Environment
  <2> QED
    BY Zenon, <2>3, <2>5, <2>6
<1>2. CASE ReapMarkIdle
  <2>1. reap.key \in Keys /\ reap.s \in SessionObject /\ ~Terminating(reap.s) /\ reap.s.phase = "Ready"
    BY Zenon, <1>2 DEF ReapMarkIdle, SystemInv, ReapTypeOK, ReapInv
  <2> DEFINE new == [reap.s EXCEPT !.phase = "Idle"]
  <2>2. new \in SessionObject /\ ~new.del
    BY Zenon, <2>1 DEF SessionObject, Terminating, Phases
  <2>3. \/ session' = session
        \/ /\ session[reap.key] = reap.s /\ session[reap.key] # None /\ ~Terminating(session[reap.key])
           /\ session' = [session EXCEPT ![reap.key] = new]
    <3>1. UpdateSession(reap.key, reap.s, new)
      BY Zenon, <1>2 DEF ReapMarkIdle
    <3> HIDE DEF new
    <3> QED
      BY Zenon, <2>1, <2>2, <3>1, ReaperUpdates DEF SystemInv
  <2>4. UNCHANGED <<secret, pod, netpol, uid, cSession, cPod, recVars>>
    BY Zenon, <1>2 DEF ReapMarkIdle
  <2>5. CASE session' = session
    BY Zenon, <2>4, <2>5 DEF ctlVars, kubeVars
  <2>6. CASE session[reap.key] = reap.s /\ session[reap.key] # None /\ ~Terminating(session[reap.key])
             /\ session' = [session EXCEPT ![reap.key] = new]
    <3>1. ReaperWrites(reap.key)
      BY Zenon, <2>1, <2>4, <2>6 DEF ReaperWrites
    <3> QED
      BY Zenon, <2>1, <3>1 DEF Next, Environment
  <2> QED
    BY Zenon, <2>3, <2>5, <2>6
<1>3. CASE (\E k \in Keys : Sweep(k)) \/ ReapPurge \/ ReapAbort
  BY Zenon, <1>3 DEF Sweep, ReapPurge, ReapAbort
<1> QED
  BY Zenon, <1>1, <1>2, <1>3 DEF ReaperStep

\* A step of a gateway is one of GatewayWrites, or leaves the objects alone:
\* the token of a Secret it creates is one it was given.
LEMMA GatewaySteps ==
    ASSUME SystemInv, Gateways
    PROVE  [Next]_ctlVars
<1>1. UNCHANGED recVars
  BY Zenon DEF Gateways
<1>2. ASSUME NEW k \in Keys, GatewayWrites(k)
      PROVE  Next
  BY Zenon, <1>2 DEF Next, Environment
<1>3. CASE UNCHANGED kubeVars
  BY Zenon, <1>1, <1>3 DEF ctlVars
<1>4. ASSUME NEW q \in Requests, EnsureSecret(q)
      PROVE  Next
  <2>1. req[q].key \in Keys /\ req[q].token \in Tokens
    BY Zenon, <1>4 DEF EnsureSecret, At, SystemInv, MgrInv, ReqOK, ReqRecord
  <2>2. GatewayWrites(req[q].key)
    BY Zenon, <1>1, <1>4, <2>1 DEF EnsureSecret, GatewayWrites
  <2> QED
    BY Zenon, <1>2, <2>1, <2>2
<1>5. ASSUME NEW q \in Requests, EnsureSession(q)
      PROVE  Next
  <2>1. req[q].key \in Keys
    BY Zenon, <1>5 DEF EnsureSession, At, SystemInv, MgrInv, ReqOK, ReqRecord
  <2>2. GatewayWrites(req[q].key)
    BY Zenon, <1>1, <1>5, <2>1 DEF EnsureSession, GatewayWrites
  <2> QED
    BY Zenon, <1>2, <2>1, <2>2
<1>6. ASSUME NEW q \in Requests, ReleaseSession(q)
      PROVE  Next
  <2>1. req[q].key \in Keys
    BY Zenon, <1>6 DEF ReleaseSession, At, SystemInv, MgrInv, ReqOK, ReqRecord
  <2>2. GatewayWrites(req[q].key)
    BY Zenon, <1>1, <1>6, <2>1 DEF ReleaseSession, GatewayWrites
  <2> QED
    BY Zenon, <1>2, <2>1, <2>2
<1>7. ASSUME NEW q \in Requests, EnsurePod(q) \/ Release(q)
      PROVE  UNCHANGED kubeVars \/ EnsureSecret(q) \/ EnsureSession(q) \/ ReleaseSession(q)
  BY Zenon, <1>7 DEF EnsurePod, Release, GetPod, GetPodToken, CheckCaps, PutPending, EnsureGet,
                     Undo, Hold, PutReady, Forward, Purge
<1>8. ASSUME NEW q \in Requests,
             (\E r \in Replicas, k \in Keys : StartRelease(q, r, k)) \/ EnsureError(q) \/ Abandon(q)
      PROVE  UNCHANGED kubeVars
  BY Zenon, <1>8 DEF StartRelease, EnsureError, Abandon
<1>9. (\E r \in Replicas : GatewayCrash(r)) \/ StoreLoss => UNCHANGED kubeVars
  BY Zenon DEF GatewayCrash, StoreLoss
<1> QED
  BY Zenon, <1>3, <1>4, <1>5, <1>6, <1>7, <1>8, <1>9 DEF Gateways

\* The system takes no step the reconciler's module does not know.
LEMMA SystemSteps == SystemInv /\ [SystemNext]_sysVars => [Next]_ctlVars
<1> SUFFICES ASSUME SystemInv, [SystemNext]_sysVars PROVE [Next]_ctlVars
  BY Zenon
<1>1. CASE Controller
  BY Zenon, <1>1 DEF Controller, Next
<1>2. CASE ReaperStep /\ UNCHANGED faults
  BY Zenon, <1>2, ReaperSteps
<1>3. CASE ClusterStep
  BY Zenon, <1>3 DEF ClusterStep, Cluster, Next
<1>4. CASE Gateways
  BY Zenon, <1>4, GatewaySteps
<1>5. CASE UNCHANGED sysVars
  BY Zenon, <1>5 DEF sysVars
<1> QED
  BY Zenon, <1>1, <1>2, <1>3, <1>4, <1>5 DEF SystemNext
-----------------------------------------------------------------------------
(***************************************************************************)
(* What a write to the table, to a gateway's memory or to the state of a   *)
(* request keeps, when newPodToken may have returned one more token.       *)
(***************************************************************************)

MintGrows ==
    /\ mint' \in [Tokens -> Keys \cup {None}]
    /\ \A t \in Tokens, k \in Keys : mint[t] = k => mint'[t] = k

\* A token nobody has seen takes no other key's token away.
LEMMA FreshToken ==
    ASSUME MgrInv, NEW k \in Keys, NEW t \in Tokens, newPodToken(k, t)
    PROVE  MintGrows /\ mint'[t] = k
  BY Zenon DEF MgrInv, newPodToken, MintGrows

\* Without newPodToken nothing is minted.
LEMMA NothingMinted ==
    ASSUME MgrInv, UNCHANGED mint
    PROVE  MintGrows
  BY Zenon DEF MgrInv, MintGrows

\* What a token belongs to, it belongs to after the step.
LEMMA OfKept ==
    ASSUME MintGrows, NEW t, NEW k, Of(mint, t, k)
    PROVE  Of(mint', t, k)
  BY Zenon DEF MintGrows, Of

\* Objects that stay keep their tokens.
LEMMA KubeTokensKept ==
    ASSUME KubeTokens, MintGrows, UNCHANGED <<secret, pod>>
    PROVE  KubeTokens'
  BY Zenon, OfKept DEF KubeTokens

\* A request moves on with a state that is well formed.
LEMMA ReqWrite ==
    ASSUME MgrInv, MintGrows, NEW q \in Requests, NEW x, ReqOK(mint', x),
           req' = [req EXCEPT ![q] = x]
    PROVE  MgrInv'
<1>1. \A p \in Requests : ReqOK(mint', req[p])
  BY Zenon, OfKept DEF MgrInv, ReqOK
<1> QED
  BY Zenon, <1>1 DEF MgrInv, MintGrows, ReqOK

\* Another step of the request with the same pod in its hands.
LEMMA ReqMoves ==
    ASSUME MgrInv, MintGrows, NEW q \in Requests, NEW pc \in ReqSteps \ {"putReady", "forward"},
           req[q].pc # "idle", ReqGoTo(q, pc),
           pc \in {"getSession", "createSecret", "createSession"} => req[q].token # None
    PROVE  MgrInv'
<1>1. req[q] \in ReqRecord /\ ReqOK(mint, req[q])
  BY Zenon DEF MgrInv
<1> DEFINE x == [req[q] EXCEPT !.pc = pc]
<1>2. x \in ReqRecord /\ x.pc = pc /\ x.key = req[q].key /\ x.r = req[q].r /\ x.token = req[q].token
  BY Zenon, <1>1 DEF ReqRecord
<1>3. req' = [req EXCEPT ![q] = x]
  BY Zenon DEF ReqGoTo
<1> HIDE DEF x
<1>4. ReqOK(mint', x)
  BY Zenon, <1>1, <1>2, OfKept DEF ReqOK
<1> QED
  BY Zenon, <1>3, <1>4, ReqWrite

\* A request ends.
LEMMA ReqEnds ==
    ASSUME MgrInv, MintGrows, NEW q \in Requests, Finish(q)
    PROVE  MgrInv'
<1>1. ReqOK(mint', IdleReq)
  BY Zenon DEF ReqOK, ReqRecord, ReqSteps, IdleReq, Phases, Of
<1> QED
  BY Zenon, <1>1, ReqWrite DEF Finish

\* The memory of a gateway: the tokens in it are still minted when more are.
LEMMA MemKept ==
    ASSUME MemInv, MintGrows, UNCHANGED mem
    PROVE  MemInv'
  BY Zenon, OfKept DEF MemInv

\* A gateway remembers, or forgets, a record: its token is of its key.
LEMMA MemWrite ==
    ASSUME MemInv, MintGrows, NEW r \in Replicas, NEW k \in Keys, NEW p \in PodRecord \cup {None},
           p # None => Of(mint', p.token, k), mem' = [mem EXCEPT ![r][k] = p]
    PROVE  MemInv'
<1>1. mem' = [mem EXCEPT ![r] = [mem[r] EXCEPT ![k] = p]]
  BY Zenon
<1>2. mem[r] \in [Keys -> PodRecord \cup {None}]
  BY Zenon DEF MemInv
<1>3. mem' \in [Replicas -> [Keys -> PodRecord \cup {None}]]
  <2> DEFINE m == [mem[r] EXCEPT ![k] = p]
  <2>1. m \in [Keys -> PodRecord \cup {None}]
    BY Zenon, <1>2
  <2>2. mem' = [mem EXCEPT ![r] = m]
    BY Zenon, <1>1
  <2> HIDE DEF m
  <2> QED
    BY Zenon, <2>1, <2>2 DEF MemInv
<1>4. ASSUME NEW s \in Replicas, NEW j \in Keys, mem'[s][j] # None
      PROVE  Of(mint', mem'[s][j].token, j)
  <2>1. CASE s = r /\ j = k
    BY Zenon, <1>1, <1>2, <1>4, <2>1 DEF MemInv
  <2>2. CASE ~(s = r /\ j = k)
    <3>1. mem'[s][j] = mem[s][j]
      <4>1. CASE s # r
        <5>1. mem'[s] = mem[s]
          BY Zenon, <1>1, <4>1 DEF MemInv
        <5> QED
          BY Zenon, <5>1
      <4>2. CASE s = r /\ j # k
        <5>1. mem'[r] = [mem[r] EXCEPT ![k] = p]
          BY Zenon, <1>1 DEF MemInv
        <5> QED
          BY Zenon, <1>2, <4>2, <5>1
      <4> QED
        BY Zenon, <2>2, <4>1, <4>2
    <3> QED
      BY Zenon, <1>4, <3>1, OfKept DEF MemInv
  <2> QED
    BY Zenon, <2>1, <2>2
<1> QED
  BY Zenon, <1>3, <1>4 DEF MemInv

\* A gateway forgets a pod.
LEMMA MemForgets ==
    ASSUME MemInv, MintGrows, NEW r \in Replicas, NEW k \in Keys, Forget(r, k)
    PROVE  MemInv'
  BY Zenon, MemWrite DEF Forget

\* The same for the rows and the stored tokens.
LEMMA StoreKept ==
    ASSUME StoreInv, MintGrows, UNCHANGED <<row, tok>>
    PROVE  StoreInv'
  BY Zenon, OfKept DEF StoreInv

\* PutPod writes row, token and memory of one key.
LEMMA PutPodKeeps ==
    ASSUME StoreInv, MemInv, MintGrows, NEW r \in Replicas, NEW k \in Keys, NEW p \in PodRecord,
           Of(mint', p.token, k), PutPod(r, k, p)
    PROVE  StoreInv' /\ MemInv'
<1>1. p.phase \in Phases /\ p.endpoint \in IPs \cup {None} /\ p.token \in Tokens \cup {None}
  BY Zenon DEF PodRecord
<1>2. row' \in [Keys -> RowRecord \cup {None}]
  BY Zenon, <1>1 DEF PutPod, StoreInv, RowRecord
<1>3. tok' \in [Keys -> Tokens \cup {None}] /\ \A j \in Keys : Of(mint', tok'[j], j)
  BY Zenon, <1>1, OfKept DEF PutPod, StoreInv
<1>4. MemInv'
  BY Zenon, MemWrite DEF PutPod, Remember
<1> QED
  BY Zenon, <1>2, <1>3, <1>4 DEF StoreInv

\* DeletePod removes the row and the token, and forgets the pod.
LEMMA DeletePodKeeps ==
    ASSUME StoreInv, MemInv, MintGrows, NEW r \in Replicas, NEW k \in Keys, DeletePod(r, k)
    PROVE  StoreInv' /\ MemInv'
<1>1. row' \in [Keys -> RowRecord \cup {None}] /\ tok' \in [Keys -> Tokens \cup {None}]
  BY Zenon DEF DeletePod, StoreInv
<1>2. \A j \in Keys : Of(mint', tok'[j], j)
  BY Zenon, OfKept DEF DeletePod, StoreInv, Of
<1>3. MemInv'
  BY Zenon, MemForgets DEF DeletePod
<1> QED
  BY Zenon, <1>1, <1>2, <1>3 DEF StoreInv
-----------------------------------------------------------------------------
(***************************************************************************)
(* The gateways.                                                           *)
(***************************************************************************)

GatewayInv == KubeTokens /\ StoreInv /\ MemInv /\ MgrInv

\* A request that holds nothing.
LEMMA IdleReqType == IdleReq \in ReqRecord /\ IdleReq.token = None
  BY Zenon DEF IdleReq, ReqRecord, ReqSteps, Phases

\* GetPod's first read, of the memory or the row.
LEMMA GetPodKeeps ==
    ASSUME SystemInv, NEW q \in Requests, NEW r \in Replicas, NEW k \in Keys, GetPod(q, r, k)
    PROVE  GatewayInv'
<1>1. MintGrows /\ UNCHANGED <<kubeVars, row, tok>>
  BY Zenon, NothingMinted DEF SystemInv, GetPod
<1>2. KubeTokens' /\ StoreInv'
  BY Zenon, <1>1, KubeTokensKept, StoreKept DEF SystemInv, kubeVars
<1>3. CASE MemHit(r, k) /\ UNCHANGED mem
  <2> DEFINE x == [IdleReq EXCEPT !.r = r, !.key = k, !.pc = "forward", !.phase = mem[r][k].phase,
                                  !.endpoint = mem[r][k].endpoint, !.token = mem[r][k].token]
  <2>1. mem[r][k] \in PodRecord /\ mem[r][k].phase = "Ready" /\ Of(mint, mem[r][k].token, k)
    BY Zenon, <1>3 DEF MemHit, SystemInv, MemInv
  <2>2. ReqOK(mint', x)
    <3>1. "forward" \in ReqSteps /\ mem[r][k].phase \in Phases /\ mem[r][k].endpoint \in IPs \cup {None}
          /\ mem[r][k].token \in Tokens \cup {None}
      BY Zenon, <2>1 DEF ReqSteps, PodRecord
    <3>2. x \in ReqRecord /\ x.r = r /\ x.key = k /\ x.pc = "forward" /\ x.phase = "Ready"
          /\ x.token = mem[r][k].token
      BY Zenon, <2>1, <3>1, IdleReqType DEF ReqRecord
    <3> HIDE DEF x
    <3> QED
      BY Zenon, <1>1, <2>1, <3>2, OfKept DEF ReqOK
  <2>3. req' = [req EXCEPT ![q] = x]
    BY Zenon, <1>3 DEF GetPod
  <2> HIDE DEF x
  <2> QED
    BY Zenon, <1>1, <1>2, <1>3, <2>2, <2>3, ReqWrite, MemKept DEF SystemInv, GatewayInv
<1>4. CASE ~MemHit(r, k) /\ row[k] # None
  <2> DEFINE x == [IdleReq EXCEPT !.r = r, !.key = k, !.pc = "getToken", !.phase = row[k].phase,
                                  !.endpoint = row[k].endpoint, !.token = None]
  <2>1. row[k] \in RowRecord
    BY Zenon, <1>4 DEF SystemInv, StoreInv
  <2>2. ReqOK(mint', x)
    <3>1. "getToken" \in ReqSteps /\ row[k].phase \in Phases /\ row[k].endpoint \in IPs \cup {None}
      BY Zenon, <2>1 DEF ReqSteps, RowRecord
    <3>2. x \in ReqRecord /\ x.r = r /\ x.key = k /\ x.pc = "getToken" /\ x.token = None
      BY Zenon, <3>1, IdleReqType DEF ReqRecord
    <3> HIDE DEF x
    <3> QED
      BY Zenon, <3>2 DEF ReqOK, Of
  <2>3. req' = [req EXCEPT ![q] = x] /\ mem' = mem
    BY Zenon, <1>4 DEF GetPod
  <2> HIDE DEF x
  <2> QED
    BY Zenon, <1>1, <1>2, <2>2, <2>3, ReqWrite, MemKept DEF SystemInv, GatewayInv
<1>5. CASE ~MemHit(r, k) /\ row[k] = None
  <2> DEFINE x == [IdleReq EXCEPT !.r = r, !.key = k, !.pc = "count"]
  <2>1. ReqOK(mint', x)
    <3>1. x \in ReqRecord /\ x.r = r /\ x.key = k /\ x.pc = "count" /\ x.token = None
      <4>1. "count" \in ReqSteps
        BY Zenon DEF ReqSteps
      <4> QED
        BY Zenon, <4>1, IdleReqType DEF ReqRecord
    <3> HIDE DEF x
    <3> QED
      BY Zenon, <3>1 DEF ReqOK, Of
  <2>2. req' = [req EXCEPT ![q] = x] /\ Forget(r, k)
    BY Zenon, <1>5 DEF GetPod
  <2> HIDE DEF x
  <2> QED
    BY Zenon, <1>1, <1>2, <2>1, <2>2, ReqWrite, MemForgets DEF SystemInv, GatewayInv
<1> QED
  BY Zenon, <1>3, <1>4, <1>5 DEF GetPod

\* GetPod's second read, of the token.
LEMMA GetPodTokenKeeps ==
    ASSUME SystemInv, NEW q \in Requests, GetPodToken(q)
    PROVE  GatewayInv'
<1> DEFINE k == req[q].key
           x == [req[q] EXCEPT !.token = tok[k],
                               !.pc = IF req[q].phase = "Ready" THEN "forward" ELSE "hold"]
           p == [PodOf(q) EXCEPT !.token = tok[k]]
<1>1. MintGrows /\ UNCHANGED <<kubeVars, row, tok>>
  BY Zenon, NothingMinted DEF SystemInv, GetPodToken
<1>2. KubeTokens' /\ StoreInv'
  BY Zenon, <1>1, KubeTokensKept, StoreKept DEF SystemInv, kubeVars
<1>3. req[q] \in ReqRecord /\ k \in Keys /\ req[q].r \in Replicas
  BY Zenon DEF GetPodToken, At, SystemInv, MgrInv, ReqOK
<1>4. tok[k] \in Tokens \cup {None} /\ Of(mint', tok[k], k)
  BY Zenon, <1>1, <1>3, OfKept DEF SystemInv, StoreInv
<1>5. ReqOK(mint', x)
  BY Zenon, <1>3, <1>4 DEF ReqOK, ReqRecord, ReqSteps
<1>6. p \in PodRecord /\ p.token = tok[k]
  <2>1. PodOf(q) \in PodRecord
    BY Zenon, <1>3 DEF PodOf, PodRecord, ReqRecord
  <2> QED
    BY Zenon, <1>4, <2>1 DEF PodRecord
<1>7. req' = [req EXCEPT ![q] = x] /\ mem' = [mem EXCEPT ![req[q].r][k] = p]
  BY Zenon DEF GetPodToken, Remember
<1> HIDE DEF x, p
<1>8. MgrInv' /\ MemInv'
  BY Zenon, <1>1, <1>3, <1>4, <1>5, <1>6, <1>7, ReqWrite, MemWrite DEF SystemInv
<1> QED
  BY Zenon, <1>2, <1>8 DEF GatewayInv

\* A row and its token make a record for the memory.
LEMMA WithTokenOK ==
    ASSUME StoreInv, MintGrows, NEW k \in Keys, row[k] # None
    PROVE  /\ WithToken(row[k], tok[k]) \in PodRecord
           /\ Of(mint', WithToken(row[k], tok[k]).token, k)
<1>1. row[k] \in RowRecord /\ tok[k] \in Tokens \cup {None} /\ Of(mint', tok[k], k)
  BY Zenon, OfKept DEF StoreInv
<1> QED
  BY Zenon, <1>1 DEF WithToken, PodRecord, RowRecord

\* Counting the pods remembers what it lists.
LEMMA CountPodsKeeps ==
    ASSUME StoreInv, MemInv, MintGrows, NEW r \in Replicas, CountPods(r)
    PROVE  MemInv'
<1> DEFINE m == [k \in Keys |-> IF row[k] # None /\ ~MemHit(r, k)
                                THEN WithToken(row[k], tok[k]) ELSE mem[r][k]]
<1>1. mem' = [mem EXCEPT ![r] = m]
  BY Zenon DEF CountPods
<1>2. \A k \in Keys : m[k] \in PodRecord \cup {None} /\ (m[k] # None => Of(mint', m[k].token, k))
  BY Zenon, WithTokenOK, OfKept DEF MemInv
<1>3. m \in [Keys -> PodRecord \cup {None}]
  BY Zenon, <1>2
<1> HIDE DEF m
<1>4. mem' \in [Replicas -> [Keys -> PodRecord \cup {None}]]
  BY Zenon, <1>1, <1>3 DEF MemInv
<1>5. ASSUME NEW s \in Replicas, NEW j \in Keys, mem'[s][j] # None
      PROVE  Of(mint', mem'[s][j].token, j)
  BY Zenon, <1>1, <1>2, <1>5, OfKept DEF MemInv
<1> QED
  BY Zenon, <1>4, <1>5 DEF MemInv

\* EnsurePod's other steps: what a request writes is the pod it holds.
LEMMA EnsurePodKeeps ==
    ASSUME SystemInv, NEW q \in Requests, EnsurePod(q)
    PROVE  GatewayInv'
<1> DEFINE k == req[q].key
           r == req[q].r
<1>1. req[q] \in ReqRecord /\ ReqOK(mint, req[q]) /\ StoreInv /\ MemInv /\ MgrInv /\ KubeTokens
  BY Zenon DEF SystemInv, MgrInv
<1>2. req[q].pc # "idle" => k \in Keys /\ r \in Replicas
  BY Zenon, <1>1 DEF ReqOK
<1>3. PodOf(q) \in PodRecord /\ PodOf(q).token = req[q].token
  BY Zenon, <1>1 DEF PodOf, PodRecord, ReqRecord
<1>4. UNCHANGED mint => MintGrows
  BY Zenon, <1>1, NothingMinted
<1> HIDE DEF k, r
<1>5. CASE CheckCaps(q)
  <2>1. MintGrows /\ UNCHANGED <<kubeVars, row, tok>> /\ r \in Replicas /\ req[q].pc # "idle"
    BY Zenon, <1>2, <1>4, <1>5 DEF CheckCaps, At
  <2>2. MgrInv'
    <3>1. CASE ReqGoTo(q, "putPending")
      BY Zenon, <1>1, <2>1, <3>1, ReqMoves DEF ReqSteps
    <3>2. CASE Finish(q)
      BY Zenon, <1>1, <2>1, <3>2, ReqEnds
    <3> QED
      BY Zenon, <1>5, <3>1, <3>2 DEF CheckCaps
  <2>3. MemInv'
    BY Zenon, <1>1, <1>5, <2>1, CountPodsKeeps DEF CheckCaps, r
  <2> QED
    BY Zenon, <1>1, <2>1, <2>2, <2>3, KubeTokensKept, StoreKept DEF GatewayInv, kubeVars
<1>6. CASE PutPending(q)
  <2>1. PICK t \in Tokens : /\ newPodToken(k, t)
                            /\ req' = [req EXCEPT ![q].token = t, ![q].pc = "getSession"]
                            /\ PutPod(r, k, [PodOf(q) EXCEPT !.token = t])
    BY Zenon, <1>6 DEF PutPending, k, r
  <2>2. k \in Keys /\ r \in Replicas /\ UNCHANGED kubeVars
    BY Zenon, <1>2, <1>6 DEF PutPending, At
  <2>3. MintGrows /\ Of(mint', t, k)
    BY Zenon, <1>1, <2>1, <2>2, FreshToken DEF Of
  <2> DEFINE x == [req[q] EXCEPT !.token = t, !.pc = "getSession"]
             p == [PodOf(q) EXCEPT !.token = t]
  <2>4. ReqOK(mint', x)
    <3>1. "getSession" \in ReqSteps
      BY Zenon DEF ReqSteps
    <3>2. x \in ReqRecord /\ x.pc = "getSession" /\ x.token = t /\ x.key = k /\ x.r = r
      BY Zenon, <1>1, <3>1 DEF ReqRecord, k, r
    <3> HIDE DEF x
    <3> QED
      BY Zenon, <2>2, <2>3, <3>2 DEF ReqOK
  <2>5. p \in PodRecord /\ p.token = t
    BY Zenon, <1>3 DEF PodRecord
  <2>6. req' = [req EXCEPT ![q] = x] /\ PutPod(r, k, p)
    BY Zenon, <2>1
  <2> HIDE DEF x, p
  <2>7. StoreInv' /\ MemInv'
    BY Zenon, <1>1, <2>2, <2>3, <2>5, <2>6, PutPodKeeps
  <2>8. MgrInv'
    BY Zenon, <1>1, <2>3, <2>4, <2>6, ReqWrite
  <2> QED
    BY Zenon, <1>1, <2>2, <2>3, <2>7, <2>8, KubeTokensKept DEF GatewayInv, kubeVars
<1>7. CASE EnsureGet(q)
  <2>1. MintGrows /\ UNCHANGED <<kubeVars, row, tok, mem>> /\ req[q].pc # "idle" /\ req[q].token # None
    BY Zenon, <1>1, <1>4, <1>7 DEF EnsureGet, At, tableVars, ReqOK
  <2>2. MgrInv'
    BY Zenon, <1>1, <1>7, <2>1, ReqMoves DEF EnsureGet, ReqSteps
  <2> QED
    BY Zenon, <1>1, <2>1, <2>2, KubeTokensKept, StoreKept, MemKept DEF GatewayInv, kubeVars
<1>8. CASE EnsureSecret(q)
  <2>1. /\ MintGrows /\ UNCHANGED <<pod, row, tok, mem>> /\ req[q].pc # "idle" /\ req[q].token # None
        /\ k \in Keys /\ Of(mint, req[q].token, k)
    BY Zenon, <1>1, <1>2, <1>4, <1>8 DEF EnsureSecret, At, tableVars, ReqOK, k
  <2>2. MgrInv'
    BY Zenon, <1>1, <1>8, <2>1, ReqMoves DEF EnsureSecret, ReqSteps
  <2>3. secret \in [Keys -> Tokens \cup {None}]
    BY Zenon DEF SystemInv, TypeInv, TypeOK, KubeTypeOK
  <2>4. \A j \in Keys : Of(mint', secret'[j], j)
    BY Zenon, <1>1, <1>8, <2>1, <2>3, OfKept DEF EnsureSecret, CreateSecret, KubeTokens, k
  <2>5. KubeTokens'
    BY Zenon, <1>1, <2>1, <2>4, OfKept DEF KubeTokens
  <2> QED
    BY Zenon, <1>1, <2>1, <2>2, <2>5, StoreKept, MemKept DEF GatewayInv
<1>9. CASE EnsureSession(q)
  <2>1. MintGrows /\ UNCHANGED <<secret, pod, row, tok, mem>> /\ req[q].pc # "idle"
    BY Zenon, <1>4, <1>9 DEF EnsureSession, At, tableVars
  <2>2. MgrInv'
    BY Zenon, <1>1, <1>9, <2>1, ReqMoves DEF EnsureSession, ReqSteps
  <2> QED
    BY Zenon, <1>1, <2>1, <2>2, KubeTokensKept, StoreKept, MemKept DEF GatewayInv
<1>10. CASE Undo(q)
  <2>1. MintGrows /\ UNCHANGED kubeVars /\ k \in Keys /\ r \in Replicas
    BY Zenon, <1>2, <1>4, <1>10 DEF Undo, At
  <2>2. MgrInv' /\ StoreInv' /\ MemInv'
    BY Zenon, <1>1, <1>10, <2>1, ReqEnds, DeletePodKeeps DEF Undo, k, r
  <2> QED
    BY Zenon, <1>1, <2>1, <2>2, KubeTokensKept DEF GatewayInv, kubeVars
<1>11. CASE Hold(q)
  <2>1. MintGrows /\ UNCHANGED <<kubeVars, row, tok, mem>> /\ req[q].pc # "idle" /\ k \in Keys
    BY Zenon, <1>2, <1>4, <1>11 DEF Hold, At, tableVars
  <2>2. MgrInv'
    <3>1. CASE Finish(q)
      BY Zenon, <1>1, <2>1, <3>1, ReqEnds
    <3>2. CASE ReqGoTo(q, "release")
      BY Zenon, <1>1, <2>1, <3>2, ReqMoves DEF ReqSteps
    <3>3. CASE session[k] # None /\ req' = [req EXCEPT ![q].pc = "putReady", ![q].phase = "Ready",
                                              ![q].endpoint = session[k].endpoint]
      <4>1. session[k] \in SessionObject
        BY Zenon, <2>1, <3>3 DEF SystemInv, TypeInv, TypeOK, KubeTypeOK
      <4>2. session[k].endpoint \in IPs \cup {None} /\ "putReady" \in ReqSteps /\ "Ready" \in Phases
        BY Zenon, <4>1 DEF SessionObject, ReqSteps, Phases
      <4> DEFINE x == [req[q] EXCEPT !.pc = "putReady", !.phase = "Ready", !.endpoint = session[k].endpoint]
      <4>3. x \in ReqRecord /\ x.pc = "putReady" /\ x.phase = "Ready" /\ x.token = req[q].token
            /\ x.key = req[q].key /\ x.r = req[q].r
        BY Zenon, <1>1, <4>2 DEF ReqRecord
      <4>4. req' = [req EXCEPT ![q] = x]
        BY Zenon, <3>3
      <4> HIDE DEF x
      <4>5. ReqOK(mint', x)
        BY Zenon, <1>1, <2>1, <4>3, OfKept DEF ReqOK
      <4> QED
        BY Zenon, <1>1, <2>1, <4>4, <4>5, ReqWrite
    <3> QED
      BY Zenon, <1>11, <3>1, <3>2, <3>3 DEF Hold, k
  <2> QED
    BY Zenon, <1>1, <2>1, <2>2, KubeTokensKept, StoreKept, MemKept DEF GatewayInv, kubeVars
<1>12. CASE PutReady(q)
  <2>1. MintGrows /\ UNCHANGED kubeVars /\ k \in Keys /\ r \in Replicas
    BY Zenon, <1>2, <1>4, <1>12 DEF PutReady, At
  <2>2. Of(mint', PodOf(q).token, k)
    BY Zenon, <1>1, <1>3, <2>1, OfKept DEF ReqOK, k
  <2>3. StoreInv' /\ MemInv'
    BY Zenon, <1>1, <1>3, <1>12, <2>1, <2>2, PutPodKeeps DEF PutReady, k, r
  <2>4. MgrInv'
    <3> DEFINE x == [req[q] EXCEPT !.pc = "forward"]
    <3>1. "forward" \in ReqSteps /\ req[q].phase = "Ready"
      BY Zenon, <1>1, <1>12 DEF ReqSteps, ReqOK, PutReady, At
    <3>2. x \in ReqRecord /\ x.pc = "forward" /\ x.phase = "Ready" /\ x.token = req[q].token
          /\ x.key = req[q].key /\ x.r = req[q].r
      BY Zenon, <1>1, <3>1 DEF ReqRecord
    <3>3. req' = [req EXCEPT ![q] = x]
      BY Zenon, <1>12 DEF PutReady, ReqGoTo
    <3> HIDE DEF x
    <3>4. ReqOK(mint', x)
      BY Zenon, <1>1, <2>1, <3>2, OfKept DEF ReqOK, k, r
    <3> QED
      BY Zenon, <1>1, <2>1, <3>3, <3>4, ReqWrite
  <2> QED
    BY Zenon, <1>1, <2>1, <2>3, <2>4, KubeTokensKept DEF GatewayInv, kubeVars
<1>13. CASE Forward(q)
  <2>1. MintGrows /\ UNCHANGED <<kubeVars, row, tok, mem>>
    BY Zenon, <1>4, <1>13 DEF Forward, tableVars
  <2> QED
    BY Zenon, <1>1, <1>13, <2>1, ReqEnds, KubeTokensKept, StoreKept, MemKept DEF Forward, GatewayInv, kubeVars
<1> QED
  BY Zenon, <1>5, <1>6, <1>7, <1>8, <1>9, <1>10, <1>11, <1>12, <1>13, GetPodKeeps, GetPodTokenKeeps
     DEF EnsurePod

\* Release, and what cuts a request or a gateway short.
LEMMA GatewaysKeep ==
    ASSUME SystemInv, Gateways
    PROVE  GatewayInv'
<1>1. StoreInv /\ MemInv /\ MgrInv /\ KubeTokens
  BY Zenon DEF SystemInv
<1>2. UNCHANGED mint => MintGrows
  BY Zenon, <1>1, NothingMinted
<1>3. ASSUME UNCHANGED <<secret, pod, row, tok, mem, mint>>, MgrInv'
      PROVE  GatewayInv'
  BY Zenon, <1>1, <1>2, <1>3, KubeTokensKept, StoreKept, MemKept DEF GatewayInv
<1>4. ASSUME NEW q \in Requests, ReleaseSession(q)
      PROVE  GatewayInv'
  <2>1. UNCHANGED <<secret, pod, row, tok, mem, mint>> /\ req[q].pc # "idle"
    BY Zenon, <1>4 DEF ReleaseSession, At, tableVars
  <2>2. MgrInv'
    BY Zenon, <1>1, <1>2, <1>4, <2>1, ReqMoves DEF ReleaseSession, ReqSteps
  <2> QED
    BY Zenon, <1>3, <2>1, <2>2
<1>5. ASSUME NEW q \in Requests, Purge(q)
      PROVE  GatewayInv'
  <2>1. UNCHANGED <<kubeVars, mint>> /\ req[q].key \in Keys /\ req[q].r \in Replicas
    BY Zenon, <1>1, <1>5 DEF Purge, At, MgrInv, ReqOK
  <2>2. MgrInv' /\ StoreInv' /\ MemInv'
    BY Zenon, <1>1, <1>2, <1>5, <2>1, ReqEnds, DeletePodKeeps DEF Purge
  <2> QED
    BY Zenon, <1>1, <1>2, <2>1, <2>2, KubeTokensKept DEF GatewayInv, kubeVars
<1>6. ASSUME NEW q \in Requests, NEW r \in Replicas, NEW k \in Keys, StartRelease(q, r, k)
      PROVE  GatewayInv'
  <2>1. UNCHANGED <<kubeVars, row, tok, mint>> /\ MintGrows
    BY Zenon, <1>2, <1>6 DEF StartRelease
  <2>2. MemInv'
    <3>1. CASE mem' = mem
      BY Zenon, <1>1, <2>1, <3>1, MemKept
    <3>2. CASE row[k] # None /\ Remember(r, k, WithToken(row[k], tok[k]))
      <4> DEFINE p == WithToken(row[k], tok[k])
      <4>1. p \in PodRecord /\ Of(mint', p.token, k)
        BY Zenon, <1>1, <2>1, <3>2, WithTokenOK
      <4>2. mem' = [mem EXCEPT ![r][k] = p]
        BY Zenon, <3>2 DEF Remember
      <4> HIDE DEF p
      <4> QED
        BY Zenon, <1>1, <2>1, <4>1, <4>2, MemWrite
    <3> QED
      BY Zenon, <1>6, <3>1, <3>2 DEF StartRelease
  <2>3. MgrInv'
    <3> DEFINE x == [IdleReq EXCEPT !.pc = "release", !.r = r, !.key = k]
    <3>1. "release" \in ReqSteps
      BY Zenon DEF ReqSteps
    <3>2. x \in ReqRecord /\ x.r = r /\ x.key = k /\ x.pc = "release" /\ x.token = None
      BY Zenon, <3>1, IdleReqType DEF ReqRecord
    <3>3. req' = [req EXCEPT ![q] = x]
      BY Zenon, <1>6 DEF StartRelease
    <3> HIDE DEF x
    <3>4. ReqOK(mint', x)
      BY Zenon, <3>2 DEF ReqOK, Of
    <3> QED
      BY Zenon, <1>1, <2>1, <3>3, <3>4, ReqWrite
  <2> QED
    BY Zenon, <1>1, <2>1, <2>2, <2>3, KubeTokensKept, StoreKept DEF GatewayInv, kubeVars
<1>7. ASSUME NEW q \in Requests, EnsureError(q)
      PROVE  GatewayInv'
  <2>1. UNCHANGED <<secret, pod, row, tok, mem, mint>> /\ req[q].pc # "idle"
    BY Zenon, <1>7 DEF EnsureError, tableVars, kubeVars
  <2>2. MgrInv'
    BY Zenon, <1>1, <1>2, <1>7, <2>1, ReqMoves DEF EnsureError, ReqSteps
  <2> QED
    BY Zenon, <1>3, <2>1, <2>2
<1>8. ASSUME NEW q \in Requests, Abandon(q)
      PROVE  GatewayInv'
  <2>1. UNCHANGED <<secret, pod, row, tok, mem, mint>>
    BY Zenon, <1>8 DEF Abandon, tableVars, kubeVars
  <2>2. MgrInv'
    BY Zenon, <1>1, <1>2, <1>8, <2>1, ReqEnds DEF Abandon
  <2> QED
    BY Zenon, <1>3, <2>1, <2>2
<1>9. ASSUME NEW r \in Replicas, GatewayCrash(r)
      PROVE  GatewayInv'
  <2>1. UNCHANGED <<kubeVars, row, tok, mint>> /\ MintGrows
    BY Zenon, <1>2, <1>9 DEF GatewayCrash
  <2>2. MemInv'
    <3> DEFINE m == [k \in Keys |-> None]
    <3>1. mem' = [mem EXCEPT ![r] = m] /\ m \in [Keys -> PodRecord \cup {None}] /\ \A k \in Keys : m[k] = None
      BY Zenon, <1>9 DEF GatewayCrash
    <3> HIDE DEF m
    <3>2. mem' \in [Replicas -> [Keys -> PodRecord \cup {None}]]
      BY Zenon, <1>1, <3>1 DEF MemInv
    <3>3. ASSUME NEW s \in Replicas, NEW j \in Keys, mem'[s][j] # None
          PROVE  Of(mint', mem'[s][j].token, j)
      BY Zenon, <1>1, <2>1, <3>1, <3>3, OfKept DEF MemInv
    <3> QED
      BY Zenon, <3>2, <3>3 DEF MemInv
  <2>3. MgrInv'
    <3>1. ReqOK(mint', IdleReq)
      BY Zenon, IdleReqType DEF ReqOK, IdleReq, Of
    <3>2. \A q \in Requests : req'[q] \in ReqRecord /\ ReqOK(mint', req'[q])
      BY Zenon, <1>1, <1>9, <2>1, <3>1, IdleReqType, OfKept DEF MgrInv, ReqOK, GatewayCrash
    <3>3. req' \in [Requests -> ReqRecord]
      BY Zenon, <1>9, <3>2 DEF GatewayCrash
    <3> QED
      BY Zenon, <2>1, <3>2, <3>3 DEF MgrInv, MintGrows
  <2> QED
    BY Zenon, <1>1, <2>1, <2>2, <2>3, KubeTokensKept, StoreKept DEF GatewayInv, kubeVars
<1>10. ASSUME StoreLoss
       PROVE  GatewayInv'
  <2>1. UNCHANGED <<kubeVars, mem, req, mint>> /\ MintGrows
    BY Zenon, <1>2, <1>10 DEF StoreLoss, LoseStore, mgrVars
  <2>2. StoreInv'
    BY Zenon, <1>10 DEF StoreLoss, LoseStore, StoreInv, Of
  <2>3. MgrInv'
    BY Zenon, <1>1, <2>1 DEF MgrInv
  <2> QED
    BY Zenon, <1>1, <2>1, <2>2, <2>3, KubeTokensKept, MemKept DEF GatewayInv, kubeVars
<1> QED
  BY Zenon, <1>4, <1>5, <1>6, <1>7, <1>8, <1>9, <1>10, EnsurePodKeeps DEF Gateways, Release

-----------------------------------------------------------------------------
(***************************************************************************)
(* The controller and the cluster.                                         *)
(***************************************************************************)

\* A pod keeps its token when its state changes, unless it starts to run.
LEMMA PodWrite ==
    ASSUME SystemInv, NEW k \in Keys, NEW new, UNCHANGED <<secret, mint>>,
           pod' = [pod EXCEPT ![k] = new],
           new # None /\ new.state \in {"Running", "Ready"} =>
             new.token # None /\ Of(mint, new.token, k)
    PROVE  KubeTokens'
<1>1. pod \in [Keys -> PodObject \cup {None}]
  BY Zenon DEF SystemInv, TypeInv, TypeOK, KubeTypeOK
<1> QED
  BY Zenon, <1>1 DEF SystemInv, KubeTokens

\* The state of a pod changes: it runs, if at all, with the token it has.
LEMMA PodChange ==
    ASSUME SystemInv, NEW k \in Keys, NEW st, UNCHANGED <<secret, mint>>, pod[k] # None,
           pod' = [pod EXCEPT ![k].state = st],
           st \in {"Running", "Ready"} => pod[k].state \in {"Running", "Ready"}
    PROVE  KubeTokens'
<1> DEFINE new == [pod[k] EXCEPT !.state = st]
<1>1. pod[k] \in PodObject
  BY Zenon DEF SystemInv, TypeInv, TypeOK, KubeTypeOK
<1>2. new.state = st /\ new.token = pod[k].token
  BY Zenon, <1>1 DEF PodObject
<1>3. pod' = [pod EXCEPT ![k] = new]
  BY Zenon
<1> HIDE DEF new
<1> QED
  BY Zenon, <1>2, <1>3, PodWrite DEF SystemInv, KubeTokens

\* A pod is marked for deletion, or was not there.
LEMMA PodDelete ==
    ASSUME SystemInv, NEW k \in Keys, UNCHANGED <<secret, mint>>, DeletePodObject(k)
    PROVE  KubeTokens'
<1>1. CASE pod[k] = None
  BY Zenon, <1>1 DEF DeletePodObject, SystemInv, KubeTokens
<1>2. CASE pod[k] # None
  <2> DEFINE new == [pod[k] EXCEPT !.del = TRUE]
  <2>1. pod[k] \in PodObject
    BY Zenon, <1>2 DEF SystemInv, TypeInv, TypeOK, KubeTypeOK
  <2>2. new.state = pod[k].state /\ new.token = pod[k].token
    BY Zenon, <2>1 DEF PodObject
  <2>3. pod' = [pod EXCEPT ![k] = new]
    BY Zenon, <1>2 DEF DeletePodObject
  <2> HIDE DEF new
  <2> QED
    BY Zenon, <1>2, <2>2, <2>3, PodWrite DEF SystemInv, KubeTokens
<1> QED
  BY Zenon, <1>1, <1>2

\* Reconcile creates pods that do not run yet, and only takes tokens away.
LEMMA ControllerTokens ==
    ASSUME SystemInv, Controller
    PROVE  KubeTokens'
<1>1. UNCHANGED mint
  BY Zenon DEF Controller, mgrVars
<1>2. ASSUME UNCHANGED <<secret, pod>>
      PROVE  KubeTokens'
  BY Zenon, <1>1, <1>2 DEF SystemInv, KubeTokens
<1>3. ASSUME NEW k \in Keys, CleanupPod(k)
      PROVE  KubeTokens'
  BY Zenon, <1>1, <1>3, PodDelete DEF CleanupPod
<1>4. ASSUME NEW k \in Keys, CleanupSecret(k)
      PROVE  KubeTokens'
  <2>1. secret \in [Keys -> Tokens \cup {None}]
    BY Zenon DEF SystemInv, TypeInv, TypeOK, KubeTypeOK
  <2> QED
    BY Zenon, <1>1, <1>4, <2>1 DEF CleanupSecret, SystemInv, KubeTokens, Of
<1>5. ASSUME NEW k \in Keys, CreateSessionPod(k)
      PROVE  KubeTokens'
  <2>1. CASE pod' = pod
    BY Zenon, <1>2, <1>5, <2>1 DEF CreateSessionPod
  <2>2. CASE pod' = [pod EXCEPT ![k] = NewPod(rec.s.uid)]
    <3>1. NewPod(rec.s.uid).state = "Pending"
      BY Zenon DEF NewPod
    <3>2. UNCHANGED secret
      BY Zenon, <1>5 DEF CreateSessionPod
    <3> QED
      BY Zenon, <1>1, <2>2, <3>1, <3>2, PodWrite
  <2> QED
    BY Zenon, <1>5, <2>1, <2>2 DEF CreateSessionPod, CreatePod
<1>6. ASSUME NEW k \in Keys, Reconcile(k)
      PROVE  UNCHANGED <<secret, pod>> \/ CleanupPod(k) \/ CleanupSecret(k) \/ CreateSessionPod(k)
  BY Zenon, <1>6 DEF Reconcile, Begin, MarkTerminating, OnCleanup, DeleteTerminated, RemoveFinalizer,
                     AddFinalizer, ApplyIsolation, OnReady, StatusUpdate, kubeVars
<1>7. Abort => UNCHANGED <<secret, pod>>
  BY Zenon DEF Abort, kubeVars
<1> QED
  BY Zenon, <1>2, <1>3, <1>4, <1>5, <1>6, <1>7 DEF Controller

\* A pod that starts to run has the token of its key's Secret.
LEMMA ClusterTokens ==
    ASSUME SystemInv, ClusterStep
    PROVE  KubeTokens'
<1>1. UNCHANGED mint
  BY Zenon DEF ClusterStep, mgrVars
<1>2. ASSUME NEW k \in Keys, KubeletStart(k)
      PROVE  KubeTokens'
  <2>1. PICK ip \in IPs : pod' = [pod EXCEPT ![k].state = "Ready", ![k].ip = ip, ![k].token = secret[k]]
    BY Zenon, <1>2 DEF KubeletStart, FreeIPs
  <2>2. pod[k] \in PodObject /\ secret[k] # None /\ UNCHANGED secret
    BY Zenon, <1>2 DEF KubeletStart, SystemInv, TypeInv, TypeOK, KubeTypeOK
  <2> DEFINE new == [pod[k] EXCEPT !.state = "Ready", !.ip = ip, !.token = secret[k]]
  <2>3. pod' = [pod EXCEPT ![k] = new]
    BY Zenon, <2>1
  <2>4. new.token = secret[k]
    BY Zenon, <2>2 DEF PodObject
  <2> HIDE DEF new
  <2> QED
    BY Zenon, <1>1, <2>2, <2>3, <2>4, PodWrite DEF SystemInv, KubeTokens
<1>3. ASSUME NEW k \in Keys, KubeletBackoff(k) \/ KubeletProbe(k) \/ KubeletExit(k)
      PROVE  KubeTokens'
  BY Zenon, <1>1, <1>3, PodChange DEF KubeletBackoff, KubeletProbe, KubeletExit
<1>4. ASSUME NEW k \in Keys, PodGone(k) \/ PodLost(k)
      PROVE  KubeTokens'
  BY Zenon, <1>1, <1>4, PodWrite DEF PodGone, PodLost
<1>5. ASSUME NEW k \in Keys, CollectGarbage(k)
      PROVE  KubeTokens'
  <2>1. CASE UNCHANGED pod
    BY Zenon, <1>1, <1>5, <2>1 DEF CollectGarbage, SystemInv, KubeTokens
  <2>2. CASE DeletePodObject(k)
    BY Zenon, <1>1, <1>5, <2>2, PodDelete DEF CollectGarbage
  <2> QED
    BY Zenon, <1>5, <2>1, <2>2 DEF CollectGarbage
<1>6. ASSUME NEW k \in Keys, SyncSession(k) \/ SyncPod(k)
      PROVE  KubeTokens'
  BY Zenon, <1>1, <1>6 DEF SyncSession, SyncPod, SystemInv, KubeTokens
<1> QED
  BY Zenon, <1>2, <1>3, <1>4, <1>5, <1>6 DEF ClusterStep

-----------------------------------------------------------------------------
(***************************************************************************)
(* The reaper.                                                             *)
(***************************************************************************)

\* The reaper keeps a copy that was Ready or not terminating when it took it.
LEMMA ReaperKeeps ==
    ASSUME SystemInv, ReaperStep
    PROVE  ReapTypeOK' /\ ReapInv' /\ GatewayInv'
<1>1. /\ StoreInv /\ MemInv /\ MgrInv /\ KubeTokens /\ ReapTypeOK /\ ReapInv
      /\ cSession \in [Keys -> SessionObject \cup {None}]
  BY Zenon DEF SystemInv, TypeInv, TypeOK, KubeTypeOK
<1>2. ReapTypeOK' /\ ReapInv'
  <2>1. ASSUME NEW k \in Keys, Sweep(k)
        PROVE  ReapTypeOK' /\ ReapInv'
    <3>1. cSession[k] \in SessionObject /\ ~Terminating(cSession[k])
      BY Zenon, <1>1, <2>1 DEF Sweep
    <3>2. CASE reap' = [pc |-> "terminate", key |-> k, s |-> cSession[k]]
      BY Zenon, <3>1, <3>2 DEF ReapTypeOK, ReapInv
    <3>3. CASE cSession[k].phase = "Ready" /\ reap' = [pc |-> "markIdle", key |-> k, s |-> cSession[k]]
      BY Zenon, <3>1, <3>3 DEF ReapTypeOK, ReapInv
    <3> QED
      BY Zenon, <2>1, <3>2, <3>3 DEF Sweep
  <2>2. CASE reap' = IdleReap
    BY Zenon, <2>2 DEF IdleReap, ReapTypeOK, ReapInv
  <2>3. CASE reap.pc = "terminate" /\ reap' = [reap EXCEPT !.pc = "purge"]
    BY Zenon, <1>1, <2>3 DEF ReapTypeOK, ReapInv
  <2> QED
    BY Zenon, <2>1, <2>2, <2>3 DEF ReaperStep, ReapTerminate, ReapPurge, ReapMarkIdle, ReapAbort
<1>3. UNCHANGED <<secret, pod, mem, req, mint>>
  BY Zenon DEF ReaperStep, Sweep, ReapTerminate, ReapPurge, ReapMarkIdle, ReapAbort, ctlVars, kubeVars,
               tableVars, mgrVars
<1>4. MintGrows /\ KubeTokens' /\ MemInv' /\ MgrInv'
  BY Zenon, <1>1, <1>3, NothingMinted, KubeTokensKept, MemKept DEF MgrInv
<1>5. StoreInv'
  <2>1. CASE UNCHANGED <<row, tok>>
    BY Zenon, <1>1, <1>4, <2>1, StoreKept
  <2>2. CASE ReapPurge
    BY Zenon, <1>1, <1>3, <2>2 DEF ReapPurge, StoreInv, Of
  <2> QED
    BY Zenon, <2>1, <2>2 DEF ReaperStep, Sweep, ReapTerminate, ReapMarkIdle, ReapAbort, tableVars
<1> QED
  BY Zenon, <1>2, <1>4, <1>5 DEF GatewayInv

-----------------------------------------------------------------------------
(***************************************************************************)
(* The system.                                                             *)
(***************************************************************************)

\* The initial state satisfies the invariant.
LEMMA SystemInvInit == SystemInit => SystemInv
<1> SUFFICES ASSUME SystemInit PROVE SystemInv
  BY Zenon
<1>1. TypeInv
  BY Zenon, InitTypes DEF SystemInit
<1>2. KubeTokens /\ StoreInv /\ MemInv
  BY Zenon DEF SystemInit, Init, KubeInit, TableInit, MgrInit, KubeTokens, StoreInv, MemInv, Of
<1>3. MgrInv
  <2>1. ReqOK(mint, IdleReq)
    BY Zenon, IdleReqType DEF ReqOK, IdleReq, Of
  <2> QED
    BY Zenon, <2>1, IdleReqType DEF SystemInit, MgrInit, MgrInv
<1>4. ReapTypeOK /\ ReapInv /\ faults \in Scenarios
  BY Zenon DEF SystemInit, IdleReap, ReapTypeOK, ReapInv
<1> QED
  BY Zenon, <1>1, <1>2, <1>3, <1>4 DEF SystemInv

\* Every step of the system preserves it.
LEMMA SystemInvNext == SystemInv /\ [SystemNext]_sysVars => SystemInv'
<1> SUFFICES ASSUME SystemInv, [SystemNext]_sysVars PROVE SystemInv'
  BY Zenon
<1>1. TypeInv'
  BY Zenon, SystemSteps, NextTypes DEF SystemInv
<1>2. faults' \in Scenarios
  BY Zenon DEF SystemNext, sysVars, SystemInv
<1>3. ASSUME UNCHANGED <<tableVars, mgrVars>>
      PROVE  StoreInv' /\ MemInv' /\ MgrInv'
  BY Zenon, <1>3 DEF tableVars, mgrVars, SystemInv, StoreInv, MemInv, MgrInv
<1>4. ASSUME UNCHANGED reap
      PROVE  ReapTypeOK' /\ ReapInv'
  BY Zenon, <1>4 DEF SystemInv, ReapTypeOK, ReapInv
<1>5. CASE Controller
  BY Zenon, <1>1, <1>2, <1>3, <1>4, <1>5, ControllerTokens DEF Controller, SystemInv
<1>6. CASE ReaperStep
  BY Zenon, <1>1, <1>2, <1>6, ReaperKeeps DEF SystemInv, GatewayInv
<1>7. CASE ClusterStep
  BY Zenon, <1>1, <1>2, <1>3, <1>4, <1>7, ClusterTokens DEF ClusterStep, SystemInv
<1>8. CASE Gateways
  BY Zenon, <1>1, <1>2, <1>4, <1>8, GatewaysKeep DEF Gateways, SystemInv, GatewayInv
<1>9. CASE UNCHANGED sysVars
  <2>1. KubeTokens'
    BY Zenon, <1>9 DEF sysVars, ctlVars, kubeVars, mgrVars, SystemInv, KubeTokens
  <2> QED
    BY Zenon, <1>1, <1>2, <1>3, <1>4, <1>9, <2>1 DEF sysVars, SystemInv
<1> QED
  BY Zenon, <1>5, <1>6, <1>7, <1>8, <1>9 DEF SystemNext

\* The objects, the routing table, the requests and the reaper keep their
\* types, whatever fails in between.
THEOREM SystemTypeCorrect == SystemSpec => []SystemTypeOK
<1>1. SystemInv => SystemTypeOK
  BY Zenon DEF SystemInv, SystemTypeOK, TypeInv, StoreInv, MemInv, MgrInv, ReqOK, ReqRecord, TableTypeOK,
               MgrTypeOK
<1> QED
  BY <1>1, SystemInvInit, SystemInvNext, PTL DEF SystemSpec

\* The code of the gateways and of the reaper does to the objects only what
\* module SessionReconciler assumes of its environment: a sweep writes only to
\* a Session that still is what it read, and a gateway creates a Secret only
\* with a token in its hands.
THEOREM LifecycleRefinesReconciler == SystemSpec => Spec
<1>1. SystemInit => Init
  BY Zenon DEF SystemInit
<1> QED
  BY <1>1, SystemInvInit, SystemInvNext, SystemSteps, PTL DEF SystemSpec, Spec

\* So pods are never left behind, run only with their policy, are in the proxy's
\* list only while their Session is there, and termination is never taken back,
\* with the gateways and the reaper as they are in the code.
THEOREM SystemKeepsSessions ==
    SystemSpec => [](NoLeakedPod /\ IsolationBeforePod /\ AllowlistFollowsSession) /\ TerminationIrrevocable
  BY LifecycleRefinesReconciler, PodsAreOwned, PodsAreIsolated, AllowlistIsCurrent, TerminationIsFinal, PTL

\* A request whose route is stale is answered by no other pod, even one that
\* has been given the address meanwhile: requirePodToken of another key's
\* wrapper does not know the token.
THEOREM OwnPodAnswers == SystemSpec => []ServedByOwnPod
<1>1. ASSUME SystemInv, NEW q \in Requests, NEW j \in Keys, Serves(q, j)
      PROVE  j = req[q].key
  <2>1. pod[j].token = req[q].token
    BY Zenon, <1>1 DEF Serves, Accepts
  <2>2. pod[j].token # None /\ mint[pod[j].token] = j
    BY Zenon, <1>1 DEF Serves, SystemInv, KubeTokens, Of
  <2>3. req[q].token # None => mint[req[q].token] = req[q].key
    BY Zenon, <1>1 DEF SystemInv, MgrInv, ReqOK, Of
  <2> QED
    BY Zenon, <2>1, <2>2, <2>3
<1>2. SystemInv => ServedByOwnPod
  BY Zenon, <1>1 DEF ServedByOwnPod
<1> QED
  BY <1>2, SystemInvInit, SystemInvNext, PTL DEF SystemSpec
=============================================================================
