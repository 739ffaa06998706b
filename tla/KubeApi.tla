------------------------------- MODULE KubeApi -------------------------------
(***************************************************************************)
(* The Kubernetes objects behind a session pod, one of each per pod key    *)
(* (user, server type), because core.PodKey.Name derives one name from the *)
(* key and every object carries it: the Session, the pod-token Secret, the *)
(* Pod and the NetworkPolicy.  The API server, the kubelet, the garbage    *)
(* collector and the controller's informers are external: they are         *)
(* modelled by what the code in src/internal relies on.                    *)
(*                                                                         *)
(* An update carries the resource version it was read at.  The model       *)
(* compares contents instead: an update succeeds when the object still is  *)
(* what the writer read.  The two differ only for an object that changed   *)
(* and changed back, where the update would succeed after one more read.   *)
(***************************************************************************)
EXTENDS Naturals, Common

CONSTANT MaxUid     \* bound: Sessions created in one behaviour

ASSUME MaxUidAssumption == MaxUid \in Nat

VARIABLES
    session,    \* session[k]: the Session object or None
    secret,     \* secret[k]: the token in the Secret <name>-pod-token, or None
    pod,        \* pod[k]: the Pod object or None
    netpol,     \* netpol[k]: uid of the Session owning the NetworkPolicy, 0 if absent
    uid,        \* uids given out so far
    cSession,   \* the controller's informer copy of session
    cPod        \* the controller's informer copy of pod

kubeVars == <<session, secret, pod, netpol, uid, cSession, cPod>>

-----------------------------------------------------------------------------

\* desired: spec.desiredPhase is Terminating.  fin: the finalizer is set.
\* del: the deletion timestamp is set.
SessionObject ==
    [uid : 1 .. MaxUid, fin : BOOLEAN, del : BOOLEAN, desired : BOOLEAN,
     phase : Phases, endpoint : IPs \cup {None}]

\* Pending: not started.  Backoff: the image cannot be pulled.  Running: up,
\* readiness probe failing.  Failed also stands for Succeeded.
PodStates == {"Pending", "Backoff", "Running", "Ready", "Failed"}

PodObject ==
    [owner : 1 .. MaxUid, state : PodStates, ip : IPs \cup {None},
     token : Tokens \cup {None}, del : BOOLEAN]

ASSUME ObjectsAssumption == None \notin SessionObject \cup PodObject

KubeTypeOK ==
    /\ session \in [Keys -> SessionObject \cup {None}]
    /\ secret \in [Keys -> Tokens \cup {None}]
    /\ pod \in [Keys -> PodObject \cup {None}]
    /\ netpol \in [Keys -> 0 .. MaxUid]
    /\ uid \in 0 .. MaxUid
    /\ cSession \in [Keys -> SessionObject \cup {None}]
    /\ cPod \in [Keys -> PodObject \cup {None}]

KubeInit ==
    /\ session = [k \in Keys |-> None]
    /\ secret = [k \in Keys |-> None]
    /\ pod = [k \in Keys |-> None]
    /\ netpol = [k \in Keys |-> 0]
    /\ uid = 0
    /\ cSession = [k \in Keys |-> None]
    /\ cPod = [k \in Keys |-> None]

-----------------------------------------------------------------------------
(***************************************************************************)
(* API calls.  Each describes its effect on the one object it writes.      *)
(***************************************************************************)

NewSession(u) ==
    [uid |-> u, fin |-> FALSE, del |-> FALSE, desired |-> FALSE,
     phase |-> "Pending", endpoint |-> None]

\* Create is refused with AlreadyExists, which every caller ignores.
CreateSession(k) ==
    IF session[k] = None
    THEN /\ uid < MaxUid
         /\ uid' = uid + 1
         /\ session' = [session EXCEPT ![k] = NewSession(uid + 1)]
    ELSE UNCHANGED <<session, uid>>

CreateSecret(k, t) ==
    secret' = IF secret[k] = None THEN [secret EXCEPT ![k] = t] ELSE secret

\* An object with a finalizer only gets its deletion timestamp.
DeleteSession(k) ==
    session' = IF session[k] = None THEN session
               ELSE IF session[k].fin THEN [session EXCEPT ![k].del = TRUE]
               ELSE [session EXCEPT ![k] = None]

\* An object whose last finalizer goes while it is being deleted disappears.
Settle(s) == IF s.del /\ ~s.fin THEN None ELSE s

\* Update and Status().Update of an object read as old.
UpdateSession(k, old, new) ==
    session' = IF session[k] = old THEN [session EXCEPT ![k] = Settle(new)] ELSE session

NewPod(owner) ==
    [owner |-> owner, state |-> "Pending", ip |-> None, token |-> None, del |-> FALSE]

CreatePod(k, owner) ==
    pod' = IF pod[k] = None THEN [pod EXCEPT ![k] = NewPod(owner)] ELSE pod

\* Pods are deleted with a grace period of 30s: the object stays meanwhile.
DeletePodObject(k) ==
    pod' = IF pod[k] = None THEN pod ELSE [pod EXCEPT ![k].del = TRUE]

-----------------------------------------------------------------------------
(***************************************************************************)
(* The kubelet, the garbage collector, and the informers.                  *)
(***************************************************************************)

FreeIPs == {ip \in IPs : \A k \in Keys : pod[k] = None \/ pod[k].ip # ip}

\* The container starts once its Secret can be mounted, and the wrapper reads
\* the token once, at start.
KubeletStart(k) ==
    /\ pod[k] # None
    /\ pod[k].state \in {"Pending", "Backoff"} /\ ~pod[k].del
    /\ secret[k] # None
    /\ \E ip \in FreeIPs :
          pod' = [pod EXCEPT ![k].state = "Ready", ![k].ip = ip, ![k].token = secret[k]]
    /\ UNCHANGED <<session, secret, netpol, uid, cSession, cPod>>

KubeletBackoff(k) ==
    /\ pod[k] # None
    /\ pod[k].state = "Pending"
    /\ pod' = [pod EXCEPT ![k].state = "Backoff"]
    /\ UNCHANGED <<session, secret, netpol, uid, cSession, cPod>>

\* The readiness probe of a running container changes its answer.
KubeletProbe(k) ==
    /\ pod[k] # None
    /\ \/ pod[k].state = "Ready" /\ pod' = [pod EXCEPT ![k].state = "Running"]
       \/ pod[k].state = "Running" /\ pod' = [pod EXCEPT ![k].state = "Ready"]
    /\ UNCHANGED <<session, secret, netpol, uid, cSession, cPod>>

\* The container exits; restartPolicy is Never.
KubeletExit(k) ==
    /\ pod[k] # None
    /\ pod[k].state \in {"Running", "Ready"}
    /\ pod' = [pod EXCEPT ![k].state = "Failed"]
    /\ UNCHANGED <<session, secret, netpol, uid, cSession, cPod>>

\* A deleted pod is gone when its grace period ends.
PodGone(k) ==
    /\ pod[k] # None
    /\ pod[k].del
    /\ pod' = [pod EXCEPT ![k] = None]
    /\ UNCHANGED <<session, secret, netpol, uid, cSession, cPod>>

\* Eviction or node loss takes a pod that nobody deleted.
PodLost(k) ==
    /\ pod[k] # None
    /\ ~pod[k].del
    /\ pod' = [pod EXCEPT ![k] = None]
    /\ UNCHANGED <<session, secret, netpol, uid, cSession, cPod>>

Owned(k, u) == session[k] # None /\ session[k].uid = u

\* Objects whose owning Session is gone are collected.
CollectGarbage(k) ==
    /\ \/ /\ netpol[k] # 0
          /\ ~Owned(k, netpol[k])
          /\ netpol' = [netpol EXCEPT ![k] = 0]
          /\ pod' = pod
       \/ /\ pod[k] # None
          /\ ~pod[k].del
          /\ ~Owned(k, pod[k].owner)
          /\ DeletePodObject(k)
          /\ netpol' = netpol
    /\ UNCHANGED <<session, secret, uid, cSession, cPod>>

\* A watch brings the controller's copy of an object up to date.
SyncSession(k) ==
    /\ cSession[k] # session[k]
    /\ cSession' = [cSession EXCEPT ![k] = session[k]]
    /\ UNCHANGED <<session, secret, pod, netpol, uid, cPod>>

SyncPod(k) ==
    /\ cPod[k] # pod[k]
    /\ cPod' = [cPod EXCEPT ![k] = pod[k]]
    /\ UNCHANGED <<session, secret, pod, netpol, uid, cSession>>
=============================================================================
