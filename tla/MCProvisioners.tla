--------------------------- MODULE MCProvisioners ----------------------------
(***************************************************************************)
(* The two backends that provide pods: the controller of a cluster and the *)
(* local one of the gateway.  They share no state: a behaviour is one of   *)
(* the backend its first state chooses.  In the other's initial state no   *)
(* action that is fair is enabled.                                         *)
(***************************************************************************)
EXTENDS SessionReconciler, LocalProvisioner

VARIABLE part

ProvisionersInit ==
    /\ part \in {"kube", "local"}
    /\ Init
    /\ LocalInit /\ (part # "local" => mode = "process")

ProvisionersNext ==
    \/ part = "kube" /\ Next /\ UNCHANGED <<localVars, part>>
    \/ part = "local" /\ LocalNext /\ UNCHANGED <<ctlVars, part>>

ProvisionersSpec ==
    ProvisionersInit /\ [][ProvisionersNext]_<<ctlVars, localVars, part>> /\ Fairness /\ LocalFairness

\* The keys of the local backend are treated alike: the first start is for one of them.
FirstKeyFirst == inc[1].key = NoKey => inc'[1].key \in {NoKey, CHOOSE k \in LocalKeys : TRUE}

\* Three starts use up the ports of the process mode; docker takes none.
DockerStarts == mode = "docker" => inc'[3].key = NoKey

\* A pod changes its state only when the controller has seen the last change.
PromptPods ==
    \A k \in Keys :
        pod[k] # None /\ pod'[k] # None /\ pod'[k].state # pod[k].state => cPod[k] = pod[k]
=============================================================================
