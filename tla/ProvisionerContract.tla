------------------------ MODULE ProvisionerContract --------------------------
(***************************************************************************)
(* What contracts.Provisioner promises of one slot per pod key: Ensure     *)
(* fills an empty or failed slot with a pod that starts, a starting pod    *)
(* settles as Ready or Failed and stays what it became, and Release        *)
(* empties the slot.                                                       *)
(***************************************************************************)
CONSTANT ContractKeys

VARIABLE slot       \* slot[k]: what Status reports for key k

ContractPhases == {"Absent", "Starting", "Ready", "Failed"}

ContractInit == slot = [k \in ContractKeys |-> "Absent"]

ContractEnsure(k) ==
    /\ slot[k] \in {"Absent", "Failed"}
    /\ slot' = [slot EXCEPT ![k] = "Starting"]

ContractSettle(k) ==
    /\ slot[k] = "Starting"
    /\ \E p \in {"Ready", "Failed"} : slot' = [slot EXCEPT ![k] = p]

ContractRelease(k) ==
    /\ slot[k] # "Absent"
    /\ slot' = [slot EXCEPT ![k] = "Absent"]

ContractNext == \E k \in ContractKeys : ContractEnsure(k) \/ ContractSettle(k) \/ ContractRelease(k)

ContractSafety == ContractInit /\ [][ContractNext]_slot

\* A starting pod does not start for ever.
ContractSpec == ContractSafety /\ \A k \in ContractKeys : WF_slot(ContractSettle(k))
=============================================================================
