--------------------------- MODULE MCCrashedCount ---------------------------
(***************************************************************************)
(* The reaper with a history: the last time some request was counted.      *)
(***************************************************************************)
EXTENDS Reaper, TLC

VARIABLE lastOpen

HistoryInit == Init /\ lastOpen = 0

HistoryNext ==
    /\ Next
    /\ lastOpen' = IF \E q \in Requests : Counted(q)' THEN now' ELSE lastOpen

HistorySpec == HistoryInit /\ [][HistoryNext]_<<vars, lastOpen>>

\* Requests are interchangeable.
Symmetry == Permutations(Requests)

\* What the comment on InFlight says ("the key expires after an hour so a
\* crashed gateway replica cannot pin a pod forever"): without a request for
\* longer than the expiry, the counter is zero.  The reaper's own read
\* refreshes the expiry.
CrashedCountExpires ==
    now - lastOpen > TTL => Value = 0
=============================================================================
