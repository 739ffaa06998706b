------------------------------- MODULE Reaper --------------------------------
(***************************************************************************)
(* controller/reaper.go deciding about one Session, with the clock and the *)
(* in-flight counter and last-active time that the gateways keep in Redis. *)
(* A sweep reads its copy of the Session, the counter and the last-active  *)
(* time one after the other while requests come and go; sessions do not    *)
(* affect each other in a sweep.                                           *)
(*                                                                         *)
(* The Session is created at time 0.  Time advances in ticks; a sweep      *)
(* starts every Interval ticks and each of its steps may take a while.     *)
(***************************************************************************)
EXTENDS Integers

CONSTANTS
    Requests,
    IdleTimeout,    \* idleTimeout of the server type
    MaxAge,         \* maxSessionAge of the server type
    HardGrace,      \* reaper: 15 minutes
    TTL,            \* expiry of the in-flight counter: one hour
    Interval,       \* reaper: 30 seconds
    MaxTime,        \* bound: the clock stops here
    MaxBlips,       \* bound: how often the pod stops being ready
    MaxUnready,     \* bound: it recovers within this time
    MaxLost,        \* bound: requests that end without their decrement
    Pruning         \* the server type may leave the configuration

ASSUME ReaperAssumption ==
    /\ {IdleTimeout, MaxAge, HardGrace, TTL, Interval, MaxTime, MaxBlips, MaxUnready, MaxLost} \subseteq Nat
    /\ Interval > 0 /\ Interval < TTL
    /\ Pruning \in BOOLEAN

VARIABLES
    now,
    phase,          \* status.phase of the Session
    since,          \* while the pod is not ready: since when
    blips,          \* how often the pod stopped being ready
    lost,           \* how many decrements were lost
    desired,        \* spec.desiredPhase is Terminating
    typeExists,     \* the ServerType is there
    counter,        \* inflight:<pod>: value n until time exp; n = 0 when absent
    active,         \* active:<pod>: time of the last Touch
    req,            \* req[q]: step of the request, now with the pod
    sweep,          \* the sweep in progress
    swept           \* time the last sweep started

vars == <<now, phase, since, blips, lost, desired, typeExists, counter, active, req, sweep, swept>>

-----------------------------------------------------------------------------

RunPhases == {"Starting", "Ready", "Idle", "Failed"}
Reasons == {"none", "server type removed", "failed", "max age (hard)", "max age", "idle"}

\* ensured: EnsurePod returned.  counted: InFlight(+1) done.  open: touched.
ReqSteps == {"idle", "ensured", "counted", "open"}

\* fresh: the sweep's copy has the current resourceVersion.
\* busy: history, whether a request was counted when the counter was read.
NoSweep == [pc |-> "idle", at |-> 0, phase |-> "Ready", fresh |-> TRUE, n |-> 0,
            reason |-> "none", busy |-> FALSE]

Counted(q) == req[q] \in {"counted", "open"}

TypeOK ==
    /\ now \in 0 .. MaxTime
    /\ phase \in RunPhases
    /\ desired \in BOOLEAN /\ typeExists \in BOOLEAN
    /\ counter \in [n : Nat, exp : Nat]
    /\ active \in 0 .. now
    /\ req \in [Requests -> ReqSteps]
    /\ sweep \in [pc : {"idle", "inflight", "active", "terminate", "markIdle"}, at : 0 .. now,
                  phase : RunPhases, fresh : BOOLEAN, n : Nat, reason : Reasons, busy : BOOLEAN]
    /\ sweep.pc = "terminate" <=> sweep.reason # "none"
    /\ sweep.pc \in {"inflight", "active", "markIdle"} => sweep.phase \in {"Ready", "Idle"}
    /\ blips \in 0 .. MaxBlips /\ lost \in 0 .. MaxLost
    /\ since \in 0 .. now /\ swept \in 0 .. now

\* The pod has just become Ready: hold touched it, and the reaper's clock ticks.
Init ==
    /\ now = 0 /\ phase = "Ready" /\ desired = FALSE /\ typeExists = TRUE
    /\ counter = [n |-> 0, exp |-> 0]
    /\ active = 0
    /\ req = [q \in Requests |-> "idle"]
    /\ sweep = NoSweep
    /\ since = 0 /\ blips = 0 /\ lost = 0 /\ swept = 0

-----------------------------------------------------------------------------
(***************************************************************************)
(* The counter in Redis.  Every call sets the expiry of a key that exists, *)
(* reading calls included.                                                 *)
(***************************************************************************)

Value == IF counter.exp > now THEN counter.n ELSE 0

Incr(delta) == IF Value + delta < 0 THEN 0 ELSE Value + delta

\* Mutant: a call that only reads leaves the expiry alone.
InFlightNoRefresh(delta) ==
    counter' = IF delta = 0 THEN counter ELSE [n |-> Incr(delta), exp |-> now + TTL]

InFlight(delta) ==
    counter' = IF delta = 0 /\ counter.exp <= now THEN counter
               ELSE [n |-> Incr(delta), exp |-> now + TTL]

\* DeletePod removes the counter and the last-active time with the row.  Without
\* the latter a sweep takes the time the pod became Ready.
DeleteCounters == counter' = [n |-> 0, exp |-> 0] /\ active' = 0

-----------------------------------------------------------------------------
(***************************************************************************)
(* Requests, in the handler of one server type or in the router.           *)
(***************************************************************************)

\* EnsurePod returns the pod.
Enter(q) ==
    /\ req[q] = "idle" /\ ~desired /\ phase \in {"Ready", "Idle"}
    /\ req' = [req EXCEPT ![q] = "ensured"]
    /\ UNCHANGED <<now, phase, since, blips, lost, desired, typeExists, counter, active, sweep, swept>>

\* The handler returns for want of a session, a token or a secret.
Refuse(q) ==
    /\ req[q] = "ensured"
    /\ req' = [req EXCEPT ![q] = "idle"]
    /\ UNCHANGED <<now, phase, since, blips, lost, desired, typeExists, counter, active, sweep, swept>>

Count(q) ==
    /\ req[q] = "ensured"
    /\ req' = [req EXCEPT ![q] = "counted"]
    /\ InFlight(1)
    /\ UNCHANGED <<now, phase, since, blips, lost, desired, typeExists, active, sweep, swept>>

Touch(q) ==
    /\ req[q] = "counted"
    /\ req' = [req EXCEPT ![q] = "open"]
    /\ active' = now
    /\ UNCHANGED <<now, phase, since, blips, lost, desired, typeExists, counter, sweep, swept>>

\* The deferred decrement.
EndRequest(q) ==
    /\ req[q] = "open"
    /\ req' = [req EXCEPT ![q] = "idle"]
    /\ InFlight(-1)
    /\ UNCHANGED <<now, phase, since, blips, lost, desired, typeExists, active, sweep, swept>>

\* The replica crashes, or the client left and the decrement is called with
\* the cancelled context of the request.
LoseRequest(q) ==
    /\ Counted(q) /\ lost < MaxLost
    /\ lost' = lost + 1
    /\ req' = [req EXCEPT ![q] = "idle"]
    /\ UNCHANGED <<now, phase, since, blips, desired, typeExists, counter, active, sweep, swept>>

Request(q) ==
    Enter(q) \/ Refuse(q) \/ Count(q) \/ Touch(q) \/ EndRequest(q) \/ LoseRequest(q)

-----------------------------------------------------------------------------
(***************************************************************************)
(* The sweep.                                                              *)
(***************************************************************************)

\* Mutant: sessions that are still starting are not skipped.
SweepStartAll ==
    /\ sweep.pc = "idle" /\ ~desired
    /\ now - swept >= Interval \/ now = MaxTime
    /\ swept' = now
    /\ sweep' = [NoSweep EXCEPT !.pc = "inflight", !.at = now, !.phase = phase]
    /\ UNCHANGED <<now, phase, since, blips, lost, desired, typeExists, counter, active, req>>

\* List sessions and server types, and everything decided from the lists.
SweepStart ==
    /\ sweep.pc = "idle" /\ ~desired
    /\ now - swept >= Interval \/ now = MaxTime
    /\ swept' = now
    /\ LET to(pc, why) == sweep' = [NoSweep EXCEPT !.pc = pc, !.at = now, !.phase = phase, !.reason = why]
       IN  IF ~typeExists THEN to("terminate", "server type removed")
           ELSE IF phase = "Failed" THEN to("terminate", "failed")
           ELSE IF phase = "Starting" THEN sweep' = NoSweep
           ELSE to("inflight", "none")
    /\ UNCHANGED <<now, phase, since, blips, lost, desired, typeExists, counter, active, req>>

\* Mutant: the hard limit waits for the requests in flight too.
AgeReasonSoft(n) ==
    IF sweep.at > MaxAge /\ n = 0 THEN "max age" ELSE "none"

AgeReason(n) ==
    IF sweep.at > MaxAge + HardGrace THEN "max age (hard)"
    ELSE IF sweep.at > MaxAge /\ n = 0 THEN "max age"
    ELSE "none"

ReadInFlight ==
    /\ sweep.pc = "inflight"
    /\ InFlight(0)
    /\ sweep' = [sweep EXCEPT !.n = Value, !.reason = AgeReason(Value),
                              !.pc = IF AgeReason(Value) = "none" THEN "active" ELSE "terminate",
                              !.busy = \E q \in Requests : Counted(q)]
    /\ UNCHANGED <<now, phase, since, blips, lost, desired, typeExists, active, req, swept>>

ReadLastActive ==
    /\ sweep.pc = "active"
    /\ LET idle == sweep.at - active > IdleTimeout
       IN  sweep' = IF idle /\ sweep.n = 0 THEN [sweep EXCEPT !.pc = "terminate", !.reason = "idle"]
                    ELSE IF idle /\ sweep.phase # "Idle" THEN [sweep EXCEPT !.pc = "markIdle"]
                    ELSE NoSweep
    /\ UNCHANGED <<now, phase, since, blips, lost, desired, typeExists, counter, active, req, swept>>

\* A stale copy makes the Update fail; the next sweep tries again.  Otherwise
\* the pod is purged from the routing table.
terminate ==
    /\ sweep.pc = "terminate"
    /\ desired' = (desired \/ sweep.fresh)
    /\ IF sweep.fresh THEN DeleteCounters ELSE UNCHANGED <<counter, active>>
    /\ sweep' = NoSweep
    /\ UNCHANGED <<now, phase, since, blips, lost, typeExists, req, swept>>

MarkIdle ==
    /\ sweep.pc = "markIdle"
    /\ phase' = IF sweep.fresh THEN "Idle" ELSE phase
    /\ sweep' = NoSweep
    /\ UNCHANGED <<now, since, blips, lost, desired, typeExists, counter, active, req, swept>>

Sweep == SweepStart \/ ReadInFlight \/ ReadLastActive \/ terminate \/ MarkIdle

-----------------------------------------------------------------------------
(***************************************************************************)
(* The rest of the controller, and time.                                   *)
(***************************************************************************)

\* SessionReconciler: the pod failed, stopped being ready, or is ready (again).
SetPhase ==
    /\ ~desired
    /\ \E p \in {"Failed", "Starting", "Ready"} :
         /\ p # phase /\ phase # "Failed"
         /\ p = "Starting" => blips < MaxBlips
         /\ phase' = p
         /\ blips' = IF p = "Starting" THEN blips + 1 ELSE blips
         /\ since' = IF p = "Starting" THEN now ELSE 0
    /\ sweep' = [sweep EXCEPT !.fresh = sweep.pc = "idle"]
    /\ UNCHANGED <<now, lost, desired, typeExists, counter, active, req, swept>>

\* ConfigSyncer deletes a server type that left the configuration, or
\* creates it again.
Sync ==
    /\ Pruning
    /\ typeExists' = ~typeExists
    /\ UNCHANGED <<now, phase, since, blips, lost, desired, counter, active, req, sweep, swept>>

\* A sweep is never late by more than the sweep before it takes.
Tick ==
    /\ now < MaxTime
    /\ ~desired => now - swept < Interval
    /\ phase = "Starting" => now - since < MaxUnready
    /\ now' = now + 1
    /\ UNCHANGED <<phase, since, blips, lost, desired, typeExists, counter, active, req, sweep, swept>>

Next ==
    \/ \E q \in Requests : Request(q)
    \/ Sweep
    \/ SetPhase
    \/ Sync
    \/ Tick

Spec == Init /\ [][Next]_vars

\* The reaper's loop runs for as long as the controller does.
FairSpec == Spec /\ WF_vars(Sweep) /\ WF_vars(Tick)

-----------------------------------------------------------------------------

\* A session is given up as idle or as too old, short of the hard limit, only
\* if no request was counted as in flight when the sweep read the counter: the
\* expiry of the counter never hides a stream that is longer than the expiry,
\* because the sweeps themselves keep refreshing it.  (The expiry has to be
\* longer than the sweeps that may pass without a read: Outlives in ReaperProofs.)
SparesRequests ==
    sweep.reason \in {"idle", "max age"} => ~sweep.busy

\* A session past its age and the hard grace, whose pod does not stop being
\* ready for good, is terminated whatever is in flight, although the sweep's
\* update may be refused because its copy of the Session is stale.  (Time and
\* the wish to terminate do not go back, so it is enough that time and again
\* one of these holds.)
HardStop == []<>(now <= MaxAge + HardGrace \/ phase = "Starting" \/ desired)
=============================================================================
