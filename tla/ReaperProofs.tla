---------------------------- MODULE ReaperProofs ----------------------------
(***************************************************************************)
(* The reaper, for any number of requests and any times.  A request that   *)
(* is counted is seen by the next sweep as long as the counter has not     *)
(* expired; only sweeps keep a long request's count alive, and a sweep     *)
(* reads no counter while the pod is starting, nor when it finds the       *)
(* server type removed and its update is then refused.  The invariant      *)
(* bounds how far such sweeps can be behind the last refresh: each time    *)
(* the pod stops being ready costs at most the time it is not ready and    *)
(* two sweeps.                                                             *)
(***************************************************************************)
EXTENDS Reaper, FiniteSetTheorems, TLAPS

\* What the pod costs by not being ready b times.
Gap == MaxUnready + 2 * Interval
Cost(b) == b * Gap

\* The counter outlives the sweeps that may pass without reading it.
Outlives == Cost(MaxBlips) + 3 * Interval < TTL

Streams == {q \in Requests : Counted(q)}

\* A sweep that will read the counter may still come, or is about to.
Watched == ~desired /\ (phase # "Failed" \/ sweep.pc = "inflight")

\* How far the sweep in progress, which will read the counter or end the
\* session, may be ahead of the one before it.
Lead == IF sweep.pc = "inflight" \/ (sweep.pc = "terminate" /\ sweep.fresh) THEN Interval ELSE 0

\* The same for a sweep that will read the counter.
Late == IF sweep.pc = "inflight" THEN Interval ELSE 0

\* The counter was refreshed at most d before t.
Covers(t, d) == t + TTL <= counter.exp + d

CoverInv ==
    /\ phase \in {"Ready", "Failed"} => Covers(swept, Cost(blips) + Interval + Lead)
    /\ phase = "Idle" => Covers(swept, Lead)
    /\ phase = "Starting" =>
         /\ Covers(since, Cost(blips - 1) + 3 * Interval + Late)
         /\ Covers(swept, Cost(blips - 1) + 3 * Interval + MaxUnready + Late)
    /\ sweep.pc \in {"active", "markIdle"} => Covers(swept, 0)

CountInv == Watched /\ Streams # {} => Cardinality(Streams) <= counter.n /\ CoverInv

TimeInv ==
    /\ ~desired => now - swept <= Interval
    /\ sweep.pc # "idle" => ~desired
    /\ phase = "Starting" => now - since <= MaxUnready /\ blips > 0

SweepInv ==
    /\ SparesRequests
    /\ sweep.pc \in {"active", "markIdle"} /\ sweep.busy => sweep.n > 0
    /\ sweep.pc \in {"inflight", "active", "markIdle"} /\ sweep.fresh => phase # "Failed"

IInv == TypeOK /\ TimeInv /\ CountInv /\ SweepInv

-----------------------------------------------------------------------------
(***************************************************************************)
(* Types.                                                                  *)
(***************************************************************************)

SweepRecord(t) ==
    [pc : {"idle", "inflight", "active", "terminate", "markIdle"}, at : 0 .. t, phase : RunPhases,
     fresh : BOOLEAN, n : Nat, reason : Reasons, busy : BOOLEAN]

\* The times and bounds are natural numbers.
LEMMA Bounds ==
    /\ IdleTimeout \in Nat /\ MaxAge \in Nat /\ HardGrace \in Nat /\ TTL \in Nat /\ Interval \in Nat
    /\ MaxTime \in Nat /\ MaxBlips \in Nat /\ MaxUnready \in Nat /\ MaxLost \in Nat /\ Interval > 0
  BY ReaperAssumption

\* Nothing in progress is a state of the sweep.
LEMMA NoSweepType ==
    ASSUME NEW t \in Nat
    PROVE  /\ NoSweep \in SweepRecord(t) /\ NoSweep.pc = "idle" /\ NoSweep.reason = "none"
           /\ ~NoSweep.busy
<1>1. 0 \in 0 .. t
  OBVIOUS
<1> QED
  BY Zenon, <1>1 DEF NoSweep, SweepRecord, RunPhases, Reasons

\* The value of the counter is a number, and stays one.
LEMMA CounterType ==
    ASSUME TypeOK, NEW delta \in {-1, 0, 1}, InFlight(delta)
    PROVE  Value \in Nat /\ counter' \in [n : Nat, exp : Nat]
<1>1. now \in Nat /\ counter \in [n : Nat, exp : Nat]
  BY Bounds DEF TypeOK
<1>2. Value \in Nat
  BY <1>1 DEF Value
<1>3. Incr(delta) \in Nat
  BY <1>2 DEF Incr
<1>4. now + TTL \in Nat
  BY <1>1, Bounds
<1> QED
  BY <1>1, <1>2, <1>3, <1>4 DEF InFlight

\* The initial state is well typed.
LEMMA InitType == Init => TypeOK
<1> SUFFICES ASSUME Init PROVE TypeOK
  OBVIOUS
<1>1. NoSweep \in SweepRecord(0) /\ NoSweep.pc = "idle" /\ NoSweep.reason = "none"
  BY NoSweepType
<1>2. 0 \in Nat /\ 0 \in 0 .. 0 /\ 0 \in 0 .. MaxTime /\ 0 \in 0 .. MaxBlips /\ 0 \in 0 .. MaxLost
  BY Bounds
<1> QED
  BY Zenon, <1>1, <1>2 DEF Init, TypeOK, SweepRecord, RunPhases, ReqSteps

\* Requests keep the types.
LEMMA RequestTypes ==
    ASSUME TypeOK, NEW q \in Requests, Request(q)
    PROVE  TypeOK'
<1>1. UNCHANGED <<now, phase, since, blips, desired, typeExists, sweep, swept>>
  BY Zenon DEF Request, Enter, Refuse, Count, Touch, EndRequest, LoseRequest
<1>2. \E s \in ReqSteps : req' = [req EXCEPT ![q] = s]
  BY Zenon DEF Request, Enter, Refuse, Count, Touch, EndRequest, LoseRequest, ReqSteps
<1>3. req' \in [Requests -> ReqSteps]
  BY Zenon, <1>2 DEF TypeOK
<1>4. counter' \in [n : Nat, exp : Nat]
  <2>1. CASE UNCHANGED counter
    BY Zenon, <2>1 DEF TypeOK
  <2>2. CASE InFlight(1)
    BY <2>2, CounterType
  <2>3. CASE InFlight(-1)
    BY <2>3, CounterType
  <2> QED
    BY Zenon, <2>1, <2>2, <2>3 DEF Request, Enter, Refuse, Count, Touch, EndRequest, LoseRequest
<1>5. active' \in 0 .. now
  <2>1. active' \in {active, now}
    BY Zenon DEF Request, Enter, Refuse, Count, Touch, EndRequest, LoseRequest
  <2> QED
    BY <2>1, Bounds DEF TypeOK
<1>6. lost' \in 0 .. MaxLost
  <2>1. lost' = lost \/ (lost < MaxLost /\ lost' = lost + 1)
    BY Zenon DEF Request, Enter, Refuse, Count, Touch, EndRequest, LoseRequest
  <2> QED
    BY <2>1, Bounds DEF TypeOK
<1> QED
  BY Zenon, <1>1, <1>3, <1>4, <1>5, <1>6 DEF TypeOK

\* Sweeps keep the types.
LEMMA SweepTypes ==
    ASSUME TypeOK, Sweep
    PROVE  TypeOK'
<1> DEFINE SweepOK(x) == /\ x \in SweepRecord(now)
                         /\ x.pc = "terminate" <=> x.reason # "none"
                         /\ x.pc \in {"inflight", "active", "markIdle"} => x.phase \in {"Ready", "Idle"}
<1>1. now \in Nat /\ UNCHANGED <<now, blips, lost, typeExists, req>>
  <2>1. now \in Nat
    BY Bounds DEF TypeOK
  <2>2. UNCHANGED <<now, blips, lost, typeExists, req>>
    BY Zenon DEF Sweep, SweepStart, ReadInFlight, ReadLastActive, terminate, MarkIdle
  <2> QED
    BY Zenon, <2>1, <2>2
<1>2. SweepOK(sweep) /\ SweepOK(NoSweep)
  BY <1>1, NoSweepType DEF TypeOK, SweepRecord
<1>3. ASSUME SweepOK(sweep'), phase' \in RunPhases, since' \in 0 .. now, swept' \in 0 .. now,
             desired' \in BOOLEAN, counter' \in [n : Nat, exp : Nat], active' \in 0 .. now
      PROVE  TypeOK'
  BY Zenon, <1>1, <1>3 DEF TypeOK, SweepRecord
<1>4. CASE SweepStart
  <2>1. now \in 0 .. now
    BY <1>1
  <2>2. SweepOK(sweep')
    <3>1. ASSUME NEW pc \in {"terminate", "inflight"}, NEW why \in Reasons,
                 pc = "terminate" <=> why # "none", pc = "inflight" => phase \in {"Ready", "Idle"},
                 sweep' = [NoSweep EXCEPT !.pc = pc, !.at = now, !.phase = phase, !.reason = why]
          PROVE  SweepOK(sweep')
      <4>1. phase \in RunPhases
        BY DEF TypeOK
      <4>2. /\ sweep' \in SweepRecord(now) /\ sweep'.pc = pc /\ sweep'.reason = why
            /\ sweep'.phase = phase
        BY Zenon, <1>2, <2>1, <3>1, <4>1 DEF SweepRecord
      <4> QED
        BY Zenon, <3>1, <4>2
    <3>2. phase \in {"Ready", "Idle"} \/ phase = "Failed" \/ phase = "Starting"
      BY DEF TypeOK, RunPhases
    <3>3. /\ "server type removed" \in Reasons /\ "failed" \in Reasons /\ "none" \in Reasons
          /\ "server type removed" # "none" /\ "failed" # "none"
      BY DEF Reasons
    <3> QED
      BY Zenon, <1>2, <1>4, <3>1, <3>2, <3>3 DEF SweepStart
  <2> QED
    BY Zenon, <1>3, <1>4, <2>1, <2>2 DEF SweepStart, TypeOK
<1>5. CASE ReadInFlight
  <2>1. Value \in Nat /\ counter' \in [n : Nat, exp : Nat]
    BY <1>5, CounterType DEF ReadInFlight
  <2>2. AgeReason(Value) \in Reasons
    BY Zenon DEF AgeReason, Reasons
  <2>3. SweepOK(sweep')
    <3> DEFINE b == \E q \in Requests : Counted(q)
               why == AgeReason(Value)
               pc == IF why = "none" THEN "active" ELSE "terminate"
    <3>1. sweep' = [sweep EXCEPT !.n = Value, !.reason = why, !.pc = pc, !.busy = b]
      BY Zenon, <1>5 DEF ReadInFlight
    <3>2. b \in BOOLEAN /\ pc \in {"active", "terminate"} /\ (pc = "terminate" <=> why # "none")
      BY Zenon
    <3>3. why \in Reasons
      BY Zenon, <2>2
    <3> HIDE DEF b, why, pc
    <3>4. /\ sweep' \in SweepRecord(now) /\ sweep'.pc = pc /\ sweep'.reason = why
          /\ sweep'.phase = sweep.phase
      BY Zenon, <1>2, <2>1, <3>1, <3>2, <3>3 DEF SweepRecord
    <3> QED
      BY Zenon, <1>2, <1>5, <3>2, <3>4 DEF ReadInFlight
  <2> QED
    BY Zenon, <1>3, <1>5, <2>1, <2>3 DEF ReadInFlight, TypeOK
<1>6. CASE ReadLastActive
  <2>1. SweepOK(sweep')
    <3>1. CASE sweep' = [sweep EXCEPT !.pc = "terminate", !.reason = "idle"]
      <4>1. sweep' \in SweepRecord(now) /\ sweep'.pc = "terminate" /\ sweep'.reason = "idle"
        BY Zenon, <1>2, <3>1 DEF SweepRecord, Reasons
      <4> QED
        BY Zenon, <4>1
    <3>2. CASE sweep' = [sweep EXCEPT !.pc = "markIdle"]
      <4>1. /\ sweep' \in SweepRecord(now) /\ sweep'.pc = "markIdle" /\ sweep'.reason = sweep.reason
            /\ sweep'.phase = sweep.phase
        BY Zenon, <1>2, <3>2 DEF SweepRecord
      <4> QED
        BY Zenon, <1>2, <1>6, <4>1 DEF ReadLastActive
    <3>3. CASE sweep' = NoSweep
      BY Zenon, <1>2, <3>3
    <3> QED
      BY Zenon, <1>6, <3>1, <3>2, <3>3 DEF ReadLastActive
  <2> QED
    BY Zenon, <1>3, <1>6, <2>1 DEF ReadLastActive, TypeOK
<1>7. CASE terminate
  <2>1. counter' \in [n : Nat, exp : Nat] /\ active' \in 0 .. now
    BY <1>1, <1>7 DEF terminate, DeleteCounters, TypeOK
  <2>2. desired' \in BOOLEAN
    BY Zenon, <1>2, <1>7 DEF terminate, TypeOK, SweepRecord
  <2> QED
    BY Zenon, <1>2, <1>3, <1>7, <2>1, <2>2 DEF terminate, TypeOK
<1>8. CASE MarkIdle
  <2>1. phase' \in RunPhases /\ since' \in 0 .. now
    BY <1>1, <1>8 DEF MarkIdle, TypeOK, RunPhases
  <2> QED
    BY Zenon, <1>2, <1>3, <1>8, <2>1 DEF MarkIdle, TypeOK
<1> QED
  BY Zenon, <1>4, <1>5, <1>6, <1>7, <1>8 DEF Sweep

\* Everything keeps the types.
LEMMA NextType == TypeOK /\ [Next]_vars => TypeOK'
<1> SUFFICES ASSUME TypeOK, [Next]_vars PROVE TypeOK'
  OBVIOUS
<1>1. ASSUME NEW q \in Requests, Request(q)
      PROVE  TypeOK'
  BY <1>1, RequestTypes
<1>2. CASE Sweep
  BY <1>2, SweepTypes
<1>3. CASE SetPhase
  <2>1. sweep' = [sweep EXCEPT !.fresh = sweep.pc = "idle"] /\ (sweep.pc = "idle") \in BOOLEAN
    BY Zenon, <1>3 DEF SetPhase
  <2>2. /\ sweep' \in SweepRecord(now) /\ sweep'.pc = sweep.pc /\ sweep'.reason = sweep.reason
        /\ sweep'.phase = sweep.phase
    BY Zenon, <2>1 DEF TypeOK, SweepRecord
  <2>3. phase' \in RunPhases /\ blips' \in 0 .. MaxBlips /\ since' \in 0 .. now
    BY <1>3, Bounds DEF SetPhase, TypeOK, RunPhases
  <2> QED
    BY Zenon, <1>3, <2>2, <2>3 DEF SetPhase, TypeOK, SweepRecord
<1>4. CASE Sync
  BY Zenon, <1>4 DEF Sync, TypeOK
<1>5. CASE Tick
  <2>1. now' \in 0 .. MaxTime /\ \A t \in 0 .. now : t \in 0 .. now'
    BY <1>5, Bounds DEF Tick, TypeOK
  <2>2. sweep \in SweepRecord(now')
    BY Zenon, <2>1 DEF TypeOK, SweepRecord
  <2> QED
    BY Zenon, <1>5, <2>1, <2>2 DEF Tick, TypeOK, SweepRecord
<1>6. CASE UNCHANGED vars
  BY Zenon, <1>6 DEF vars, TypeOK
<1> QED
  BY Zenon, <1>1, <1>2, <1>3, <1>4, <1>5, <1>6 DEF Next

\* The clock, the Session, the counter and the sweep are well formed, for any
\* number of requests and any times.
THEOREM ReaperTypeCorrect == Spec => []TypeOK
  BY InitType, NextType, PTL DEF Spec

-----------------------------------------------------------------------------
(***************************************************************************)
(* The counter.                                                            *)
(***************************************************************************)

\* One more loss of readiness costs one Gap more.
LEMMA Costs ==
    /\ Gap \in Nat /\ Gap = MaxUnready + 2 * Interval
    /\ \A b \in Nat : Cost(b) \in Nat /\ Cost(b + 1) = Cost(b) + Gap
    /\ \A b \in 0 .. MaxBlips : Cost(b) <= Cost(MaxBlips)
<1>1. Gap \in Nat /\ Gap = MaxUnready + 2 * Interval
  BY Bounds DEF Gap
<1>2. \A b, g \in Nat : b * g \in Nat /\ (b + 1) * g = b * g + g
  OBVIOUS
<1>3. \A b, c, g \in Nat : b <= c => b * g <= c * g
  OBVIOUS
<1> QED
  BY <1>1, <1>2, <1>3, Bounds DEF Cost

\* The lead of a sweep is at most one interval.
LEMMA Leads == Lead \in {0, Interval} /\ Lead \in Nat /\ Late \in {0, Interval} /\ Late \in Nat
  BY Bounds DEF Lead, Late

\* While a request is counted and a sweep may still come, the counter has not
\* expired.
LEMMA NotExpired ==
    ASSUME IInv, Outlives, Watched, Streams # {}
    PROVE  counter.exp > now /\ Value = counter.n
<1>1. /\ now \in Nat /\ swept \in Nat /\ counter.exp \in Nat /\ blips \in 0 .. MaxBlips
      /\ phase \in {"Ready", "Failed", "Idle", "Starting"}
  BY Bounds DEF IInv, TypeOK, RunPhases
<1>2. CoverInv /\ now <= swept + Interval /\ (phase = "Starting" => blips > 0)
  BY <1>1, Bounds DEF IInv, CountInv, TimeInv, Watched
<1> DEFINE C == Cost(MaxBlips)
<1>3. C \in Nat /\ C + 3 * Interval < TTL
  BY Bounds, Costs DEF Outlives
<1>4. swept + TTL <= counter.exp + C + 2 * Interval
  <2>1. CASE phase \in {"Ready", "Failed"}
    <3>1. swept + TTL <= counter.exp + (Cost(blips) + Interval + Lead)
      BY Zenon, <1>2, <2>1 DEF CoverInv, Covers
    <3>2. Cost(blips) \in Nat /\ Cost(blips) <= C
      BY <1>1, Bounds, Costs
    <3> HIDE DEF C
    <3> QED
      BY <1>1, <1>3, <3>1, <3>2, Leads, Bounds
  <2>2. CASE phase = "Idle"
    <3>1. swept + TTL <= counter.exp + Lead
      BY Zenon, <1>2, <2>2 DEF CoverInv, Covers
    <3> HIDE DEF C
    <3> QED
      BY <1>1, <1>3, <3>1, Leads, Bounds
  <2>3. CASE phase = "Starting"
    <3>1. swept + TTL <= counter.exp + (Cost(blips - 1) + 3 * Interval + MaxUnready + Late)
      BY Zenon, <1>2, <2>3 DEF CoverInv, Covers
    <3>2. blips - 1 \in Nat /\ (blips - 1) + 1 = blips
      BY <1>1, <1>2, <2>3, Bounds
    <3>3. Cost(blips - 1) \in Nat /\ Cost(blips) = Cost(blips - 1) + Gap /\ Cost(blips) <= C
      BY <1>1, <3>2, Costs
    <3> HIDE DEF C
    <3> QED
      BY <1>1, <1>3, <3>1, <3>3, Leads, Bounds, Costs
  <2> QED
    BY <1>1, <2>1, <2>2, <2>3
<1> HIDE DEF C
<1>5. counter.exp > now
  BY <1>1, <1>2, <1>3, <1>4, Bounds
<1> QED
  BY <1>5 DEF Value

\* Whatever was refreshed now covers every sweep so far.
LEMMA RefreshCovers ==
    ASSUME TypeOK', TimeInv', UNCHANGED now, counter'.exp = now + TTL
    PROVE  CoverInv'
<1>1. /\ now \in Nat /\ swept' \in 0 .. now /\ since' \in 0 .. now /\ blips' \in Nat
  BY Bounds DEF TypeOK
<1>2. Lead' \in Nat /\ Late' \in Nat
  BY Bounds DEF Lead, Late
<1>3. Cost(blips') \in Nat /\ (phase' = "Starting" => Cost(blips' - 1) \in Nat)
  BY <1>1, Costs DEF TimeInv
<1>4. \A t \in 0 .. now, d \in Nat : t + TTL <= counter'.exp + d
  BY <1>1, Bounds
<1>5. /\ Cost(blips') + Interval + Lead' \in Nat /\ 0 \in Nat
      /\ phase' = "Starting" => /\ Cost(blips' - 1) + 3 * Interval + Late' \in Nat
                                /\ Cost(blips' - 1) + 3 * Interval + MaxUnready + Late' \in Nat
  BY <1>2, <1>3, Bounds
<1> QED
  BY Zenon, <1>1, <1>2, <1>4, <1>5 DEF CoverInv, Covers

\* The requests that are counted are finitely many.
LEMMA StreamsFinite ==
    ASSUME IsFiniteSet(Requests)
    PROVE  IsFiniteSet(Streams) /\ Cardinality(Streams) \in Nat
<1>1. Streams \subseteq Requests
  BY Zenon DEF Streams
<1>2. IsFiniteSet(Streams)
  BY Zenon, <1>1, FS_Subset
<1> QED
  BY Zenon, <1>2, FS_CardinalityType

\* A step that leaves the sweeps and the counter alone, and counts no request.
LEMMA CountKept ==
    ASSUME IInv, IsFiniteSet(Requests), Streams' \subseteq Streams,
           UNCHANGED <<phase, since, blips, desired, counter, sweep, swept>>
    PROVE  CountInv'
<1>1. Watched' => Watched
  BY Zenon DEF Watched
<1>2. CoverInv => CoverInv'
  BY Zenon DEF CoverInv, Covers, Lead, Late
<1>3. IsFiniteSet(Streams) /\ Cardinality(Streams) \in Nat
  BY Zenon, StreamsFinite
<1>4. IsFiniteSet(Streams') /\ Cardinality(Streams') <= Cardinality(Streams) /\ Cardinality(Streams') \in Nat
  BY Zenon, <1>3, FS_Subset, FS_CardinalityType
<1>5. counter.n \in Nat /\ counter' = counter
  BY Zenon DEF IInv, TypeOK
<1>6. Cardinality(Streams) <= counter.n => Cardinality(Streams') <= counter'.n
  BY <1>3, <1>4, <1>5
<1>7. Streams' # {} => Streams # {}
  BY Zenon
<1> QED
  BY Zenon, <1>1, <1>2, <1>6, <1>7 DEF IInv, CountInv

\* Requests: the counter is never below the number of requests counted.
LEMMA RequestCounts ==
    ASSUME IInv, Outlives, IsFiniteSet(Requests), TypeOK', TimeInv', NEW q \in Requests, Request(q)
    PROVE  CountInv'
<1>1. /\ UNCHANGED <<now, phase, since, blips, desired, sweep, swept>>
      /\ now \in Nat /\ counter \in [n : Nat, exp : Nat] /\ req \in [Requests -> ReqSteps]
  BY Bounds DEF IInv, TypeOK, Request, Enter, Refuse, Count, Touch, EndRequest, LoseRequest
<1>2. IsFiniteSet(Streams) /\ Cardinality(Streams) \in Nat
  BY Zenon, StreamsFinite
<1>3. Watched' => Watched
  BY Zenon, <1>1 DEF Watched
<1>4. CASE Enter(q) \/ Refuse(q) \/ Touch(q) \/ LoseRequest(q)
  <2>1. UNCHANGED counter
    BY Zenon, <1>4 DEF Enter, Refuse, Touch, LoseRequest
  <2>2. Streams' \subseteq Streams
    BY Zenon, <1>1, <1>4 DEF Streams, Counted, Enter, Refuse, Touch, LoseRequest
  <2> QED
    BY Zenon, <1>1, <2>1, <2>2, CountKept
<1>5. CASE Count(q)
  <2>1. Streams' = Streams \cup {q} /\ q \notin Streams
    BY Zenon, <1>1, <1>5 DEF Streams, Counted, Count
  <2>2. Cardinality(Streams') = Cardinality(Streams) + 1
    BY Zenon, <1>2, <2>1, FS_AddElement
  <2>3. Value \in Nat /\ counter' = [n |-> Value + 1, exp |-> now + TTL]
    BY <1>1, <1>5 DEF Count, InFlight, Incr, Value
  <2>4. CoverInv'
    BY <1>1, <2>3, RefreshCovers
  <2>5. ASSUME Watched
        PROVE  Cardinality(Streams) <= Value
    <3>1. CASE Streams = {}
      BY <2>3, <3>1, FS_EmptySet
    <3>2. CASE Streams # {}
      BY Zenon, <2>5, <3>2, NotExpired DEF IInv, CountInv
    <3> QED
      BY Zenon, <3>1, <3>2
  <2>6. Watched => Cardinality(Streams') <= counter'.n
    BY <1>2, <2>2, <2>3, <2>5
  <2> QED
    BY Zenon, <1>3, <2>4, <2>6 DEF CountInv
<1>6. CASE EndRequest(q)
  <2>1. Streams' = Streams \ {q} /\ q \in Streams
    BY Zenon, <1>1, <1>6 DEF Streams, Counted, EndRequest
  <2>2. Cardinality(Streams') = Cardinality(Streams) - 1
    BY Zenon, <1>2, <2>1, FS_RemoveElement
  <2>3. /\ Value \in Nat /\ counter'.exp = now + TTL
        /\ counter'.n = IF Value - 1 < 0 THEN 0 ELSE Value - 1
    BY <1>1, <1>6 DEF EndRequest, InFlight, Incr, Value
  <2>4. CoverInv'
    BY <1>1, <2>3, RefreshCovers
  <2>5. Watched => Cardinality(Streams) <= Value
    BY Zenon, <2>1, NotExpired DEF IInv, CountInv
  <2>6. Watched => Cardinality(Streams') <= counter'.n
    BY <1>2, <2>2, <2>3, <2>5
  <2> QED
    BY Zenon, <1>3, <2>4, <2>6 DEF CountInv
<1> QED
  BY Zenon, <1>4, <1>5, <1>6 DEF Request

\* A sweep starts: it will read the counter or end the session, or the pod is
\* starting, which it has not been for longer than MaxUnready.
LEMMA SweepStartCounts ==
    ASSUME IInv, SweepStart
    PROVE  CountInv'
<1>1. /\ UNCHANGED <<now, phase, since, blips, desired, counter, req>>
      /\ swept' = now /\ sweep.pc = "idle" /\ ~desired /\ Streams' = Streams
      /\ Cardinality(Streams') = Cardinality(Streams)
  BY Zenon DEF SweepStart, Streams, Counted
<1>2. /\ now \in Nat /\ swept \in Nat /\ since \in Nat /\ counter.exp \in Nat /\ blips \in Nat
      /\ now <= swept + Interval
  BY <1>1, Bounds DEF IInv, TypeOK, TimeInv
<1>3. Lead = 0 /\ Late = 0
  BY Zenon, <1>1 DEF Lead, Late
<1>4. /\ sweep'.pc \in {"idle", "terminate", "inflight"}
      /\ sweep'.pc = "idle" => phase = "Starting"
      /\ sweep'.pc = "inflight" => phase \notin {"Failed", "Starting"}
      /\ sweep'.pc = "terminate" => sweep'.fresh
  <2> DEFINE to(pc, why) == [NoSweep EXCEPT !.pc = pc, !.at = now, !.phase = phase, !.reason = why]
  <2>1. \A pc, why : to(pc, why).pc = pc /\ to(pc, why).fresh
    BY Zenon DEF NoSweep
  <2>2. NoSweep.pc = "idle"
    BY Zenon DEF NoSweep
  <2>3. \/ \E why : phase # "Starting" /\ phase # "Failed" /\ sweep' = to("inflight", why)
        \/ \E why : sweep' = to("terminate", why)
        \/ phase = "Starting" /\ sweep' = NoSweep
    BY Zenon DEF SweepStart
  <2> HIDE DEF to
  <2>4. CASE \E why : phase # "Starting" /\ phase # "Failed" /\ sweep' = to("inflight", why)
    <3>1. phase # "Starting" /\ phase # "Failed" /\ sweep'.pc = "inflight"
      BY Zenon, <2>1, <2>4
    <3> QED
      BY Zenon, <3>1
  <2>5. CASE \E why : sweep' = to("terminate", why)
    <3>1. sweep'.pc = "terminate" /\ sweep'.fresh
      BY Zenon, <2>1, <2>5
    <3> QED
      BY Zenon, <3>1
  <2>6. CASE phase = "Starting" /\ sweep' = NoSweep
    <3>1. phase = "Starting" /\ sweep'.pc = "idle"
      BY Zenon, <2>2, <2>6
    <3> QED
      BY Zenon, <3>1
  <2> QED
    BY Zenon, <2>3, <2>4, <2>5, <2>6
<1>5. Lead' \in Nat /\ Late' \in Nat /\ (sweep'.pc # "idle" => Lead' = Interval)
  BY <1>4, Bounds DEF Lead, Late
<1>6. ASSUME Watched', Streams' # {}
      PROVE  CoverInv'
  <2>1. phase # "Failed" /\ CoverInv
    BY Zenon, <1>1, <1>4, <1>6 DEF Watched, IInv, CountInv
  <2>2. phase = "Ready" => Covers(swept, Cost(blips) + Interval + Lead)'
    <3> SUFFICES ASSUME phase = "Ready" PROVE now + TTL <= counter.exp + (Cost(blips) + Interval + Lead')
      BY Zenon, <1>1 DEF Covers
    <3>1. swept + TTL <= counter.exp + (Cost(blips) + Interval + 0)
      BY Zenon, <1>3, <2>1 DEF CoverInv, Covers
    <3>2. Lead' = Interval /\ Cost(blips) \in Nat
      BY <1>2, <1>4, <1>5, Costs
    <3> QED
      BY <1>2, <3>1, <3>2, Bounds
  <2>3. phase = "Idle" => Covers(swept, Lead)'
    <3> SUFFICES ASSUME phase = "Idle" PROVE now + TTL <= counter.exp + Lead'
      BY Zenon, <1>1 DEF Covers
    <3>1. swept + TTL <= counter.exp + 0
      BY Zenon, <1>3, <2>1 DEF CoverInv, Covers
    <3>2. Lead' = Interval
      BY <1>4, <1>5
    <3> QED
      BY <1>2, <3>1, <3>2, Bounds
  <2>4. phase = "Starting" => /\ Covers(since, Cost(blips - 1) + 3 * Interval + Late)'
                              /\ Covers(swept, Cost(blips - 1) + 3 * Interval + MaxUnready + Late)'
    <3> SUFFICES ASSUME phase = "Starting"
                 PROVE  /\ since + TTL <= counter.exp + (Cost(blips - 1) + 3 * Interval + Late')
                        /\ now + TTL <= counter.exp + (Cost(blips - 1) + 3 * Interval + MaxUnready + Late')
      BY Zenon, <1>1 DEF Covers
    <3>1. since + TTL <= counter.exp + (Cost(blips - 1) + 3 * Interval + 0)
      BY Zenon, <1>3, <2>1 DEF CoverInv, Covers
    <3>2. now - since <= MaxUnready /\ blips - 1 \in Nat
      BY <1>2 DEF IInv, TimeInv
    <3>3. Cost(blips - 1) \in Nat
      BY Zenon, <3>2, Costs
    <3> QED
      BY <1>2, <1>5, <3>1, <3>2, <3>3, Bounds
  <2> QED
    BY Zenon, <1>1, <1>4, <2>1, <2>2, <2>3, <2>4 DEF CoverInv
<1>7. Watched' => Watched
  BY Zenon, <1>1, <1>4 DEF Watched
<1> QED
  BY Zenon, <1>1, <1>6, <1>7 DEF IInv, CountInv

\* The sweep goes on: when it has read the counter the expiry is new.
LEMMA SweepCounts ==
    ASSUME IInv, Outlives, IsFiniteSet(Requests), TypeOK', TimeInv', Sweep
    PROVE  CountInv'
<1>1. /\ now \in Nat /\ counter \in [n : Nat, exp : Nat] /\ swept \in Nat /\ since \in Nat /\ blips \in Nat
      /\ UNCHANGED <<now, blips, req>> /\ Streams' = Streams
      /\ Cardinality(Streams') = Cardinality(Streams)
  <2>1. now \in Nat /\ counter \in [n : Nat, exp : Nat] /\ swept \in Nat /\ since \in Nat /\ blips \in Nat
    BY Bounds DEF IInv, TypeOK
  <2>2. UNCHANGED <<now, blips, req>>
    BY Zenon DEF Sweep, SweepStart, ReadInFlight, ReadLastActive, terminate, MarkIdle
  <2>3. Streams' = Streams
    BY Zenon, <2>2 DEF Streams, Counted
  <2> QED
    BY Zenon, <2>1, <2>2, <2>3
<1>2. CASE ReadInFlight
  <2>1. ASSUME Watched', Streams' # {}
        PROVE  Cardinality(Streams') <= counter'.n /\ CoverInv'
    <3>1. Watched /\ Streams # {}
      BY Zenon, <1>1, <1>2, <2>1 DEF ReadInFlight, Watched
    <3>2. counter.exp > now /\ Value = counter.n /\ Cardinality(Streams) <= counter.n
      BY Zenon, <3>1, NotExpired DEF IInv, CountInv
    <3>3. counter' = [n |-> Incr(0), exp |-> now + TTL]
      BY <1>1, <1>2, <3>2 DEF ReadInFlight, InFlight
    <3>4. Incr(0) = counter.n
      BY <1>1, <3>2 DEF Incr
    <3>5. counter'.exp = now + TTL /\ counter'.n = counter.n
      BY Zenon, <3>3, <3>4
    <3> QED
      BY Zenon, <1>1, <3>2, <3>5, RefreshCovers
  <2> QED
    BY Zenon, <2>1 DEF CountInv
<1>3. CASE ReadLastActive
  <2>1. /\ UNCHANGED <<phase, since, desired, counter, swept>> /\ sweep.pc = "active"
        /\ sweep'.pc \in {"terminate", "markIdle", "idle"}
    <3>1. [sweep EXCEPT !.pc = "terminate", !.reason = "idle"].pc = "terminate"
          /\ [sweep EXCEPT !.pc = "markIdle"].pc = "markIdle" /\ NoSweep.pc = "idle"
      BY Zenon DEF IInv, TypeOK, NoSweep
    <3> QED
      BY Zenon, <1>3, <3>1 DEF ReadLastActive
  <2>2. Late = 0 /\ Lead' \in Nat /\ Late' \in Nat
    BY <2>1, Bounds DEF Lead, Late
  <2>3. ASSUME Watched', Streams' # {}
        PROVE  CoverInv'
    <3>1. phase # "Failed" /\ CoverInv
      BY Zenon, <1>1, <2>1, <2>3 DEF Watched, IInv, CountInv
    <3>2. swept + TTL <= counter.exp + 0
      BY Zenon, <2>1, <3>1 DEF CoverInv, Covers
    <3>3. \A d \in Nat : Covers(swept, d)'
      BY <1>1, <2>1, <3>2, Bounds DEF Covers
    <3>4. Cost(blips) \in Nat /\ (phase = "Starting" => Cost(blips - 1) \in Nat)
      BY <1>1, Costs DEF IInv, TimeInv
    <3>5. Cost(blips) + Interval + Lead' \in Nat /\ 0 \in Nat
      BY <2>2, <3>4, Bounds
    <3>6. phase = "Starting" => Cost(blips - 1) + 3 * Interval + MaxUnready + Late' \in Nat
      BY <2>2, <3>4, Bounds
    <3>7. phase = "Starting" => since + TTL <= counter.exp + (Cost(blips - 1) + 3 * Interval + Late')
      <4> SUFFICES ASSUME phase = "Starting"
                   PROVE  since + TTL <= counter.exp + (Cost(blips - 1) + 3 * Interval + Late')
        OBVIOUS
      <4>1. since + TTL <= counter.exp + (Cost(blips - 1) + 3 * Interval + 0)
        BY Zenon, <2>2, <3>1 DEF CoverInv, Covers
      <4> QED
        BY <1>1, <2>2, <3>4, <4>1, Bounds
    <3> QED
      BY Zenon, <1>1, <2>1, <2>2, <3>3, <3>5, <3>6, <3>7 DEF CoverInv, Covers
  <2> QED
    BY Zenon, <1>1, <2>1, <2>3 DEF IInv, CountInv, Watched
<1>4. CASE terminate
  <2>1. NoSweep.pc = "idle"
    BY Zenon DEF NoSweep
  <2>2. CASE sweep.fresh
    BY Zenon, <1>4, <2>2 DEF terminate, CountInv, Watched
  <2>3. CASE ~sweep.fresh
    <3>1. UNCHANGED <<phase, since, counter, swept>> /\ sweep'.pc = "idle"
          /\ Lead = 0 /\ Lead' = 0 /\ Late = 0 /\ Late' = 0
      BY Zenon, <1>4, <2>1, <2>3 DEF terminate, Lead, Late
    <3>2. Watched' => Watched
      BY Zenon, <1>4, <2>3, <3>1 DEF terminate, Watched
    <3>3. CoverInv => CoverInv'
      BY Zenon, <1>1, <3>1 DEF CoverInv, Covers
    <3> QED
      BY Zenon, <1>1, <3>1, <3>2, <3>3 DEF IInv, CountInv
  <2> QED
    BY Zenon, <2>2, <2>3
<1>5. CASE MarkIdle
  <2>1. NoSweep.pc = "idle"
    BY Zenon DEF NoSweep
  <2>2. UNCHANGED <<desired, counter, swept>> /\ sweep.pc = "markIdle" /\ sweep'.pc = "idle"
        /\ Lead = 0 /\ Lead' = 0 /\ Late = 0 /\ Late' = 0
    BY Zenon, <1>5, <2>1 DEF MarkIdle, Lead, Late
  <2>3. CASE ~sweep.fresh
    <3>1. UNCHANGED <<phase, since>>
      BY Zenon, <1>5, <2>3 DEF MarkIdle
    <3>2. Watched' => Watched
      BY Zenon, <2>2, <3>1 DEF Watched
    <3>3. CoverInv => CoverInv'
      BY Zenon, <1>1, <2>2, <3>1 DEF CoverInv, Covers
    <3> QED
      BY Zenon, <1>1, <2>2, <3>2, <3>3 DEF IInv, CountInv
  <2>4. CASE sweep.fresh
    <3>1. phase' = "Idle" /\ phase # "Failed"
      BY Zenon, <1>5, <2>4 DEF MarkIdle, IInv, SweepInv
    <3>2. Watched' => Watched
      BY Zenon, <2>2, <3>1 DEF Watched
    <3>3. CoverInv => CoverInv'
      BY Zenon, <1>1, <2>2, <3>1 DEF CoverInv, Covers
    <3> QED
      BY Zenon, <1>1, <2>2, <3>2, <3>3 DEF IInv, CountInv
  <2> QED
    BY Zenon, <2>3, <2>4
<1> QED
  BY Zenon, <1>2, <1>3, <1>4, <1>5, SweepStartCounts DEF Sweep

\* The pod's readiness changes: the sweep in progress will be refused, and its
\* lead is charged to the change.
LEMMA SetPhaseCounts ==
    ASSUME IInv, TypeOK', SetPhase
    PROVE  CountInv'
<1>1. /\ UNCHANGED <<now, desired, counter, swept, req>> /\ ~desired
      /\ phase' = "Starting" => since' = now
      /\ Streams' = Streams /\ Cardinality(Streams') = Cardinality(Streams)
      /\ phase # "Failed" /\ phase' \in {"Failed", "Starting", "Ready"} /\ phase' # phase
      /\ blips' = IF phase' = "Starting" THEN blips + 1 ELSE blips
  BY Zenon DEF SetPhase, Streams, Counted
<1>2. /\ now \in Nat /\ swept \in Nat /\ since \in Nat /\ counter.exp \in Nat /\ blips \in Nat
      /\ now <= swept + Interval /\ phase \in {"Starting", "Ready", "Idle"}
  BY <1>1, Bounds DEF IInv, TypeOK, TimeInv, RunPhases
<1>3. sweep'.pc = sweep.pc /\ (sweep.pc # "idle" => ~sweep'.fresh)
  BY Zenon DEF SetPhase, IInv, TypeOK
<1>4. /\ Lead \in {0, Interval} /\ Late' = Late /\ Lead' = Late
      /\ Late = IF sweep.pc = "inflight" THEN Interval ELSE 0
      /\ sweep.pc = "inflight" => Lead = Interval
  BY Zenon, <1>3 DEF Lead, Late
<1>5. ASSUME Streams # {}, phase' = "Failed" => sweep.pc = "inflight"
      PROVE  CoverInv'
  <2>1. CoverInv
    BY Zenon, <1>1, <1>5 DEF Watched, IInv, CountInv
  <2>2. /\ Cost(blips) \in Nat /\ Cost(blips + 1) = Cost(blips) + Gap
        /\ Gap = MaxUnready + 2 * Interval
    BY Zenon, <1>2, Costs
  <2>3. phase = "Starting" => Cost(blips - 1) \in Nat /\ Cost(blips) = Cost(blips - 1) + Gap
    <3>1. phase = "Starting" => blips - 1 \in Nat /\ (blips - 1) + 1 = blips
      BY <1>2 DEF IInv, TimeInv
    <3> QED
      BY Zenon, <3>1, Costs
  <2>4. swept + TTL <= counter.exp + (Cost(blips) + Interval + Lead)
    <3>1. CASE phase = "Ready"
      BY Zenon, <2>1, <3>1 DEF CoverInv, Covers
    <3>2. CASE phase = "Idle"
      <4>1. swept + TTL <= counter.exp + Lead
        BY Zenon, <2>1, <3>2 DEF CoverInv, Covers
      <4> QED
        BY <1>2, <1>4, <2>2, <4>1, Bounds
    <3>3. CASE phase = "Starting"
      <4>1. swept + TTL <= counter.exp + (Cost(blips - 1) + 3 * Interval + MaxUnready + Late)
        BY Zenon, <2>1, <3>3 DEF CoverInv, Covers
      <4> QED
        BY <1>2, <1>4, <2>2, <2>3, <3>3, <4>1, Bounds
    <3> QED
      BY Zenon, <1>2, <3>1, <3>2, <3>3
  <2>5. phase' = "Failed" => swept + TTL <= counter.exp + (Cost(blips) + Interval + Late)
    BY Zenon, <1>4, <1>5, <2>4
  <2>6. phase' = "Ready" => swept + TTL <= counter.exp + (Cost(blips) + Interval + Late)
    <3>1. CASE phase = "Idle"
      <4>1. swept + TTL <= counter.exp + Lead
        BY Zenon, <2>1, <3>1 DEF CoverInv, Covers
      <4> QED
        BY <1>2, <1>4, <2>2, <4>1, Bounds
    <3>2. CASE phase = "Starting"
      <4>1. swept + TTL <= counter.exp + (Cost(blips - 1) + 3 * Interval + MaxUnready + Late)
        BY Zenon, <2>1, <3>2 DEF CoverInv, Covers
      <4> QED
        BY <1>2, <1>4, <2>2, <2>3, <3>2, <4>1, Bounds
    <3> QED
      BY Zenon, <1>1, <1>2, <3>1, <3>2
  <2>7. /\ now + TTL <= counter.exp + (Cost(blips) + 3 * Interval + Late)
        /\ swept + TTL <= counter.exp + (Cost(blips) + 3 * Interval + MaxUnready + Late)
    BY <1>2, <1>4, <2>2, <2>4, Bounds
  <2>8. phase' = "Starting" => blips' - 1 = blips
    BY <1>1, <1>2
  <2>9. sweep.pc \in {"active", "markIdle"} => swept + TTL <= counter.exp + 0
    BY Zenon, <2>1 DEF CoverInv, Covers
  <2>10. CASE phase' = "Starting"
    BY Zenon, <1>1, <1>3, <1>4, <2>7, <2>8, <2>9, <2>10 DEF CoverInv, Covers
  <2>11. CASE phase' \in {"Ready", "Failed"}
    <3>1. blips' = blips
      BY Zenon, <1>1, <2>11
    <3> QED
      BY Zenon, <1>1, <1>3, <1>4, <2>5, <2>6, <2>9, <2>11, <3>1 DEF CoverInv, Covers
  <2> QED
    BY Zenon, <1>1, <2>10, <2>11
<1>6. Watched /\ (Watched' => (phase' = "Failed" => sweep.pc = "inflight"))
  BY Zenon, <1>1, <1>3 DEF Watched
<1> QED
  BY Zenon, <1>1, <1>5, <1>6 DEF IInv, CountInv

-----------------------------------------------------------------------------
(***************************************************************************)
(* The sweep.                                                              *)
(***************************************************************************)

\* Sweeps start on time, and the pod is not unready for too long.
LEMMA TimeNext ==
    ASSUME TypeOK, TimeInv, [Next]_vars
    PROVE  TimeInv'
<1>1. /\ now \in Nat /\ swept \in Nat /\ since \in Nat /\ blips \in Nat
  BY Bounds DEF TypeOK
<1>2. ASSUME NEW q \in Requests, Request(q)
      PROVE  TimeInv'
  <2>1. UNCHANGED <<now, phase, since, blips, desired, sweep, swept>>
    BY Zenon, <1>2 DEF Request, Enter, Refuse, Count, Touch, EndRequest, LoseRequest
  <2> QED
    BY Zenon, <2>1 DEF TimeInv
<1>3. CASE SweepStart
  <2>1. UNCHANGED <<now, phase, since, blips, desired>> /\ swept' = now /\ ~desired
    BY Zenon, <1>3 DEF SweepStart
  <2> QED
    BY <1>1, <2>1, Bounds DEF TimeInv
<1>4. CASE ReadInFlight \/ ReadLastActive
  <2>1. UNCHANGED <<now, phase, since, blips, desired, swept>> /\ sweep.pc # "idle"
    BY Zenon, <1>4 DEF ReadInFlight, ReadLastActive
  <2> QED
    BY Zenon, <2>1 DEF TimeInv
<1>5. CASE terminate
  <2>1. UNCHANGED <<now, phase, since, blips, swept>> /\ sweep'.pc = "idle" /\ (desired => desired')
    BY Zenon, <1>5 DEF terminate, NoSweep
  <2> QED
    BY Zenon, <2>1 DEF TimeInv
<1>6. CASE MarkIdle
  <2>1. /\ UNCHANGED <<now, blips, desired, swept>> /\ sweep'.pc = "idle"
        /\ phase' = "Starting" => phase = "Starting" /\ since' = since
    BY Zenon, <1>6 DEF MarkIdle, NoSweep
  <2> QED
    BY Zenon, <2>1 DEF TimeInv
<1>7. CASE SetPhase
  <2>1. /\ UNCHANGED <<now, desired, swept>> /\ ~desired
        /\ phase' = "Starting" => since' = now /\ blips' = blips + 1
    BY Zenon, <1>7 DEF SetPhase
  <2> QED
    BY <1>1, <2>1, Bounds DEF TimeInv
<1>8. CASE Sync
  BY Zenon, <1>8 DEF Sync, TimeInv
<1>9. CASE Tick
  <2>1. /\ UNCHANGED <<phase, since, blips, desired, sweep, swept>> /\ now' = now + 1
        /\ ~desired => now - swept < Interval
        /\ phase = "Starting" => now - since < MaxUnready
    BY Zenon, <1>9 DEF Tick
  <2> QED
    BY <1>1, <2>1, Bounds DEF TimeInv
<1>10. CASE UNCHANGED vars
  BY Zenon, <1>10 DEF vars, TimeInv
<1> QED
  BY Zenon, <1>2, <1>3, <1>4, <1>5, <1>6, <1>7, <1>8, <1>9, <1>10 DEF Next, Sweep

\* A sweep that found a request counted has read a counter above zero.
LEMMA SweepNext ==
    ASSUME IInv, Outlives, IsFiniteSet(Requests), [Next]_vars
    PROVE  SweepInv'
<1> DEFINE Fits(x, p) == /\ x.reason \in {"idle", "max age"} => ~x.busy
                         /\ x.pc \in {"active", "markIdle"} /\ x.busy => x.n > 0
                         /\ x.pc \in {"inflight", "active", "markIdle"} /\ x.fresh => p # "Failed"
<1>1. SweepInv <=> Fits(sweep, phase)
  BY Zenon DEF SweepInv, SparesRequests
<1>2. SweepInv' <=> Fits(sweep', phase')
  BY Zenon DEF SweepInv, SparesRequests
<1>3. \A p : Fits(NoSweep, p)
  BY Zenon DEF NoSweep
<1>4. ASSUME UNCHANGED <<sweep, phase>>
      PROVE  SweepInv'
  BY Zenon, <1>1, <1>2, <1>4 DEF IInv
<1>5. CASE SweepStart
  <2> DEFINE to(pc, why) == [NoSweep EXCEPT !.pc = pc, !.at = now, !.phase = phase, !.reason = why]
  <2>1. \A pc, why : ~to(pc, why).busy /\ to(pc, why).pc = pc
    BY Zenon DEF NoSweep
  <2>2. \/ \E why : phase # "Failed" /\ sweep' = to("inflight", why)
        \/ \E why : sweep' = to("terminate", why)
        \/ sweep' = NoSweep
    BY Zenon, <1>5 DEF SweepStart
  <2>3. UNCHANGED phase
    BY Zenon, <1>5 DEF SweepStart
  <2> HIDE DEF to
  <2>4. CASE \E why : phase # "Failed" /\ sweep' = to("inflight", why)
    BY Zenon, <1>2, <2>1, <2>3, <2>4
  <2>5. CASE \E why : sweep' = to("terminate", why)
    <3>1. ~sweep'.busy /\ sweep'.pc = "terminate"
      BY Zenon, <2>1, <2>5
    <3> QED
      BY Zenon, <1>2, <3>1
  <2>6. CASE sweep' = NoSweep
    BY Zenon, <1>2, <1>3, <2>6
  <2> QED
    BY Zenon, <2>2, <2>4, <2>5, <2>6
<1>6. CASE ReadInFlight
  <2>1. /\ sweep.pc = "inflight" /\ UNCHANGED phase /\ sweep' = [sweep EXCEPT !.n = Value, !.reason = AgeReason(Value),
               !.pc = IF AgeReason(Value) = "none" THEN "active" ELSE "terminate",
               !.busy = \E q \in Requests : Counted(q)]
    BY Zenon, <1>6 DEF ReadInFlight
  <2>2. /\ sweep'.n = Value /\ sweep'.reason = AgeReason(Value) /\ sweep'.fresh = sweep.fresh
        /\ sweep'.busy => Streams # {}
    BY Zenon, <2>1 DEF IInv, TypeOK, Streams
  <2>3. ASSUME Streams # {}
        PROVE  Value > 0
    <3>1. Watched
      BY Zenon, <2>1 DEF IInv, TimeInv, Watched
    <3>2. Value = counter.n /\ Cardinality(Streams) <= counter.n
      BY Zenon, <2>3, <3>1, NotExpired DEF IInv, CountInv
    <3>3. Cardinality(Streams) \in Nat /\ Cardinality(Streams) # 0
      BY Zenon, <2>3, StreamsFinite, FS_EmptySet
    <3>4. counter.n \in Nat
      BY Zenon DEF IInv, TypeOK
    <3> QED
      BY <3>2, <3>3, <3>4
  <2>4. Value > 0 => AgeReason(Value) \notin {"idle", "max age"}
    BY DEF AgeReason
  <2> QED
    BY Zenon, <1>1, <1>2, <2>1, <2>2, <2>3, <2>4 DEF IInv
<1>7. CASE ReadLastActive
  <2>1. sweep.pc = "active" /\ UNCHANGED phase /\ sweep.n \in Nat
    BY Zenon, <1>7 DEF ReadLastActive, IInv, TypeOK
  <2>2. CASE sweep.n = 0 /\ sweep' = [sweep EXCEPT !.pc = "terminate", !.reason = "idle"]
    <3>1. sweep'.pc = "terminate" /\ sweep'.busy = sweep.busy
      BY Zenon, <2>2 DEF IInv, TypeOK
    <3>2. ~(sweep.n > 0)
      BY <2>2
    <3> QED
      BY Zenon, <1>1, <1>2, <2>1, <3>1, <3>2 DEF IInv
  <2>3. CASE sweep' = [sweep EXCEPT !.pc = "markIdle"]
    <3>1. /\ sweep'.pc = "markIdle" /\ sweep'.busy = sweep.busy /\ sweep'.n = sweep.n
          /\ sweep'.reason = sweep.reason /\ sweep'.fresh = sweep.fresh
      BY Zenon, <2>3 DEF IInv, TypeOK
    <3> QED
      BY Zenon, <1>1, <1>2, <2>1, <3>1 DEF IInv
  <2>4. CASE sweep' = NoSweep
    BY Zenon, <1>2, <1>3, <2>4
  <2> QED
    BY Zenon, <1>7, <2>2, <2>3, <2>4 DEF ReadLastActive
<1>8. CASE terminate \/ MarkIdle
  BY Zenon, <1>2, <1>3, <1>8 DEF terminate, MarkIdle
<1>9. CASE SetPhase
  <2>1. /\ sweep'.pc = sweep.pc /\ sweep'.busy = sweep.busy /\ sweep'.n = sweep.n
        /\ sweep'.reason = sweep.reason /\ (sweep.pc # "idle" => ~sweep'.fresh)
    BY Zenon, <1>9 DEF SetPhase, IInv, TypeOK
  <2> QED
    BY Zenon, <1>1, <1>2, <2>1 DEF IInv
<1>10. CASE (\E q \in Requests : Request(q)) \/ Sync \/ Tick \/ UNCHANGED vars
  BY Zenon, <1>4, <1>10 DEF Request, Enter, Refuse, Count, Touch, EndRequest, LoseRequest, Sync, Tick, vars
<1> QED
  BY Zenon, <1>5, <1>6, <1>7, <1>8, <1>9, <1>10 DEF Next, Sweep

\* The invariant holds at the start.
LEMMA InvInit == Init => IInv
<1> SUFFICES ASSUME Init PROVE IInv
  OBVIOUS
<1>1. TypeOK
  BY Zenon, InitType
<1>2. TimeInv
  BY Bounds DEF Init, NoSweep, TimeInv
<1>3. CountInv
  BY Zenon DEF Init, Streams, Counted, CountInv
<1>4. SweepInv
  BY Zenon DEF Init, NoSweep, SweepInv, SparesRequests
<1> QED
  BY Zenon, <1>1, <1>2, <1>3, <1>4 DEF IInv

\* Every step preserves it, when the counter lives long enough.
LEMMA InvNext ==
    ASSUME Outlives, IsFiniteSet(Requests)
    PROVE  IInv /\ [Next]_vars => IInv'
<1> SUFFICES ASSUME IInv, [Next]_vars PROVE IInv'
  OBVIOUS
<1>1. TypeOK' /\ TimeInv' /\ SweepInv'
  BY Zenon, NextType, TimeNext, SweepNext DEF IInv
<1>2. CASE Sync \/ Tick \/ UNCHANGED vars
  <2>1. UNCHANGED <<phase, since, blips, desired, counter, sweep, swept>> /\ Streams' \subseteq Streams
    BY Zenon, <1>2 DEF Sync, Tick, vars, Streams, Counted
  <2> QED
    BY Zenon, <1>1, <2>1, CountKept DEF IInv
<1> QED
  BY Zenon, <1>1, <1>2, RequestCounts, SweepCounts, SetPhaseCounts DEF Next, IInv

\* A request in flight keeps its session: if the counter lives longer than the
\* sweeps that may pass without reading it, no sweep gives a session up as idle
\* or too old while a request is counted, however long the request lasts.
THEOREM RequestsAreSpared ==
    ASSUME Outlives, IsFiniteSet(Requests)
    PROVE  Spec => []SparesRequests
<1>1. IInv => SparesRequests
  BY Zenon DEF IInv, SweepInv
<1>2. IInv /\ [Next]_vars => IInv'
  BY Zenon, InvNext
<1> QED
  BY <1>1, <1>2, InvInit, PTL DEF Spec
=============================================================================
