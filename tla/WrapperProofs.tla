---------------------------- MODULE WrapperProofs ----------------------------
(***************************************************************************)
(* The wrapper, for any number of requests, credentials, generations and   *)
(* crashes: first the stdio child, then the server of the http mode.       *)
(*                                                                         *)
(* The properties of the child rest on what its counters stand for.  The   *)
(* generation numbers order everything: a session is the process of the    *)
(* current generation, stopLocked ends the generation of the session it    *)
(* closes, and waitExit looks at the generation before it charges a crash. *)
(* inflight is the number of the requests that hold the session.           *)
(***************************************************************************)
EXTENDS MCWrapper, FiniteSetTheorems, TLAPS

Held == {c \in Calls : call[c].pc = "held"}

HeldCount == inflight = Cardinality(Held)

\* Only the current session runs; what was stopped is of an earlier generation.
ProcInv ==
    /\ running \subseteq {session} \ {0}
    /\ \A g \in waiting : g <= generation
    /\ \A g \in stopped : g < generation

\* How far a request is with the session it got.
CallAt(r) ==
    /\ r.pc # "idle" => r.sess # 0 /\ r.sess <= generation
    /\ r.pc = "held" => r.sess \notin stopped
    /\ r.pc = "held" /\ r.sess = session /\ Rotated(r.token, r.fp) => restartAtIdle
    /\ r.pc = "rpc" => r.sess <= r.gen /\ r.gen <= generation
    /\ r.pc = "store" => r.gen = r.sess
    /\ r.pc = "mirrored" => r.of = r.sess

CallInv == \A c \in Calls : CallAt(call[c])

\* A listing that is kept is one of the generation it is kept for.
ListInv == lists.of \in {0, lists.gen}

\* A process that ended by itself, and whose waitExit has not charged it yet, has its place in
\* the budget.
BudgetInv ==
    /\ restarts <= crashes
    /\ generation \in waiting \ running => restarts + 1 <= crashes

ChildIInv == TypeOK /\ HeldCount /\ ProcInv /\ CallInv /\ ListInv /\ BudgetInv

CallRecords == [pc : CallSteps, sess : Generations, token : ChildTokens \cup {None},
                fp : Secrets \cup {None}, gen : Generations, of : Generations]

USE ChildAssumption

\* A request that is not held, or is, and is then, or is not: what becomes of the count.
LEMMA HeldChanges ==
    ASSUME TypeOK, HeldCount, NEW c \in Calls, NEW r \in CallRecords,
           call' = [call EXCEPT ![c] = r]
    PROVE  LET n == Cardinality(Held') IN
           /\ IsFiniteSet(Held) /\ inflight \in Nat /\ n \in Nat
           /\ call[c].pc # "held" /\ r.pc # "held" => n = inflight
           /\ call[c].pc # "held" /\ r.pc = "held" => n = inflight + 1
           /\ call[c].pc = "held" /\ r.pc # "held" => n = inflight - 1
           /\ inflight = 0 => Held = {}
           /\ n = 0 => Held' = {}
<1>1. call \in [Calls -> CallRecords]
  BY Zenon DEF TypeOK, CallRecords
<1>2. /\ call'[c] = r /\ \A x \in Calls : x # c => call'[x] = call[x]
  BY Zenon, <1>1
<1>3. IsFiniteSet(Held) /\ IsFiniteSet(Held')
  <2>1. Held \subseteq Calls /\ Held' \subseteq Calls
    BY Zenon DEF Held
  <2> QED
    BY Zenon, <2>1, FS_Subset
<1>4. Cardinality(Held) \in Nat /\ Cardinality(Held') \in Nat
  BY Zenon, <1>3, FS_CardinalityType
<1>5. CASE call[c].pc # "held" /\ r.pc # "held"
  <2>1. Held' = Held
    BY Zenon, <1>2, <1>5 DEF Held
  <2> QED
    BY Zenon, <1>3, <1>4, <1>5, <2>1, FS_EmptySet DEF HeldCount
<1>6. CASE call[c].pc # "held" /\ r.pc = "held"
  <2>1. Held' = Held \cup {c} /\ c \notin Held
    BY Zenon, <1>2, <1>6 DEF Held
  <2>2. Cardinality(Held') = Cardinality(Held) + 1
    BY Zenon, <1>3, <2>1, FS_AddElement
  <2> QED
    BY Zenon, <1>3, <1>4, <1>6, <2>2, FS_EmptySet DEF HeldCount
<1>7. CASE call[c].pc = "held" /\ r.pc # "held"
  <2>1. Held' = Held \ {c} /\ c \in Held
    BY Zenon, <1>2, <1>7 DEF Held
  <2>2. Cardinality(Held') = Cardinality(Held) - 1
    BY Zenon, <1>3, <2>1, FS_RemoveElement
  <2> QED
    BY Zenon, <1>3, <1>4, <1>7, <2>2, FS_EmptySet DEF HeldCount
<1>8. CASE call[c].pc = "held" /\ r.pc = "held"
  <2>1. Held' = Held
    BY Zenon, <1>2, <1>8 DEF Held
  <2> QED
    BY Zenon, <1>3, <1>4, <1>8, <2>1, FS_EmptySet DEF HeldCount
<1> QED
  BY Zenon, <1>5, <1>6, <1>7, <1>8

\* With no request in flight none holds a session.
LEMMA NoneHeld ==
    ASSUME TypeOK, HeldCount, inflight = 0
    PROVE  \A c \in Calls : call[c].pc # "held"
<1>1. IsFiniteSet(Held)
  <2>1. Held \subseteq Calls
    BY Zenon DEF Held
  <2> QED
    BY Zenon, <2>1, FS_Subset
<1>2. Held = {}
  BY Zenon, <1>1, FS_EmptySet DEF HeldCount
<1> QED
  BY Zenon, <1>2 DEF Held

\* The numbers are numbers, and a request has a record.
LEMMA ChildTypes ==
    ASSUME TypeOK
    PROVE  /\ generation \in Nat /\ session \in Nat /\ restarts \in Nat /\ crashes \in Nat
           /\ inflight \in Nat /\ session \in {0, generation}
           /\ lists.of \in Nat /\ lists.gen \in Nat
           /\ \A g \in running \cup waiting \cup stopped : g \in Nat
           /\ call \in [Calls -> CallRecords]
           /\ \A c \in Calls : /\ call[c] \in CallRecords /\ call[c].sess \in Nat
                               /\ call[c].gen \in Nat /\ call[c].of \in Nat
<1>1. Generations \subseteq Nat
  BY DEF Generations
<1>2. /\ generation \in Generations /\ session \in {0, generation}
      /\ restarts \in 0 .. MaxCrashes /\ crashes \in 0 .. MaxCrashes /\ inflight \in Nat
      /\ lists \in [of : Generations, gen : Generations]
      /\ running \subseteq Generations /\ waiting \subseteq Generations
      /\ stopped \subseteq Generations
  BY Zenon DEF TypeOK
<1>3. call \in [Calls -> CallRecords]
  BY Zenon DEF TypeOK, CallRecords
<1>4. \A r \in CallRecords : r.sess \in Generations /\ r.gen \in Generations /\ r.of \in Generations
  BY Zenon DEF CallRecords
<1>5. \A g \in running \cup waiting \cup stopped : g \in Nat
  BY Zenon, <1>1, <1>2
<1>6. lists.of \in Nat /\ lists.gen \in Nat
  BY Zenon, <1>1, <1>2
<1>7. \A c \in Calls : /\ call[c] \in CallRecords /\ call[c].sess \in Nat
                       /\ call[c].gen \in Nat /\ call[c].of \in Nat
  BY Zenon, <1>1, <1>3, <1>4
<1> QED
  BY <1>1, <1>2, <1>3, <1>5, <1>6, <1>7

\* What a request is doing when it got session s, with credentials t and f, to go on with pc.
LEMMA GotRecord ==
    ASSUME TypeOK, NEW c \in Calls, NEW t \in ChildTokens \cup {None}, NEW f \in Secrets \cup {None},
           NEW pc \in {"held", "list"}, NEW s \in Generations, Got(c, t, f, pc, s)
    PROVE  \E r \in CallRecords :
              /\ call' = [call EXCEPT ![c] = r] /\ call'[c] = r
              /\ \A x \in Calls : x # c => call'[x] = call[x]
              /\ r.pc = pc /\ r.sess = s /\ r.token = t /\ r.fp = f
<1> DEFINE r == [IdleCall EXCEPT !.pc = pc, !.sess = s, !.token = t, !.fp = f]
<1>0. 0 \in Generations
  BY DEF Generations
<1>1. /\ r \in CallRecords /\ r.pc = pc /\ r.sess = s /\ r.token = t /\ r.fp = f
  BY Zenon, <1>0 DEF IdleCall, CallRecords, CallSteps
<1>2. call' = [call EXCEPT ![c] = r]
  BY Zenon DEF Got
<1> HIDE DEF r
<1>3. call \in [Calls -> CallRecords]
  BY Zenon, ChildTypes
<1>4. call'[c] = r /\ \A x \in Calls : x # c => call'[x] = call[x]
  BY Zenon, <1>2, <1>3
<1> QED
  BY Zenon, <1>1, <1>2, <1>4

\* The session that is there is handed out.
LEMMA ReuseInv ==
    ASSUME ChildIInv, NEW c \in Calls, NEW t \in ChildTokens \cup {None}, NEW f \in Secrets \cup {None},
           NEW pc \in {"held", "list"}, call[c].pc = "idle", Reuse(c, t, f, pc)
    PROVE  ChildIInv'
<1> USE DEF ChildIInv
<1>1. /\ session # 0 /\ restartAtIdle' = (restartAtIdle \/ Rotated(t, f))
      /\ Got(c, t, f, pc, session) /\ inflight' = IF pc = "held" THEN inflight + 1 ELSE inflight
      /\ UNCHANGED <<session, generation, token, secretsFP, restarts, lists, tokenFile, procVars>>
  BY Zenon DEF Reuse, Holds
<1>2. session \in Generations
  BY DEF TypeOK, Generations
<1>3. PICK r \in CallRecords :
         /\ call' = [call EXCEPT ![c] = r] /\ call'[c] = r
         /\ \A x \in Calls : x # c => call'[x] = call[x]
         /\ r.pc = pc /\ r.sess = session /\ r.token = t /\ r.fp = f
  BY <1>1, <1>2, GotRecord
<1>4. HeldCount' /\ inflight' \in Nat
  BY Zenon, <1>1, <1>3, HeldChanges DEF HeldCount
<1>5. TypeOK'
  <2>1. call' \in [Calls -> CallRecords]
    BY Zenon, <1>3, ChildTypes
  <2>2. restartAtIdle' \in BOOLEAN
    BY Zenon, <1>1 DEF Rotated, TypeOK
  <2> QED
    BY Zenon, <1>1, <1>4, <2>1, <2>2 DEF TypeOK, CallRecords, procVars
<1>6. ProcInv' /\ ListInv' /\ BudgetInv'
  BY Zenon, <1>1 DEF ProcInv, ListInv, BudgetInv, procVars
<1>7. ASSUME NEW x \in Calls PROVE CallAt(call[x])'
  <2>1. CASE x = c
    <3>1. session <= generation /\ session \notin stopped
      BY <1>1, ChildTypes DEF ProcInv
    <3>2. CallAt(r)'
      BY Zenon, <1>1, <1>3, <3>1 DEF CallAt, Rotated, procVars
    <3> QED
      BY Zenon, <1>3, <2>1, <3>2 DEF CallAt, Rotated
  <2>2. CASE x # c
    <3>1. CallAt(call[x]) /\ call'[x] = call[x]
      BY Zenon, <1>3, <2>2 DEF CallInv
    <3> QED
      BY Zenon, <1>1, <3>1 DEF CallAt, Rotated, procVars
  <2> QED
    BY Zenon, <2>1, <2>2
<1> QED
  BY Zenon, <1>4, <1>5, <1>6, <1>7 DEF CallInv

\* stopLocked, before a start: the session it closes is held by nobody, and its generation ends.
LEMMA StopFacts ==
    ASSUME ChildIInv, NEW t, NEW f, MustStart(t, f)
    PROVE  /\ AfterStop \in Nat /\ generation <= AfterStop
           /\ running \ Closed = {}
           /\ \A g \in stopped \cup Closed : g < AfterStop /\ g \in Generations
           /\ \A c \in Calls : call[c].pc = "held" => call[c].sess \notin stopped \cup Closed
           /\ \A g \in waiting : g <= generation
           /\ session # 0 => AfterStop = generation + 1
           /\ session = 0 => AfterStop = generation /\ running = {}
<1> USE DEF ChildIInv
<1>0. session \in Generations
  BY DEF TypeOK, Generations
<1>1. CASE session = 0
  BY <1>1, ChildTypes DEF AfterStop, Closed, ProcInv, CallInv, CallAt, TypeOK
<1>2. CASE session # 0
  <2>1. \A c \in Calls : call[c].pc # "held"
    BY Zenon, <1>2, NoneHeld DEF MustStart
  <2> QED
    BY <1>0, <1>2, <2>1, ChildTypes DEF AfterStop, Closed, ProcInv, TypeOK
<1> QED
  BY Zenon, <1>1, <1>2

\* A start: the session is a new one, and whoever holds one holds an earlier one.
LEMMA StartInv ==
    ASSUME ChildIInv, NEW c \in Calls, NEW t \in ChildTokens \cup {None}, NEW f \in Secrets \cup {None},
           NEW pc \in {"held", "list"}, call[c].pc = "idle", Start(c, t, f, pc)
    PROVE  ChildIInv'
<1> USE DEF ChildIInv
<1> DEFINE n == AfterStop + 1
<1>1. /\ n \in Generations /\ generation' = n /\ session' = n /\ token' = t /\ secretsFP' = f
      /\ tokenFile' = IF TokenMode = "file" /\ t # None THEN t ELSE tokenFile
      /\ running' = (running \ Closed) \cup {n} /\ waiting' = waiting \cup {n}
      /\ stopped' = stopped \cup Closed
      /\ Got(c, t, f, pc, n) /\ inflight' = IF pc = "held" THEN inflight + 1 ELSE inflight
      /\ UNCHANGED <<restarts, restartAtIdle, lists, crashes>>
  BY Zenon DEF Start, Holds
<1>2. MustStart(t, f)
  BY Zenon DEF Start
<1>3. /\ n \in Nat /\ generation < n /\ AfterStop < n
      /\ running \ Closed = {}
      /\ \A g \in stopped \cup Closed : g < n /\ g \in Generations
      /\ \A x \in Calls : call[x].pc = "held" => call[x].sess \notin stopped \cup Closed
      /\ \A g \in waiting : g < n
  <2>1. /\ AfterStop \in Nat /\ generation <= AfterStop
        /\ running \ Closed = {}
        /\ \A g \in stopped \cup Closed : g < AfterStop /\ g \in Generations
        /\ \A x \in Calls : call[x].pc = "held" => call[x].sess \notin stopped \cup Closed
        /\ \A g \in waiting : g <= generation
    BY Zenon, <1>2, StopFacts
  <2>2. generation \in Nat /\ \A g \in Generations : g \in Nat
    BY ChildTypes DEF Generations
  <2>3. \A g \in waiting : g \in Nat
    BY Zenon, ChildTypes
  <2>4. n \in Nat /\ generation < n /\ AfterStop < n
    BY <2>1, <2>2
  <2>5. \A g \in stopped \cup Closed : g < n
    BY <2>1, <2>2
  <2>6. \A g \in waiting : g < n
    BY <2>1, <2>2, <2>3, <2>4
  <2> QED
    BY Zenon, <2>1, <2>4, <2>5, <2>6
<1>4. PICK r \in CallRecords :
         /\ call' = [call EXCEPT ![c] = r] /\ call'[c] = r
         /\ \A x \in Calls : x # c => call'[x] = call[x]
         /\ r.pc = pc /\ r.sess = n /\ r.token = t /\ r.fp = f
  BY <1>1, GotRecord
<1> HIDE DEF n
<1>5. HeldCount' /\ inflight' \in Nat
  BY Zenon, <1>1, <1>4, HeldChanges DEF HeldCount
<1>6. TypeOK'
  <2>1. call' \in [Calls -> CallRecords]
    BY Zenon, <1>4, ChildTypes
  <2>2. running' \subseteq Generations /\ waiting' \subseteq Generations /\ stopped' \subseteq Generations
    BY Zenon, <1>1, <1>3 DEF TypeOK
  <2> QED
    BY Zenon, <1>1, <1>5, <2>1, <2>2 DEF TypeOK, CallRecords
<1>7. ProcInv'
  BY <1>1, <1>3, ChildTypes DEF ProcInv
<1>8. ListInv' /\ BudgetInv'
  BY Zenon, <1>1 DEF ListInv, BudgetInv
<1>9. ASSUME NEW x \in Calls PROVE CallAt(call[x])'
  <2>1. CASE x = c
    <3>1. ~Rotated(t, f)'
      BY Zenon, <1>1 DEF Rotated
    <3>2. n # 0 /\ n <= n /\ n \notin stopped'
      <4>1. generation \in Nat
        BY Zenon, ChildTypes
      <4> QED
        BY <1>1, <1>3, <4>1
    <3> QED
      BY Zenon, <1>1, <1>4, <2>1, <3>1, <3>2 DEF CallAt, Rotated
  <2>2. CASE x # c
    <3>1. CallAt(call[x]) /\ call'[x] = call[x]
      BY Zenon, <1>4, <2>2 DEF CallInv
    <3>2. call[x].sess \in Nat /\ call[x].gen \in Nat /\ generation \in Nat
      BY Zenon, ChildTypes
    <3>3. call[x].pc # "idle" => call[x].sess < n
      BY <1>3, <3>1, <3>2 DEF CallAt
    <3>4. call[x].pc = "rpc" => call[x].gen < n
      BY <1>3, <3>1, <3>2 DEF CallAt
    <3>5. call[x].pc = "held" => call[x].sess \notin stopped'
      BY Zenon, <1>1, <1>3
    <3> QED
      BY SMTT(30), <1>1, <1>3, <3>1, <3>2, <3>3, <3>4, <3>5 DEF CallAt
  <2> QED
    BY Zenon, <2>1, <2>2
<1> QED
  BY Zenon, <1>5, <1>6, <1>7, <1>8, <1>9 DEF CallInv

\* No session is left: stopLocked closed it, if there was one.
LEMMA DownInv ==
    ASSUME ChildIInv, NEW t, NEW f, MustStart(t, f),
           AfterStop \in Generations, generation' = AfterStop, session' = 0,
           tokenFile' \in ChildTokens \cup {None},
           running' = running \ Closed, stopped' = stopped \cup Closed,
           UNCHANGED <<token, secretsFP, inflight, restartAtIdle, lists, waiting, call>>,
           \/ restarts' = restarts /\ crashes' = crashes
           \/ crashes < MaxCrashes /\ restarts' = restarts + 1 /\ crashes' = crashes + 1
    PROVE  ChildIInv'
<1> USE DEF ChildIInv
<1>1. /\ AfterStop \in Nat /\ generation <= AfterStop
      /\ running \ Closed = {}
      /\ \A g \in stopped \cup Closed : g < AfterStop /\ g \in Generations
      /\ \A x \in Calls : call[x].pc = "held" => call[x].sess \notin stopped \cup Closed
      /\ \A g \in waiting : g <= generation
      /\ session # 0 => AfterStop = generation + 1
      /\ session = 0 => AfterStop = generation /\ running = {}
  BY Zenon, StopFacts
<1>2. /\ generation \in Nat /\ restarts \in Nat /\ crashes \in Nat
      /\ \A g \in waiting : g \in Nat
  BY Zenon, ChildTypes
<1>3. HeldCount'
  BY Zenon DEF HeldCount, Held
<1>4. BudgetInv'
  <2>1. CASE session = 0
    BY <1>1, <1>2, <2>1 DEF BudgetInv
  <2>2. CASE session # 0
    <3>1. generation' \notin waiting
      BY <1>1, <1>2, <2>2
    <3> QED
      BY <1>2, <3>1 DEF BudgetInv
  <2> QED
    BY Zenon, <2>1, <2>2
<1>5. TypeOK'
  <2>1. crashes' \in 0 .. MaxCrashes /\ crashes' \in Nat /\ restarts' \in Nat
    BY <1>2 DEF TypeOK
  <2>2. restarts' \in 0 .. MaxCrashes
    BY <1>4, <2>1 DEF BudgetInv
  <2>3. running' \subseteq Generations /\ stopped' \subseteq Generations
    BY Zenon, <1>1
  <2> QED
    BY Zenon, <2>1, <2>2, <2>3 DEF TypeOK
<1>6. ProcInv'
  BY <1>1, <1>2 DEF ProcInv
<1>7. ListInv'
  BY Zenon DEF ListInv
<1>8. ASSUME NEW x \in Calls PROVE CallAt(call[x])'
  <2>1. CallAt(call[x]) /\ call'[x] = call[x]
    BY Zenon DEF CallInv
  <2>2. call[x].sess \in Nat /\ call[x].gen \in Nat
    BY Zenon, ChildTypes
  <2> QED
    BY <1>1, <1>2, <2>1, <2>2 DEF CallAt
<1> QED
  BY Zenon, <1>3, <1>4, <1>5, <1>6, <1>7, <1>8 DEF CallInv

\* End: the last request that held the session lets a pending rotation stop it.
LEMMA EndInv ==
    ASSUME ChildIInv, NEW c \in Calls, End(c)
    PROVE  ChildIInv'
<1> USE DEF ChildIInv
<1>1. IdleCall \in CallRecords /\ IdleCall.pc = "idle"
  <2>1. 0 \in Generations
    BY DEF Generations
  <2> QED
    BY Zenon, <2>1 DEF IdleCall, CallRecords, CallSteps
<1>2. /\ call[c].pc = "held" /\ call' = [call EXCEPT ![c] = IdleCall]
      /\ inflight' = IF inflight > 0 THEN inflight - 1 ELSE inflight
      /\ UNCHANGED <<token, secretsFP, restarts, lists, tokenFile, waiting, crashes>>
  BY Zenon DEF End
<1>3. /\ call'[c] = IdleCall /\ \A x \in Calls : x # c => call'[x] = call[x]
      /\ call' \in [Calls -> CallRecords]
  BY Zenon, <1>1, <1>2, ChildTypes
<1>4. /\ IsFiniteSet(Held) /\ inflight \in Nat /\ Cardinality(Held') \in Nat
      /\ Cardinality(Held') = inflight - 1
      /\ Cardinality(Held') = 0 => Held' = {}
  BY Zenon, <1>1, <1>2, HeldChanges
<1>5. inflight' = Cardinality(Held') /\ inflight' \in Nat
  BY <1>2, <1>4
<1>6. /\ generation \in Nat /\ restarts \in Nat /\ crashes \in Nat /\ session \in {0, generation}
      /\ session \in Generations
      /\ \A g \in waiting \cup stopped : g \in Nat
  BY ChildTypes DEF TypeOK, Generations
<1>7. CASE inflight' = 0 /\ restartAtIdle
  <2>1. /\ generation + 1 \in Generations /\ generation' = generation + 1
        /\ restartAtIdle' = FALSE /\ session' = 0
        /\ running' = running \ Closed /\ stopped' = stopped \cup Closed
    BY Zenon, <1>7 DEF End
  <2>2. \A x \in Calls : call'[x].pc # "held"
    BY Zenon, <1>4, <1>5, <1>7 DEF Held
  <2>3. running' = {} /\ \A g \in stopped' : g < generation' /\ g \in Generations
    BY <1>6, <2>1 DEF Closed, ProcInv, TypeOK
  <2>4. TypeOK'
    BY Zenon, <1>2, <1>3, <1>5, <2>1, <2>3 DEF TypeOK, CallRecords
  <2>5. ProcInv' /\ BudgetInv'
    <3>1. \A g \in waiting : g < generation'
      BY <1>6, <2>1 DEF ProcInv
    <3>2. \A g \in waiting' : g <= generation' /\ g # generation'
      BY <1>2, <1>6, <2>1, <3>1
    <3> QED
      BY Zenon, <1>2, <2>3, <3>2 DEF ProcInv, BudgetInv
  <2>6. ASSUME NEW x \in Calls PROVE CallAt(call[x])'
    <3>1. CASE x = c
      BY Zenon, <1>1, <1>3, <3>1 DEF CallAt
    <3>2. CASE x # c
      <4>1. CallAt(call[x]) /\ call'[x] = call[x] /\ call'[x].pc # "held"
        BY Zenon, <1>3, <2>2, <3>2 DEF CallInv
      <4>2. call[x].sess \in Nat /\ call[x].gen \in Nat
        BY Zenon, ChildTypes
      <4> QED
        BY SMTT(30), <1>6, <2>1, <4>1, <4>2 DEF CallAt
    <3> QED
      BY Zenon, <3>1, <3>2
  <2> QED
    BY Zenon, <1>2, <1>5, <2>4, <2>5, <2>6 DEF CallInv, HeldCount, ListInv
<1>8. CASE ~(inflight' = 0 /\ restartAtIdle)
  <2>1. UNCHANGED <<generation, restartAtIdle, session, running, stopped>>
    BY Zenon, <1>8 DEF End
  <2>2. TypeOK' /\ ProcInv' /\ BudgetInv' /\ ListInv'
    BY Zenon, <1>2, <1>3, <1>5, <2>1 DEF TypeOK, CallRecords, ProcInv, BudgetInv, ListInv
  <2>3. ASSUME NEW x \in Calls PROVE CallAt(call[x])'
    <3>1. CASE x = c
      BY Zenon, <1>1, <1>3, <3>1 DEF CallAt
    <3>2. CASE x # c
      <4>1. CallAt(call[x]) /\ call'[x] = call[x]
        BY Zenon, <1>3, <3>2 DEF CallInv
      <4> QED
        BY SMTT(30), <1>2, <2>1, <4>1 DEF CallAt, Rotated
    <3> QED
      BY Zenon, <3>1, <3>2
  <2> QED
    BY Zenon, <1>5, <2>2, <2>3 DEF CallInv, HeldCount
<1> QED
  BY Zenon, <1>7, <1>8

\* A step of Lists changes its request, and what is kept of the listing.
LEMMA ListsInv ==
    ASSUME ChildIInv, NEW c \in Calls, NEW r \in CallRecords, call' = [call EXCEPT ![c] = r],
           call[c].pc # "held", r.pc # "held", CallAt(r),
           UNCHANGED <<session, generation, token, secretsFP, restarts, inflight, restartAtIdle,
                       tokenFile, procVars>>,
           lists' \in [of : Generations, gen : Generations], lists'.of \in {0, lists'.gen}
    PROVE  ChildIInv'
<1> USE DEF ChildIInv
<1>1. /\ call'[c] = r /\ \A x \in Calls : x # c => call'[x] = call[x]
      /\ call' \in [Calls -> CallRecords]
  BY Zenon, ChildTypes
<1>2. HeldCount'
  BY Zenon, HeldChanges DEF HeldCount
<1>3. TypeOK' /\ ProcInv' /\ BudgetInv' /\ ListInv'
  BY Zenon, <1>1 DEF TypeOK, CallRecords, ProcInv, BudgetInv, ListInv, procVars
<1>4. ASSUME NEW x \in Calls PROVE CallAt(call[x])'
  <2>1. CallAt(call'[x])
    BY Zenon, <1>1 DEF CallInv
  <2> QED
    BY Zenon, <2>1 DEF CallAt, Rotated, procVars
<1> QED
  BY Zenon, <1>2, <1>3, <1>4 DEF CallInv

\* Lists: the listing kept for the generation is the one of the session, a listing from the
\* process is one of the session that runs, and it is stored for the generation of that session.
LEMMA RequestInv ==
    ASSUME ChildIInv, NEW c \in Calls,
           ListsCached(c) \/ ListTools(c) \/ ListsStore(c) \/ Mirrored(c)
    PROVE  ChildIInv'
<1> USE DEF ChildIInv
<1>0. /\ CallAt(call[c]) /\ call[c] \in CallRecords /\ generation \in Generations
      /\ lists \in [of : Generations, gen : Generations]
      /\ call[c].sess \in Nat /\ call[c].gen \in Nat /\ generation \in Nat /\ session \in {0, generation}
  BY Zenon, ChildTypes DEF CallInv, TypeOK
<1>1. IdleCall \in CallRecords /\ IdleCall.pc = "idle" /\ CallAt(IdleCall)
  <2>1. 0 \in Generations
    BY DEF Generations
  <2> QED
    BY Zenon, <2>1 DEF IdleCall, CallRecords, CallSteps, CallAt
<1>2. CASE ListsCached(c)
  <2> DEFINE r1 == [call[c] EXCEPT !.pc = "mirrored", !.of = lists.of]
             r2 == [call[c] EXCEPT !.pc = "rpc", !.gen = generation]
  <2>1. /\ call[c].pc = "list"
        /\ \/ /\ lists.gen = generation /\ lists.of # 0 /\ session = call[c].sess
              /\ call' = [call EXCEPT ![c] = r1]
           \/ call' = [call EXCEPT ![c] = r2]
        /\ UNCHANGED <<childVars, procVars>>
    BY Zenon, <1>2 DEF ListsCached
  <2>2. /\ r1 \in CallRecords /\ r1.pc = "mirrored" /\ r1.of = lists.of /\ r1.sess = call[c].sess
        /\ r2 \in CallRecords /\ r2.pc = "rpc" /\ r2.gen = generation /\ r2.sess = call[c].sess
    BY Zenon, <1>0 DEF CallRecords, CallSteps
  <2> HIDE DEF r1, r2
  <2>3. UNCHANGED <<session, generation, token, secretsFP, restarts, inflight, restartAtIdle,
                    tokenFile, procVars, lists>>
    BY Zenon, <2>1 DEF childVars
  <2>4. CASE lists.gen = generation /\ lists.of # 0 /\ session = call[c].sess
             /\ call' = [call EXCEPT ![c] = r1]
    <3>1. CallAt(r1)
      BY Zenon, <1>0, <2>1, <2>2, <2>4 DEF CallAt, ListInv
    <3> QED
      BY Zenon, <1>0, <2>1, <2>2, <2>3, <2>4, <3>1, ListsInv DEF ListInv
  <2>5. CASE call' = [call EXCEPT ![c] = r2]
    <3>1. CallAt(r2)
      BY SMTT(30), <1>0, <2>1, <2>2 DEF CallAt
    <3> QED
      BY Zenon, <1>0, <2>1, <2>2, <2>3, <2>5, <3>1, ListsInv DEF ListInv
  <2> QED
    BY Zenon, <2>1, <2>4, <2>5
<1>3. CASE ListTools(c)
  <2> DEFINE r1 == [call[c] EXCEPT !.pc = "store"]
  <2>1. /\ call[c].pc = "rpc"
        /\ \/ call[c].sess \in running /\ call' = [call EXCEPT ![c] = r1]
           \/ call' = [call EXCEPT ![c] = IdleCall]
        /\ UNCHANGED <<childVars, procVars>>
    BY Zenon, <1>0, <1>3 DEF ListTools
  <2>2. /\ r1 \in CallRecords /\ r1.pc = "store" /\ r1.gen = call[c].gen /\ r1.sess = call[c].sess
    BY Zenon, <1>0 DEF CallRecords, CallSteps
  <2> HIDE DEF r1
  <2>3. UNCHANGED <<session, generation, token, secretsFP, restarts, inflight, restartAtIdle,
                    tokenFile, procVars, lists>>
    BY Zenon, <2>1 DEF childVars
  <2>4. CASE call[c].sess \in running /\ call' = [call EXCEPT ![c] = r1]
    <3>1. CallAt(r1)
      <4>1. call[c].sess = session /\ session = generation
        BY Zenon, <1>0, <2>4 DEF ProcInv
      <4>2. call[c].gen = call[c].sess
        BY <1>0, <2>1, <4>1 DEF CallAt
      <4> QED
        BY Zenon, <1>0, <2>1, <2>2, <4>2 DEF CallAt
    <3> QED
      BY Zenon, <1>0, <2>1, <2>2, <2>3, <2>4, <3>1, ListsInv DEF ListInv
  <2>5. CASE call' = [call EXCEPT ![c] = IdleCall]
    BY Zenon, <1>0, <1>1, <2>1, <2>3, <2>5, ListsInv DEF ListInv
  <2> QED
    BY Zenon, <2>1, <2>4, <2>5
<1>4. CASE ListsStore(c)
  <2> DEFINE r1 == [call[c] EXCEPT !.pc = "mirrored", !.of = call[c].sess]
  <2>1. /\ call[c].pc = "store" /\ call' = [call EXCEPT ![c] = r1]
        /\ lists' = IF generation = call[c].gen
                    THEN [of |-> call[c].sess, gen |-> call[c].gen] ELSE lists
        /\ UNCHANGED <<session, generation, token, secretsFP, restarts, inflight, restartAtIdle,
                       tokenFile, procVars>>
    BY Zenon, <1>4 DEF ListsStore
  <2>2. /\ r1 \in CallRecords /\ r1.pc = "mirrored" /\ r1.of = call[c].sess /\ r1.sess = call[c].sess
    BY Zenon, <1>0 DEF CallRecords, CallSteps
  <2> HIDE DEF r1
  <2>3. CallAt(r1)
    BY Zenon, <1>0, <2>1, <2>2 DEF CallAt
  <2>4. call[c].sess \in Generations /\ call[c].gen \in Generations /\ call[c].gen = call[c].sess
    BY Zenon, <1>0, <2>1 DEF CallRecords, CallAt
  <2>5. lists' \in [of : Generations, gen : Generations] /\ lists'.of \in {0, lists'.gen}
    BY Zenon, <1>0, <2>1, <2>4 DEF ListInv
  <2> QED
    BY Zenon, <1>0, <2>1, <2>2, <2>3, <2>5, ListsInv
<1>5. CASE Mirrored(c)
  <2>1. UNCHANGED <<session, generation, token, secretsFP, restarts, inflight, restartAtIdle,
                    tokenFile, procVars, lists>>
    BY Zenon, <1>5 DEF Mirrored, childVars
  <2> QED
    BY Zenon, <1>0, <1>1, <1>5, <2>1, ListsInv DEF Mirrored, ListInv
<1> QED
  BY Zenon, <1>2, <1>3, <1>4, <1>5

\* The process exits, waitExit sees it, or the window of the budget moves on.
LEMMA ExitInv ==
    ASSUME ChildIInv, (\E g \in Generations : ChildExits(g) \/ waitExit(g)) \/ WindowPasses
    PROVE  ChildIInv'
<1> USE DEF ChildIInv
<1>0. /\ generation \in Nat /\ restarts \in Nat /\ crashes \in Nat /\ session \in {0, generation}
      /\ crashes <= MaxCrashes
  BY ChildTypes DEF TypeOK
<1>1. ASSUME NEW g \in Generations, ChildExits(g) PROVE ChildIInv'
  <2>1. /\ crashes < MaxCrashes /\ running' = running \ {g} /\ crashes' = crashes + 1
        /\ UNCHANGED <<session, generation, token, secretsFP, restarts, inflight, restartAtIdle,
                       lists, tokenFile, waiting, stopped, call>>
    BY Zenon, <1>1 DEF ChildExits, childVars
  <2>2. TypeOK'
    <3>1. crashes' \in 0 .. MaxCrashes
      BY SMTT(30), <1>0, <2>1
    <3> QED
      BY Zenon, <2>1, <3>1 DEF TypeOK
  <2>3. ProcInv' /\ ListInv' /\ HeldCount'
    BY Zenon, <2>1 DEF ProcInv, ListInv, HeldCount, Held
  <2>4. BudgetInv'
    BY <1>0, <2>1 DEF BudgetInv
  <2>5. CallInv'
    BY Zenon, <2>1 DEF CallInv, CallAt, Rotated
  <2> QED
    BY Zenon, <2>2, <2>3, <2>4, <2>5
<1>2. ASSUME NEW g \in Generations, waitExit(g) PROVE ChildIInv'
  <2>1. /\ g \in waiting /\ g \notin running /\ waiting' = waiting \ {g}
        /\ UNCHANGED <<generation, token, secretsFP, inflight, restartAtIdle, lists, tokenFile,
                       running, stopped, crashes, call>>
        /\ \/ generation # g /\ UNCHANGED <<restarts, session>>
           \/ generation = g /\ restarts' = restarts + 1 /\ session' = 0
    BY Zenon, <1>2 DEF waitExit
  <2>2. BudgetInv'
    BY Zenon, <1>0, <2>1 DEF BudgetInv
  <2>3. TypeOK'
    <3>1. restarts' \in 0 .. MaxCrashes
      BY <1>0, <2>1, <2>2 DEF BudgetInv, TypeOK
    <3> QED
      BY Zenon, <2>1, <3>1 DEF TypeOK
  <2>4. ProcInv'
    BY Zenon, <1>0, <2>1 DEF ProcInv
  <2>5. ListInv' /\ HeldCount'
    BY Zenon, <2>1 DEF ListInv, HeldCount, Held
  <2>6. CallInv'
    BY Zenon, <2>1 DEF CallInv, CallAt, Rotated
  <2> QED
    BY Zenon, <2>2, <2>3, <2>4, <2>5, <2>6
<1>3. CASE WindowPasses
  <2>1. /\ restarts > 0 /\ restarts' = restarts - 1
        /\ UNCHANGED <<session, generation, token, secretsFP, inflight, restartAtIdle, lists,
                       tokenFile, running, waiting, stopped, crashes, call>>
    BY Zenon, <1>3 DEF WindowPasses, procVars
  <2>2. BudgetInv'
    BY <1>0, <2>1 DEF BudgetInv
  <2>3. restarts' \in 0 .. MaxCrashes
    BY <1>0, <2>1 DEF TypeOK
  <2>4. TypeOK'
    BY Zenon, <2>1, <2>3 DEF TypeOK
  <2>5. ProcInv' /\ ListInv' /\ HeldCount'
    BY Zenon, <2>1 DEF ProcInv, ListInv, HeldCount, Held
  <2>6. CallInv'
    BY Zenon, <2>1 DEF CallInv, CallAt, Rotated
  <2> QED
    BY Zenon, <2>2, <2>4, <2>5, <2>6
<1> QED
  BY Zenon, <1>1, <1>2, <1>3

\* A child that has not been started, with no request.
LEMMA ChildStarts == Init => ChildIInv
<1> SUFFICES ASSUME Init PROVE ChildIInv
  BY Zenon
<1>1. 0 \in Generations
  BY DEF Generations
<1>2. IdleCall \in CallRecords /\ IdleCall.pc = "idle"
  BY Zenon, <1>1 DEF IdleCall, CallRecords, CallSteps
<1>3. \A c \in Calls : call[c] = IdleCall
  BY Zenon DEF Init
<1>4. TypeOK
  <2>1. call \in [Calls -> CallRecords]
    BY Zenon, <1>2 DEF Init
  <2>2. restarts \in 0 .. MaxCrashes /\ crashes \in 0 .. MaxCrashes /\ inflight \in Nat
    BY DEF Init
  <2>3. lists \in [of : Generations, gen : Generations]
    BY Zenon, <1>1 DEF Init
  <2> QED
    BY Zenon, <1>1, <2>1, <2>2, <2>3 DEF Init, TypeOK, CallRecords
<1>5. HeldCount
  <2>1. Held = {}
    BY Zenon, <1>2, <1>3 DEF Held
  <2> QED
    BY Zenon, <2>1, FS_EmptySet DEF HeldCount, Init
<1>6. ProcInv /\ ListInv /\ BudgetInv
  BY DEF Init, ProcInv, ListInv, BudgetInv
<1>7. CallInv
  BY Zenon, <1>2, <1>3 DEF CallInv, CallAt
<1> QED
  BY Zenon, <1>4, <1>5, <1>6, <1>7 DEF ChildIInv

\* Every step of the child and its requests keeps the invariant.
LEMMA ChildSteps == ChildIInv /\ [Next]_vars => ChildIInv'
<1> SUFFICES ASSUME ChildIInv, [Next]_vars PROVE ChildIInv'
  BY Zenon
<1>1. ASSUME NEW c \in Calls, NEW t \in ChildTokens \cup {None}, NEW f \in Secrets \cup {None},
             NEW pc \in {"held", "list"}, sessionLocked(c, t, f, pc)
      PROVE  ChildIInv'
  <2>0. tokenFile \in ChildTokens \cup {None}
    BY Zenon DEF ChildIInv, TypeOK
  <2>1. CASE Reuse(c, t, f, pc)
    BY <1>1, <2>1, ReuseInv DEF sessionLocked
  <2>2. CASE Start(c, t, f, pc)
    BY <1>1, <2>2, StartInv DEF sessionLocked
  <2>3. CASE StartFails(c, t, f)
    BY Zenon, <2>0, <2>3, DownInv DEF StartFails
  <2>4. CASE OverBudget(c, t, f)
    BY Zenon, <2>0, <2>4, DownInv DEF OverBudget
  <2> QED
    BY Zenon, <1>1, <2>1, <2>2, <2>3, <2>4 DEF sessionLocked
<1>2. ASSUME NEW c \in Calls, Request(c) PROVE ChildIInv'
  BY Zenon, <1>1, <1>2, EndInv, RequestInv DEF Request, Acquire, Session
<1>3. CASE UNCHANGED vars
  BY ZenonT(40), <1>3 DEF vars, childVars, procVars, ChildIInv, TypeOK, HeldCount, Held, ProcInv, CallInv, CallAt,
              Rotated, ListInv, BudgetInv
<1> QED
  BY Zenon, <1>2, <1>3, ExitInv DEF Next

\* The requests, counters and processes of the stdio child keep their types, and the crashes
\* that the budget counts stay within those that happened.
THEOREM ChildTypeCorrect == Spec => []TypeOK
BY ChildStarts, ChildSteps, PTL DEF Spec, ChildIInv

\* Neither a rotation of another request's credentials nor the end of another request stops the
\* session that Acquire returned, before End.
THEOREM SessionHeld == Spec => []HeldSessionKept
<1>1. ChildIInv => HeldSessionKept
  BY Zenon DEF ChildIInv, CallInv, CallAt, HeldSessionKept
<1> QED
  BY <1>1, ChildStarts, ChildSteps, PTL DEF Spec

\* A pending rotation is not forgotten while a request runs on the old credentials, and the
\* budget of restarts is not charged for the processes that stopLocked closed.
THEOREM RotationsArePending == Spec => []RotationKept
<1>1. ChildIInv => RotationKept
  BY Zenon DEF ChildIInv, CallInv, CallAt, BudgetInv, RotationKept
<1> QED
  BY <1>1, ChildStarts, ChildSteps, PTL DEF Spec

\* The listing that an initialize request mirrors is the one of the session it got.
THEOREM ListingsAreOwn == Spec => []ListsOfOwnSession
<1>1. ChildIInv => ListsOfOwnSession
  BY Zenon DEF ChildIInv, CallInv, CallAt, ListsOfOwnSession
<1> QED
  BY <1>1, ChildStarts, ChildSteps, PTL DEF Spec

-----------------------------------------------------------------------------
(***************************************************************************)
(* The http mode.  What OneServer needs is that every process that lives   *)
(* is the one that httpMode.cmd remembers, and that after a shutdown which *)
(* ended with no request open none is left that could start another.       *)
(***************************************************************************)

ServerInv == \A p \in Procs : procs[p] \in {"booting", "open"} => p = cmd

DrainedInv ==
    drained => /\ run \in {"stopping", "stopped", "exited"}
               /\ \A c \in HttpCalls : hreq[c] = "idle"
               /\ run # "stopping" => cmd = 0

HttpIInv == HttpTypeOK /\ ServerInv /\ DrainedInv

USE HttpAssumption

\* Every step of the requests, the process and Run keeps the invariant.
LEMMA HttpSteps == HttpIInv /\ [HttpNext]_httpVars => HttpIInv'
<1> SUFFICES ASSUME HttpIInv, [HttpNext]_httpVars PROVE HttpIInv'
  BY Zenon
<1> USE DEF HttpIInv, HttpTypeOK, ServerInv, DrainedInv, HttpGo
<1>0. 0 \notin Procs
  BY DEF Procs
<1>1. ASSUME NEW c \in HttpCalls, Arrive(c) PROVE HttpIInv'
  BY Zenon, <1>1 DEF Arrive
<1>2. ASSUME NEW c \in HttpCalls, EnsureStarted(c) PROVE HttpIInv'
  <2>1. CASE cmd # 0 /\ HttpGo(c, "proxy") /\ UNCHANGED <<lock, cmd, procs>>
    BY Zenon, <1>2, <2>1 DEF EnsureStarted
  <2>2. CASE HttpGo(c, "idle") /\ UNCHANGED <<lock, cmd, procs>>
    BY Zenon, <1>2, <2>2 DEF EnsureStarted
  <2>3. ASSUME NEW p \in Procs, cmd = 0, procs[p] = "none",
               procs' = [procs EXCEPT ![p] = "booting"], cmd' = p, lock' = c, HttpGo(c, "poll")
        PROVE  HttpIInv'
    BY Zenon, <1>0, <1>2, <2>3 DEF EnsureStarted
  <2> QED
    BY Zenon, <1>2, <2>1, <2>2, <2>3 DEF EnsureStarted
<1>3. ASSUME NEW c \in HttpCalls, PollOpen(c) PROVE HttpIInv'
  BY Zenon, <1>3 DEF PollOpen
<1>4. ASSUME NEW c \in HttpCalls, PollTimeout(c) PROVE HttpIInv'
  BY Zenon, <1>4 DEF PollTimeout
<1>5. ASSUME NEW c \in HttpCalls, ServeHTTP(c) PROVE HttpIInv'
  BY Zenon, <1>5 DEF ServeHTTP
<1>6. ASSUME NEW p \in Procs, ProcOpens(p) \/ ProcDies(p) PROVE HttpIInv'
  BY SMTT(30), <1>0, <1>6 DEF ProcOpens, ProcDies, Alive
<1>7. CASE Signal \/ Shutdown
  <2>1. CASE Signal
    BY Zenon, <2>1 DEF Signal
  <2>2. CASE Shutdown
    <3>1. /\ run = "draining" /\ run' = "stopping"
          /\ drained' \in BOOLEAN /\ (drained' => \A c \in HttpCalls : hreq[c] = "idle")
          /\ UNCHANGED <<hcfg, lock, cmd, procs, hreq>>
      BY Zenon, <2>2 DEF Shutdown
    <3> QED
      BY Zenon, <3>1
  <2> QED
    BY Zenon, <1>7, <2>1, <2>2
<1>8. CASE StopServer
  <2>1. /\ run = "stopping" /\ lock = "free" /\ run' = "stopped" /\ cmd' = 0
        /\ procs' = IF cmd # 0 THEN [procs EXCEPT ![cmd] = "dead"] ELSE procs
        /\ UNCHANGED <<hcfg, lock, hreq, drained>>
    BY Zenon, <1>8 DEF StopServer
  <2>2. /\ procs' \in [Procs -> {"none", "booting", "open", "dead"}]
        /\ \A p \in Procs : procs'[p] \notin {"booting", "open"}
    BY Zenon, <1>0, <2>1
  <2> QED
    BY Zenon, <2>1, <2>2
<1>9. CASE WrapperExits
  BY Zenon, <1>9 DEF WrapperExits
<1>10. CASE UNCHANGED httpVars
  BY Zenon, <1>10 DEF httpVars
<1> QED
  BY Zenon, <1>1, <1>2, <1>3, <1>4, <1>5, <1>6, <1>7, <1>8, <1>9, <1>10 DEF HttpNext, HttpStep

\* A wrapper whose server has not been started, with no request.
LEMMA HttpStarts == HttpInit => HttpIInv
BY Zenon DEF HttpInit, HttpIInv, HttpTypeOK, ServerInv, DrainedInv

\* At most one server process of the pod lives at a time, and none after a wrapper whose
\* requests had ended when it was stopped.
THEOREM ServerStartedOnce == HttpSpec => []OneServer
<1>1. HttpIInv => OneServer
  <2> SUFFICES ASSUME HttpIInv PROVE OneServer
    BY Zenon
  <2>1. Alive \subseteq {cmd}
    BY Zenon DEF HttpIInv, ServerInv, Alive
  <2>2. IsFiniteSet({cmd}) /\ Cardinality({cmd}) = 1
    BY Zenon, FS_Singleton
  <2>3. Cardinality(Alive) <= 1
    BY ZenonT(40), <2>1, <2>2, FS_Subset
  <2>4. run \in {"stopped", "exited"} /\ drained => Alive = {}
    <3>1. 0 \notin Procs
      BY DEF Procs
    <3> QED
      BY Zenon, <2>1, <3>1 DEF HttpIInv, DrainedInv, Alive
  <2> QED
    BY Zenon, <2>3, <2>4 DEF OneServer
<1> QED
  BY <1>1, HttpStarts, HttpSteps, PTL DEF HttpSpec

\* The state of both modes of the wrapper is well formed, as the wrapper is checked.
THEOREM WrapperTypeCorrect == WrapperSpec => []WrapperTypeOK
<1>1. WrapperInit => ChildIInv /\ HttpIInv
  BY Zenon, ChildStarts, HttpStarts DEF WrapperInit
<1>2. ChildIInv /\ HttpIInv /\ [WrapperNext]_<<vars, httpVars, part>> => (ChildIInv /\ HttpIInv)'
  <2>1. [WrapperNext]_<<vars, httpVars, part>> => [Next]_vars /\ [HttpNext]_httpVars
    BY Zenon DEF WrapperNext
  <2> QED
    BY Zenon, <2>1, ChildSteps, HttpSteps
<1>3. ChildIInv /\ HttpIInv => WrapperTypeOK
  BY Zenon DEF ChildIInv, HttpIInv, WrapperTypeOK
<1> QED
  BY <1>1, <1>2, <1>3, PTL DEF WrapperSpec

\* Removing headers leaves the others.
LEMMA WithoutHeaders ==
    ASSUME NEW h, NEW S
    PROVE  /\ DOMAIN Without(h, S) = DOMAIN h \ S
           /\ \A x \in DOMAIN h \ S : Without(h, S)[x] = h[x]
BY Zenon DEF Without

\* The headers h carry what the gateway puts in.
Carries(h, tok, sec, sid) ==
    /\ "cookie" \notin DOMAIN h
    /\ "authorization" \in DOMAIN h =>
          tok /\ hcfg.mode # "none" /\ TokenHeader = "authorization" /\ h["authorization"] = "broker"
    /\ "sessionId" \in DOMAIN h => sid /\ h["sessionId"] = "gateway"
    /\ "secret" \in DOMAIN h <=> sec
    /\ "secret" \in DOMAIN h => h["secret"] = "user"
    /\ tok /\ hcfg.mode # "none" => TokenHeader \in DOMAIN h /\ h[TokenHeader] = "broker"
    /\ TokenHeader \in {"authorization", "custom"}

\* The server sees in the headers h what ServerSeesItsHeaders says.
Sees(h, tok, sec, sid) ==
    LET secret == sec /\ hcfg.item # ""
        downstream == tok /\ hcfg.mode # "none"
    IN /\ DOMAIN h \cap (Internal \cup {"cookie"}) = {}
       /\ "authorization" \in DOMAIN h => h["authorization"] # "client"
       /\ "sessionId" \in DOMAIN h => sid /\ h["sessionId"] = "gateway"
       /\ secret => hcfg.item \in DOMAIN h /\ h[hcfg.item] = "user"
       /\ downstream /\ (secret => hcfg.item # TokenHeader) =>
             TokenHeader \in DOMAIN h /\ h[TokenHeader] = "broker"

\* What the gateway forwards: of the client's own headers only harmless ones are left, a token
\* is where injectUserToken puts it, and the secret is there when it was resolved.
LEMMA Forwarded ==
    ASSUME hcfg \in HttpConfigs, NEW S \in SUBSET ClientNames, NEW tok \in BOOLEAN,
           NEW sec \in BOOLEAN, NEW sealed \in BOOLEAN, NEW sid \in BOOLEAN
    PROVE  Carries(ForwardHeaders([n \in S |-> "client"], tok, sec, sealed, sid), tok, sec, sid)
<1> DEFINE h == [n \in S |-> "client"]
           clean == Without(h, {"authorization", "cookie", "sessionId"} \cup Internal)
           pod == [n \in {"podToken", "subject", "serverType"} |-> "gateway"]
           session2 == [n \in IF sid THEN {"sessionId"} ELSE {} |-> "gateway"]
           extra == [n \in (IF sec THEN {"secret"} ELSE {}) \cup (IF sealed THEN {"sealed"} ELSE {})
                           |-> "user"]
           all == Over(extra, Over(session2, Over(pod, clean)))
           F == ForwardHeaders(h, tok, sec, sealed, sid)
<1>1. F = IF tok /\ hcfg.mode # "none" THEN Set(TokenHeader, "broker", all) ELSE all
  BY Zenon DEF ForwardHeaders
<1>2. TokenHeader \in {"authorization", "custom"}
  BY Zenon DEF TokenHeader, HttpConfigs
<1>3. /\ DOMAIN clean = S \ ({"authorization", "cookie", "sessionId"} \cup Internal)
  BY Zenon DEF Without
<1>4. /\ "cookie" \notin DOMAIN all /\ "authorization" \notin DOMAIN all
      /\ "sessionId" \in DOMAIN all => sid /\ all["sessionId"] = "gateway"
      /\ "secret" \in DOMAIN all <=> sec
      /\ "secret" \in DOMAIN all => all["secret"] = "user"
  BY Zenon, <1>3 DEF Over, Internal
<1> HIDE DEF all
<1>5. CASE tok /\ hcfg.mode # "none"
  <2>1. F = Set(TokenHeader, "broker", all)
    BY Zenon, <1>1, <1>5
  <2> HIDE DEF F
  <2>2. /\ DOMAIN F = DOMAIN all \cup {TokenHeader} /\ F[TokenHeader] = "broker"
        /\ \A x \in DOMAIN all : x # TokenHeader => F[x] = all[x]
    BY Zenon, <2>1 DEF Set, Over
  <2>3. Carries(F, tok, sec, sid)
    BY Zenon, <1>2, <1>4, <1>5, <2>2 DEF Carries
  <2> QED
    BY Zenon, <2>3 DEF F
<1>6. CASE ~(tok /\ hcfg.mode # "none")
  <2>1. F = all
    BY Zenon, <1>1, <1>6
  <2> HIDE DEF F
  <2>2. Carries(F, tok, sec, sid)
    BY Zenon, <1>2, <1>4, <1>6, <2>1 DEF Carries
  <2> QED
    BY Zenon, <2>2 DEF F
<1> QED
  BY Zenon, <1>5, <1>6

\* The Director puts the secret in place and takes away what is the wrapper's; the token is where
\* the gateway put it.
LEMMA Directed ==
    ASSUME hcfg \in HttpConfigs, NEW F, NEW tok \in BOOLEAN, NEW sec \in BOOLEAN, NEW sid \in BOOLEAN,
           Carries(F, tok, sec, sid)
    PROVE  Sees(Director(F), tok, sec, sid)
<1> DEFINE named == Without(F, {"podToken", "subject"})
           given == IF "secret" \in DOMAIN F /\ hcfg.item # "" THEN Set(hcfg.item, F["secret"], named)
                    ELSE named
           clean == Without(given, Internal)
<1>1. Director(F) = clean
  <2>1. ~(hcfg.mode = "header" /\ "authorization" \in DOMAIN F /\ hcfg.header # "authorization")
    BY Zenon DEF TokenHeader, Carries
  <2> QED
    BY Zenon, <2>1 DEF Director
<1>2. /\ DOMAIN named = DOMAIN F \ {"podToken", "subject"}
      /\ \A x \in DOMAIN named : named[x] = F[x]
  BY Zenon, WithoutHeaders
<1> HIDE DEF named
<1>3. \/ /\ "secret" \in DOMAIN F /\ hcfg.item # ""
         /\ DOMAIN given = DOMAIN named \cup {hcfg.item} /\ given[hcfg.item] = F["secret"]
         /\ \A x \in DOMAIN named : x # hcfg.item => given[x] = named[x]
      \/ ~("secret" \in DOMAIN F /\ hcfg.item # "") /\ given = named
  <2>1. CASE "secret" \in DOMAIN F /\ hcfg.item # ""
    <3>1. given = Set(hcfg.item, F["secret"], named)
      BY Zenon, <2>1
    <3> HIDE DEF given
    <3> QED
      BY Zenon, <2>1, <3>1 DEF Set, Over
  <2>2. CASE ~("secret" \in DOMAIN F /\ hcfg.item # "")
    BY Zenon, <2>2
  <2> QED
    BY Zenon, <2>1, <2>2
<1> HIDE DEF given
<1>4. /\ DOMAIN clean = DOMAIN given \ Internal
      /\ \A x \in DOMAIN clean : clean[x] = given[x]
  BY Zenon, WithoutHeaders
<1> HIDE DEF clean
<1>5. /\ hcfg.item \in {"authorization", "custom", ""}
      /\ "cookie" \notin Internal /\ "sessionId" \notin Internal /\ "secret" \in Internal
      /\ "authorization" \notin Internal /\ "custom" \notin Internal
  BY Zenon DEF HttpConfigs, Internal
<1>6. Sees(clean, tok, sec, sid)
  <2>1. CASE "secret" \in DOMAIN F /\ hcfg.item # ""
    <3>1. DOMAIN clean = ((DOMAIN F \ {"podToken", "subject"}) \cup {hcfg.item}) \ Internal
      BY Zenon, <1>2, <1>3, <1>4, <2>1
    <3>2. \A x \in DOMAIN clean : x # hcfg.item => clean[x] = F[x]
      BY Zenon, <1>2, <1>3, <1>4, <2>1
    <3>3. hcfg.item \in DOMAIN clean /\ clean[hcfg.item] = "user"
      BY ZenonT(40), <1>3, <1>4, <1>5, <2>1, <3>1 DEF Carries
    <3>4. DOMAIN clean \cap (Internal \cup {"cookie"}) = {}
      BY Zenon, <1>5, <3>1 DEF Carries
    <3>5. /\ "authorization" \in DOMAIN clean => clean["authorization"] # "client"
          /\ "sessionId" \in DOMAIN clean => sid /\ clean["sessionId"] = "gateway"
      BY Zenon, <1>5, <3>1, <3>2, <3>3 DEF Carries
    <3>6. tok /\ hcfg.mode # "none" /\ hcfg.item # TokenHeader
            => TokenHeader \in DOMAIN clean /\ clean[TokenHeader] = "broker"
      BY Zenon, <1>5, <3>1, <3>2 DEF Carries
    <3>7. sec
      BY Zenon, <2>1 DEF Carries
    <3> QED
      BY Zenon, <2>1, <3>3, <3>4, <3>5, <3>6, <3>7 DEF Sees
  <2>2. CASE ~("secret" \in DOMAIN F /\ hcfg.item # "")
    <3>1. DOMAIN clean = (DOMAIN F \ {"podToken", "subject"}) \ Internal
      BY Zenon, <1>2, <1>3, <1>4, <2>2
    <3>2. \A x \in DOMAIN clean : clean[x] = F[x]
      BY Zenon, <1>2, <1>3, <1>4, <2>2
    <3>3. ~(sec /\ hcfg.item # "")
      BY Zenon, <2>2 DEF Carries
    <3>4. DOMAIN clean \cap (Internal \cup {"cookie"}) = {}
      BY Zenon, <3>1 DEF Carries
    <3>5. /\ "authorization" \in DOMAIN clean => clean["authorization"] # "client"
          /\ "sessionId" \in DOMAIN clean => sid /\ clean["sessionId"] = "gateway"
      BY Zenon, <3>1, <3>2 DEF Carries
    <3>6. tok /\ hcfg.mode # "none" => TokenHeader \in DOMAIN clean /\ clean[TokenHeader] = "broker"
      BY Zenon, <1>5, <3>1, <3>2 DEF Carries
    <3> QED
      BY Zenon, <3>3, <3>4, <3>5, <3>6 DEF Sees
  <2> QED
    BY Zenon, <2>1, <2>2
<1> QED
  BY Zenon, <1>1, <1>6

\* Whatever the client sent, the server of the pod sees the headers it is configured for and
\* none of the client's credentials.
THEOREM HeadersReachTheServer == HttpSpec => []ServerSeesItsHeaders
<1>1. HttpIInv => ServerSeesItsHeaders
  <2> SUFFICES ASSUME hcfg \in HttpConfigs, NEW S \in SUBSET ClientNames, NEW tok \in BOOLEAN,
                      NEW sec \in BOOLEAN, NEW sealed \in BOOLEAN, NEW sid \in BOOLEAN
               PROVE  Sees(Director(ForwardHeaders([n \in S |-> "client"], tok, sec, sealed, sid)),
                           tok, sec, sid)
    BY Zenon DEF ServerSeesItsHeaders, Sees, HttpIInv, HttpTypeOK
  <2>1. Carries(ForwardHeaders([n \in S |-> "client"], tok, sec, sealed, sid), tok, sec, sid)
    BY Zenon, Forwarded
  <2> QED
    BY Zenon, <2>1, Directed
<1> QED
  BY <1>1, HttpStarts, HttpSteps, PTL DEF HttpSpec
=============================================================================
