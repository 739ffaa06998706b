---------------------------- MODULE WrapperChild -----------------------------
(***************************************************************************)
(* wrapper/child.go: the stdio MCP server process of a pod, shared by the  *)
(* requests the wrapper serves.  Every method body that holds Child.mu is  *)
(* one step: starting the process happens under the lock.  The process     *)
(* itself, the calls made on a session, and waitExit run outside it.       *)
(*                                                                         *)
(* A client session is named by the generation it was started as.  A       *)
(* credential is a per-user token or the fingerprint of the user secrets;  *)
(* None is the empty string.                                               *)
(***************************************************************************)
EXTENDS Naturals, FiniteSets

CONSTANTS
    Calls,          \* requests the wrapper serves
    ChildTokens,    \* per-user tokens the gateway may inject
    Secrets,        \* fingerprints of user secrets
    None,           \* no token, no secrets
    TokenMode,      \* token.mode: "env" or "file"
    MaxRestarts,    \* restart.maxRestarts, 5 when left 0
    MaxGeneration,  \* bound: generations of the child in one behaviour
    MaxCrashes      \* bound: crashes and failed starts in one behaviour

ASSUME ChildAssumption ==
    /\ None \notin ChildTokens \cup Secrets
    /\ TokenMode \in {"env", "file"}
    /\ MaxRestarts \in Nat \ {0}
    /\ MaxGeneration \in Nat
    /\ MaxCrashes \in Nat
    /\ IsFiniteSet(Calls)

VARIABLES
    session,        \* generation of the current session, 0 for nil
    generation,
    token,          \* token the child was started with
    secretsFP,      \* fingerprint of the secrets it was started with
    restarts,       \* crashes within the restart window
    inflight,
    restartAtIdle,
    lists,          \* cached listing: session it came from, generation it is for
    tokenFile,      \* content of token.file
    running,        \* sessions whose process is alive
    waiting,        \* sessions whose waitExit has not returned
    call,           \* call[c]: what request c is doing
    stopped,        \* history: sessions stopLocked has closed
    crashes         \* history: processes that exited by themselves or failed to start

childVars == <<session, generation, token, secretsFP, restarts, inflight, restartAtIdle,
               lists, tokenFile>>
procVars == <<running, waiting, stopped, crashes>>
vars == <<childVars, procVars, call>>

-----------------------------------------------------------------------------

Generations == 0 .. MaxGeneration

\* held: between Acquire and End.  list, rpc, store: in Lists, before its first
\* lock, between its two, and at the second.  mirrored: Lists returned.
CallSteps == {"idle", "held", "list", "rpc", "store", "mirrored"}

IdleCall == [pc |-> "idle", sess |-> 0, token |-> None, fp |-> None, gen |-> 0, of |-> 0]

TypeOK ==
    /\ generation \in Generations /\ session \in {0, generation}
    /\ token \in ChildTokens \cup {None}
    /\ secretsFP \in Secrets \cup {None}
    /\ restarts \in 0 .. MaxCrashes
    /\ inflight \in Nat
    /\ restartAtIdle \in BOOLEAN
    /\ lists \in [of : Generations, gen : Generations]
    /\ tokenFile \in ChildTokens \cup {None}
    /\ running \in SUBSET Generations /\ waiting \in SUBSET Generations
    /\ stopped \in SUBSET Generations
    /\ crashes \in 0 .. MaxCrashes
    /\ call \in [Calls -> [pc : CallSteps, sess : Generations, token : ChildTokens \cup {None},
                           fp : Secrets \cup {None}, gen : Generations, of : Generations]]

Init ==
    /\ session = 0 /\ generation = 0
    /\ token = None /\ secretsFP = None
    /\ restarts = 0 /\ inflight = 0 /\ restartAtIdle = FALSE
    /\ lists = [of |-> 0, gen |-> 0]
    /\ tokenFile = None
    /\ running = {} /\ waiting = {} /\ stopped = {} /\ crashes = 0
    /\ call = [c \in Calls |-> IdleCall]

-----------------------------------------------------------------------------
(***************************************************************************)
(* sessionLocked, for a call c with token t and secrets f that goes on to  *)
(* step pc with the session it gets.                                       *)
(***************************************************************************)

\* The child read its environment at start: these credentials are not in it.
Rotated(t, f) ==
    \/ TokenMode = "env" /\ t # None /\ t # token
    \/ f # None /\ f # secretsFP

Got(c, t, f, pc, s) ==
    call' = [call EXCEPT ![c] = [IdleCall EXCEPT !.pc = pc, !.sess = s, !.token = t, !.fp = f]]

Holds(pc) == inflight' = IF pc = "held" THEN inflight + 1 ELSE inflight

\* Mutant: the flag follows the latest request.
ReuseOverwritesFlag(c, t, f, pc) ==
    /\ session # 0
    /\ Rotated(t, f) => inflight > 0
    /\ restartAtIdle' = Rotated(t, f)
    /\ Got(c, t, f, pc, session)
    /\ Holds(pc)
    /\ UNCHANGED <<session, generation, token, secretsFP, restarts, lists, tokenFile, procVars>>

\* The current session is returned; a rotation waits for the idle boundary.
Reuse(c, t, f, pc) ==
    /\ session # 0
    /\ Rotated(t, f) => inflight > 0
    /\ restartAtIdle' = (restartAtIdle \/ Rotated(t, f))
    /\ Got(c, t, f, pc, session)
    /\ Holds(pc)
    /\ UNCHANGED <<session, generation, token, secretsFP, restarts, lists, tokenFile, procVars>>

\* Mutant: a rotation does not wait for the requests in flight.
MustStartNow(t, f) == session = 0 \/ Rotated(t, f)

\* There is no session, or a rotation stops it first.
MustStart(t, f) == session = 0 \/ (Rotated(t, f) /\ inflight = 0)

restartAllowedLocked == restarts <= MaxRestarts

\* stopLocked closes the session, if there is one, and ends its generation.
AfterStop == IF session = 0 THEN generation ELSE generation + 1
Closed == IF session = 0 THEN {} ELSE {session}

\* startLocked succeeds; in file mode it has written the token file.
Start(c, t, f, pc) ==
    /\ MustStart(t, f) /\ restartAllowedLocked
    /\ AfterStop + 1 \in Generations
    /\ generation' = AfterStop + 1
    /\ session' = generation'
    /\ token' = t /\ secretsFP' = f
    /\ tokenFile' = IF TokenMode = "file" /\ t # None THEN t ELSE tokenFile
    /\ running' = (running \ Closed) \cup {generation'}
    /\ waiting' = waiting \cup {generation'}
    /\ stopped' = stopped \cup Closed
    /\ Got(c, t, f, pc, generation')
    /\ Holds(pc)
    /\ UNCHANGED <<restarts, restartAtIdle, lists, crashes>>

\* startLocked fails, before or in Connect: only the latter counts as a crash.
StartFails(c, t, f) ==
    /\ MustStart(t, f) /\ restartAllowedLocked
    /\ AfterStop \in Generations
    /\ generation' = AfterStop
    /\ session' = 0
    /\ tokenFile' \in IF TokenMode = "file" /\ t # None THEN {tokenFile, t} ELSE {tokenFile}
    /\ running' = running \ Closed
    /\ stopped' = stopped \cup Closed
    /\ \/ restarts' = restarts /\ crashes' = crashes
       \/ /\ crashes < MaxCrashes
          /\ restarts' = restarts + 1 /\ crashes' = crashes + 1
    /\ UNCHANGED <<token, secretsFP, inflight, restartAtIdle, lists, waiting, call>>

\* ErrRestartBudget; a rotation has stopped the session by then.
OverBudget(c, t, f) ==
    /\ MustStart(t, f) /\ ~restartAllowedLocked
    /\ AfterStop \in Generations
    /\ generation' = AfterStop
    /\ session' = 0
    /\ running' = running \ Closed
    /\ stopped' = stopped \cup Closed
    /\ UNCHANGED <<token, secretsFP, restarts, inflight, restartAtIdle, lists, tokenFile,
                   waiting, crashes, call>>

sessionLocked(c, t, f, pc) ==
    /\ call[c].pc = "idle"
    /\ Reuse(c, t, f, pc) \/ Start(c, t, f, pc) \/ StartFails(c, t, f) \/ OverBudget(c, t, f)

\* A forwarded tool, resource or prompt request holds the session.
Acquire(c, t, f) == sessionLocked(c, t, f, "held")

\* An initialize request lists what the child has and holds nothing.
Session(c, t, f) == sessionLocked(c, t, f, "list")

\* Mutant: stopping at the idle boundary leaves the closed session in place.
EndKeepsSession(c) ==
    /\ call[c].pc = "held"
    /\ inflight' = IF inflight > 0 THEN inflight - 1 ELSE inflight
    /\ IF inflight' = 0 /\ restartAtIdle
       THEN /\ generation + 1 \in Generations
            /\ generation' = generation + 1
            /\ restartAtIdle' = FALSE
            /\ running' = running \ Closed
            /\ stopped' = stopped \cup Closed
       ELSE UNCHANGED <<generation, restartAtIdle, running, stopped>>
    /\ call' = [call EXCEPT ![c] = IdleCall]
    /\ UNCHANGED <<session, token, secretsFP, restarts, lists, tokenFile, waiting, crashes>>

End(c) ==
    /\ call[c].pc = "held"
    /\ inflight' = IF inflight > 0 THEN inflight - 1 ELSE inflight
    /\ IF inflight' = 0 /\ restartAtIdle
       THEN /\ generation + 1 \in Generations
            /\ generation' = generation + 1
            /\ restartAtIdle' = FALSE
            /\ session' = 0
            /\ running' = running \ Closed
            /\ stopped' = stopped \cup Closed
       ELSE UNCHANGED <<generation, restartAtIdle, session, running, stopped>>
    /\ call' = [call EXCEPT ![c] = IdleCall]
    /\ UNCHANGED <<token, secretsFP, restarts, lists, tokenFile, waiting, crashes>>

-----------------------------------------------------------------------------
(***************************************************************************)
(* Lists, called with the session of an initialize request.                *)
(***************************************************************************)

\* Mutant: any cached listing will do.
ListsCachedAny(c) ==
    /\ call[c].pc = "list"
    /\ IF lists.of # 0
       THEN call' = [call EXCEPT ![c].pc = "mirrored", ![c].of = lists.of]
       ELSE call' = [call EXCEPT ![c].pc = "rpc", ![c].gen = generation]
    /\ UNCHANGED <<childVars, procVars>>

ListsCached(c) ==
    /\ call[c].pc = "list"
    /\ IF lists.gen = generation /\ lists.of # 0 /\ session = call[c].sess
       THEN call' = [call EXCEPT ![c].pc = "mirrored", ![c].of = lists.of]
       ELSE call' = [call EXCEPT ![c].pc = "rpc", ![c].gen = generation]
    /\ UNCHANGED <<childVars, procVars>>

\* ListTools answers while the process lives; otherwise the server is built
\* with nothing in it.
ListTools(c) ==
    /\ call[c].pc = "rpc"
    /\ call' = [call EXCEPT ![c] = IF call[c].sess \in running
                                   THEN [@ EXCEPT !.pc = "store"] ELSE IdleCall]
    /\ UNCHANGED <<childVars, procVars>>

ListsStore(c) ==
    /\ call[c].pc = "store"
    /\ lists' = IF generation = call[c].gen
                THEN [of |-> call[c].sess, gen |-> call[c].gen] ELSE lists
    /\ call' = [call EXCEPT ![c].pc = "mirrored", ![c].of = call[c].sess]
    /\ UNCHANGED <<session, generation, token, secretsFP, restarts, inflight, restartAtIdle,
                   tokenFile, procVars>>

\* The mirrored server is handed to the SDK.
Mirrored(c) ==
    /\ call[c].pc = "mirrored"
    /\ call' = [call EXCEPT ![c] = IdleCall]
    /\ UNCHANGED <<childVars, procVars>>

-----------------------------------------------------------------------------
(***************************************************************************)
(* The process, and waitExit.                                              *)
(***************************************************************************)

ChildExits(g) ==
    /\ g \in running
    /\ crashes < MaxCrashes
    /\ running' = running \ {g}
    /\ crashes' = crashes + 1
    /\ UNCHANGED <<childVars, waiting, stopped, call>>

\* Mutant: while requests are in flight the session is left to them.
waitExitBusy(g) ==
    /\ g \in waiting /\ g \notin running
    /\ waiting' = waiting \ {g}
    /\ IF generation # g \/ inflight > 0
       THEN UNCHANGED <<restarts, session>>
       ELSE restarts' = restarts + 1 /\ session' = 0
    /\ UNCHANGED <<generation, token, secretsFP, inflight, restartAtIdle, lists, tokenFile,
                   running, stopped, crashes, call>>

waitExit(g) ==
    /\ g \in waiting /\ g \notin running
    /\ waiting' = waiting \ {g}
    /\ IF generation # g
       THEN UNCHANGED <<restarts, session>>
       ELSE restarts' = restarts + 1 /\ session' = 0
    /\ UNCHANGED <<generation, token, secretsFP, inflight, restartAtIdle, lists, tokenFile,
                   running, stopped, crashes, call>>

\* Crashes fall out of the restart window.
WindowPasses ==
    /\ restarts > 0
    /\ restarts' = restarts - 1
    /\ UNCHANGED <<session, generation, token, secretsFP, inflight, restartAtIdle, lists,
                   tokenFile, procVars, call>>

Request(c) ==
    \/ \E t \in ChildTokens \cup {None}, f \in Secrets \cup {None} :
          Acquire(c, t, f) \/ Session(c, t, f)
    \/ End(c) \/ ListsCached(c) \/ ListTools(c) \/ ListsStore(c) \/ Mirrored(c)

Next ==
    \/ \E c \in Calls : Request(c)
    \/ \E g \in Generations : ChildExits(g) \/ waitExit(g)
    \/ WindowPasses

Spec == Init /\ [][Next]_vars

\* waitExit is a goroutine that has only the lock to wait for.
Fairness == \A g \in Generations : WF_vars(waitExit(g))

-----------------------------------------------------------------------------
(***************************************************************************)
(* Properties.                                                             *)
(***************************************************************************)

\* The session Acquire returned is not stopped, by the rotation of another
\* request's credentials or by the end of another request, before End.
HeldSessionKept == \A c \in Calls : call[c].pc = "held" => call[c].sess \notin stopped

\* A request that runs on a child started with other credentials than it
\* brought leaves a restart pending for the idle boundary; and "rotation restarts
\* must not count as crashes": the budget is charged at most once for a process
\* that ended by itself and never for one that stopLocked closed, whenever
\* waitExit gets to run.
RotationKept ==
    /\ \A c \in Calls :
         call[c].pc = "held" /\ call[c].sess = session /\ Rotated(call[c].token, call[c].fp)
             => restartAtIdle
    /\ restarts <= crashes

\* The listing an initialize request mirrors was made by the session it got,
\* also when the child was replaced while Lists ran without the lock.
ListsOfOwnSession == \A c \in Calls : call[c].pc = "mirrored" => call[c].of = call[c].sess

\* A child that died is not handed out for ever: time and again there is none, or one that
\* lives.  (No generation comes back, so a dead one is dropped each time.)
DeadChildDropped == []<>(session = 0 \/ session \in running)

(***************************************************************************)
(* A claim of a document that the code does not keep.                      *)
(***************************************************************************)

\* "file (token.file ... rewritten per request)": the file is written when the
\* child starts and not again.
FileRewrittenPerRequest ==
    [][\A c \in Calls :
          TokenMode = "file" /\ call'[c].pc = "held" /\ call[c].pc # "held" /\ call'[c].token # None
              => tokenFile' = call'[c].token]_vars
=============================================================================
