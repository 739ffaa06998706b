-------------------------- MODULE LocalProvisioner ---------------------------
(***************************************************************************)
(* adapters/provision/local: session pods as wrapper processes or docker   *)
(* containers of the gateway's machine.  Ensure runs under the backend's   *)
(* lock.  Each pod has a goroutine that polls its readiness address.       *)
(* Release takes the entry out under the lock, and stops the wrapper and   *)
(* removes the pod's directory after it.  Wrappers read that directory     *)
(* when they boot, and exit when they like.                                *)
(*                                                                         *)
(* The attempts of Ensure to start a pod are numbered.  The number is also *)
(* the pod token of the attempt, which the gateway mints per pod.          *)
(***************************************************************************)
EXTENDS Integers, FiniteSets

CONSTANTS
    LocalKeys,
    FromPort, ToPort,   \* gateway.runtime.local.portRange
    NoKey,              \* of an attempt that is not made
    Addrs,              \* addresses docker gives to containers
    MaxAttempts         \* bound: starts in a behaviour

ASSUME LocalAssumption ==
    /\ FromPort \in Nat \ {0} /\ ToPort \in Nat /\ MaxAttempts \in Nat
    /\ Addrs \subseteq Nat \ {0} /\ IsFiniteSet(Addrs)

VARIABLES
    mode,       \* gateway.runtime.local.mode
    mu,         \* the attempt that holds Backend.mu, 0 when free
    attempts,   \* the attempts so far
    pods,       \* Backend.pods: pods[k] is the attempt of the key's entry, 0 without one
    inc,        \* inc[i]: what attempt i started
    files,      \* files[k]: the token and the wrapper's port in the key's directory
    nextPort    \* Backend.nextPort

localVars == <<mode, mu, attempts, pods, inc, files, nextPort>>

Attempts == 1 .. MaxAttempts

NoDir == [tok |-> 0, port |-> 0]

\* phase: entry.status.Phase.  proc, bound, token: the wrapper, the address it listens on, the
\* token it requires.  rel: how far the Release that took the entry is.
Unused == [key |-> NoKey, addr |-> 0, phase |-> "None", proc |-> "none", bound |-> 0, token |-> 0,
           rel |-> "no"]

LocalTypeOK ==
    /\ mode \in {"process", "docker"}
    /\ mu \in Attempts \cup {0} /\ attempts \in Attempts \cup {0} /\ mu <= attempts
    /\ pods \in [LocalKeys -> Attempts \cup {0}]
    /\ inc \in [Attempts -> [key : LocalKeys \cup {NoKey}, addr : Nat,
                             phase : {"None", "Starting", "Ready", "Failed"},
                             proc : {"none", "booting", "up", "exited", "killed"},
                             bound : Nat, token : Attempts \cup {0},
                             rel : {"no", "kill", "remove", "done"}]]
    /\ files \in [LocalKeys -> [tok : Attempts \cup {0}, port : Nat]]
    /\ nextPort \in Nat
    /\ \A k \in LocalKeys : pods[k] # 0 => inc[pods[k]].key = k
    /\ mu # 0 => inc[mu].key \in LocalKeys

LocalInit ==
    /\ mode \in {"process", "docker"}
    /\ mu = 0 /\ attempts = 0
    /\ pods = [k \in LocalKeys |-> 0]
    /\ inc = [i \in Attempts |-> Unused]
    /\ files = [k \in LocalKeys |-> NoDir]
    /\ nextPort = FromPort

Running(i) == inc[i].proc \in {"booting", "up"}

\* The wrapper is gone, and with it the listener.
Ended(r, proc) == [r EXCEPT !.proc = proc, !.bound = 0, !.token = 0]

-----------------------------------------------------------------------------
(***************************************************************************)
(* Ensure.  An entry that is neither gone nor failed is answered as it is. *)
(* Otherwise the directory and the token file are written, whatever comes  *)
(* of the attempt.                                                         *)
(***************************************************************************)

\* Mutant: the lock is taken for no key.
EnsureKeyLost(k) ==
    /\ mu = 0 /\ attempts < MaxAttempts
    /\ pods[k] # 0 => inc[pods[k]].phase = "Failed"
    /\ attempts' = attempts + 1 /\ mu' = attempts + 1
    /\ files' = [files EXCEPT ![k].tok = attempts + 1]
    /\ UNCHANGED <<mode, pods, inc, nextPort>>

LocalEnsure(k) ==
    /\ mu = 0 /\ attempts < MaxAttempts
    /\ pods[k] # 0 => inc[pods[k]].phase = "Failed"
    /\ inc' = [inc EXCEPT ![attempts + 1].key = k]
    /\ attempts' = attempts + 1 /\ mu' = attempts + 1
    /\ files' = [files EXCEPT ![k].tok = attempts + 1]
    /\ UNCHANGED <<mode, pods, nextPort>>

\* The pod of the attempt is started and gets the key's entry, over a failed one.
Started(i, r) ==
    /\ inc' = [inc EXCEPT ![i] = r]
    /\ pods' = [pods EXCEPT ![r.key] = i]

\* Mutant: the readiness port is not reserved.
StartProcessOnePort ==
    LET i == mu  k == inc[i].key IN
    /\ mode = "process" /\ i # 0 /\ nextPort < ToPort
    /\ nextPort' = nextPort + 1 /\ mu' = 0
    /\ files[k].tok # 0
    /\ files' = [files EXCEPT ![k].port = nextPort]
    /\ Started(i, [inc[i] EXCEPT !.addr = nextPort, !.phase = "Starting", !.proc = "booting"])
    /\ UNCHANGED <<mode, attempts>>

\* startProcess: two ports are taken for good.  The wrapper's configuration goes into the
\* directory, unless a Release removed it meanwhile; that write, the log file and the start of
\* the process can fail.
StartProcess ==
    LET i == mu  k == inc[i].key IN
    /\ mode = "process" /\ i # 0 /\ nextPort + 1 <= ToPort
    /\ nextPort' = nextPort + 2 /\ mu' = 0
    /\ \/ /\ files[k].tok # 0
          /\ files' = [files EXCEPT ![k].port = nextPort]
          /\ \/ UNCHANGED <<pods, inc>>
             \/ Started(i, [inc[i] EXCEPT !.addr = nextPort, !.phase = "Starting",
                                          !.proc = "booting"])
       \/ UNCHANGED <<pods, inc, files>>
    /\ UNCHANGED <<mode, attempts>>

PortsExhausted ==
    /\ mode = "process" /\ mu # 0 /\ nextPort + 1 > ToPort
    /\ mu' = 0
    /\ UNCHANGED <<mode, attempts, pods, inc, files, nextPort>>

\* docker run refuses a name that a container has, and gives a free address.  External.
NameTaken(k) == \E j \in Attempts : inc[j].key = k /\ Running(j)
FreeAddrs == {a \in Addrs : \A j \in Attempts : Running(j) => inc[j].addr # a}

\* startDocker: any of the commands can fail.  When the last one does, which asks for the
\* address, the container runs and has no entry.
StartDocker ==
    LET i == mu  k == inc[i].key IN
    /\ mode = "docker" /\ i # 0
    /\ mu' = 0
    /\ \/ UNCHANGED <<pods, inc>>
       \/ /\ ~NameTaken(k)
          /\ \E a \in FreeAddrs :
                LET c == [inc[i] EXCEPT !.addr = a, !.proc = "booting", !.token = files[k].tok]
                IN \/ Started(i, [c EXCEPT !.phase = "Starting"])
                   \/ inc' = [inc EXCEPT ![i] = c] /\ UNCHANGED pods
    /\ UNCHANGED <<mode, attempts, files, nextPort>>

-----------------------------------------------------------------------------
(***************************************************************************)
(* The wrapper: it boots from the key's directory (a container from the    *)
(* files mounted when it was started), and may exit at any time.           *)
(***************************************************************************)

BoundTo(a) == \E j \in Attempts : inc[j].proc = "up" /\ inc[j].bound = a

Boot(i) ==
    LET f == files[inc[i].key] IN
    /\ inc[i].proc = "booting"
    /\ inc' = [inc EXCEPT ![i] =
          CASE mode = "docker" /\ inc[i].token # 0 ->
                  [inc[i] EXCEPT !.proc = "up", !.bound = inc[i].addr]
            [] mode = "process" /\ f.tok # 0 /\ f.port # 0 /\ ~BoundTo(f.port) ->
                  [inc[i] EXCEPT !.proc = "up", !.bound = f.port, !.token = f.tok]
            [] OTHER -> Ended(inc[i], "exited")]
    /\ UNCHANGED <<mode, mu, attempts, pods, files, nextPort>>

Exit(i) ==
    /\ Running(i)
    /\ inc' = [inc EXCEPT ![i] = Ended(inc[i], "exited")]
    /\ UNCHANGED <<mode, mu, attempts, pods, files, nextPort>>

-----------------------------------------------------------------------------

\* Mutant: the phase is set on whatever entry the key has by now.
WatchReadyByKey(i) ==
    LET e == pods[inc[i].key] IN
    /\ mu = 0 /\ inc[i].phase = "Starting" /\ e # 0
    /\ \/ BoundTo(inc[i].addr) /\ inc' = [inc EXCEPT ![i].phase = "Ready", ![e].phase = "Ready"]
       \/ inc' = [inc EXCEPT ![i].phase = "Failed", ![e].phase = "Failed"]
    /\ UNCHANGED <<mode, mu, attempts, pods, files, nextPort>>

\* watchReady: the readiness address answered, or the budget is over.
WatchReady(i) ==
    /\ mu = 0 /\ inc[i].phase = "Starting"
    /\ \/ BoundTo(inc[i].addr) /\ inc' = [inc EXCEPT ![i].phase = "Ready"]
       \/ inc' = [inc EXCEPT ![i].phase = "Failed"]
    /\ UNCHANGED <<mode, mu, attempts, pods, files, nextPort>>

-----------------------------------------------------------------------------

ReleaseTake(k) ==
    /\ mu = 0 /\ pods[k] # 0
    /\ pods' = [pods EXCEPT ![k] = 0]
    /\ inc' = [inc EXCEPT ![pods[k]].rel = "kill"]
    /\ UNCHANGED <<mode, mu, attempts, files, nextPort>>

Killed(r) == IF r.proc \in {"booting", "up"} THEN Ended(r, "killed") ELSE r

\* Mutant: the container is removed by its name.
ReleaseStopByName(i) ==
    /\ inc[i].rel = "kill"
    /\ inc' = [j \in Attempts |->
                  LET r == IF inc[j].key = inc[i].key THEN Killed(inc[j]) ELSE inc[j]
                  IN IF j = i THEN [r EXCEPT !.rel = "remove"] ELSE r]
    /\ UNCHANGED <<mode, mu, attempts, pods, files, nextPort>>

\* After the unlock: the process is cancelled, or docker rm is tried.
ReleaseStop(i) ==
    /\ inc[i].rel = "kill"
    /\ \/ inc' = [inc EXCEPT ![i] = [Killed(inc[i]) EXCEPT !.rel = "remove"]]
       \/ mode = "docker" /\ inc' = [inc EXCEPT ![i].rel = "remove"]
    /\ UNCHANGED <<mode, mu, attempts, pods, files, nextPort>>

ReleaseRemove(i) ==
    /\ inc[i].rel = "remove"
    /\ inc' = [inc EXCEPT ![i].rel = "done"]
    /\ files' = [files EXCEPT ![inc[i].key] = NoDir]
    /\ UNCHANGED <<mode, mu, attempts, pods, nextPort>>

-----------------------------------------------------------------------------

LocalNext ==
    \/ \E k \in LocalKeys : LocalEnsure(k) \/ ReleaseTake(k)
    \/ StartProcess \/ PortsExhausted \/ StartDocker
    \/ \E i \in Attempts : Boot(i) \/ Exit(i) \/ WatchReady(i) \/ ReleaseStop(i) \/ ReleaseRemove(i)

LocalSpec == LocalInit /\ [][LocalNext]_localVars

\* The lock is given back, and WaitReady has a budget.
LocalFairness ==
    /\ WF_localVars(StartProcess \/ PortsExhausted \/ StartDocker)
    /\ \A i \in Attempts : WF_localVars(WatchReady(i))

-----------------------------------------------------------------------------

StatusOf(k) == IF pods[k] = 0 THEN "Absent" ELSE inc[pods[k]].phase

Contract == INSTANCE ProvisionerContract
            WITH ContractKeys <- LocalKeys, slot <- [k \in LocalKeys |-> StatusOf(k)]

\* The backend is a provisioner: Status changes only as the contract says, although the
\* goroutine of a pod that was released still reports, and a pod that starts does settle.
ImplementsContract == Contract!ContractSpec

\* The data and readiness ports of two wrapper processes never overlap, and lie in the
\* configured range, whatever failed between the starts.
PortsDisjoint ==
    mode = "process" =>
        \A i, j \in Attempts : inc[i].addr # 0 =>
            /\ inc[i].addr >= FromPort /\ inc[i].addr + 1 <= ToPort
            /\ i # j => inc[j].addr \notin {inc[i].addr, inc[i].addr + 1}

\* A pod's entry stands for a wrapper of its own.  Release stops the wrapper of the entry it
\* took, not the one a later Ensure started under the same name.  A wrapper requires a token
\* minted for its own key, even when directories are removed and rewritten while it boots; once
\* the pod is Ready it is the token of that pod, which is the one in the gateway's table.
EntryHasItsWrapper ==
    /\ \A k \in LocalKeys :
         LET i == pods[k] IN
         i # 0 => /\ inc[i].proc # "killed"
                  /\ inc[i].phase = "Ready" /\ inc[i].proc = "up" => inc[i].token = i
    /\ \A i \in Attempts : inc[i].token # 0 => inc[inc[i].token].key = inc[i].key
=============================================================================
