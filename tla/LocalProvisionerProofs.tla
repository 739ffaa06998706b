----------------------- MODULE LocalProvisionerProofs ------------------------
(***************************************************************************)
(* The local backend for any keys, port range, addresses and number of     *)
(* attempts.                                                               *)
(*                                                                         *)
(* The token of a wrapper is read from a directory that other calls        *)
(* rewrite, and the lock protects the entries but neither the directory    *)
(* nor the processes.  LocalIInv says what a directory can hold while an   *)
(* attempt is under way (MuInv) and while a key has an entry (EntryInv),   *)
(* that tokens never cross keys (TokenInv), and that ports are dealt out   *)
(* upwards (PortInv).                                                      *)
(***************************************************************************)
EXTENDS LocalProvisioner, TLAPS

\* The attempts that were made have a key, the others have nothing.
UsedInv ==
    \A i \in Attempts : /\ i > attempts => inc[i] = Unused
                        /\ i <= attempts => inc[i].key \in LocalKeys

\* The attempt that holds the lock has started nothing; the directory is its own or was removed;
\* the key has no entry, or one that failed.
MuInv ==
    mu # 0 =>
        /\ inc[mu] = [Unused EXCEPT !.key = inc[mu].key]
        /\ \A k \in LocalKeys : pods[k] # mu
        /\ files[inc[mu].key].tok \in {0, mu}
        /\ pods[inc[mu].key] # 0 => inc[pods[inc[mu].key]].phase = "Failed"

\* An entry is of an attempt nobody released.  Until it fails, nobody else writes the directory.
EntryInv ==
    \A k \in LocalKeys : pods[k] # 0 =>
        /\ pods[k] <= attempts
        /\ inc[pods[k]].phase # "None"
        /\ inc[pods[k]].rel = "no" /\ inc[pods[k]].proc # "killed"
        /\ inc[pods[k]].phase # "Failed" =>
              files[k].tok \in {0, pods[k]} /\ inc[pods[k]].token \in {0, pods[k]}

\* Tokens are of attempts for the same key, in directories and in wrappers.
TokenInv ==
    /\ \A k \in LocalKeys : files[k].tok # 0 => files[k].tok <= attempts /\ inc[files[k].tok].key = k
    /\ \A i \in Attempts :
          /\ inc[i].token # 0 => inc[i].token <= attempts /\ inc[inc[i].token].key = inc[i].key
          /\ inc[i].proc = "up" => inc[i].token # 0

PortInv ==
    mode = "process" =>
        /\ nextPort >= FromPort
        /\ \A i \in Attempts : inc[i].addr # 0 =>
              /\ inc[i].addr >= FromPort /\ inc[i].addr + 1 <= ToPort
              /\ inc[i].addr + 2 <= nextPort
              /\ \A j \in Attempts \ {i} : inc[j].addr \notin {inc[i].addr, inc[i].addr + 1}

LocalIInv == LocalTypeOK /\ UsedInv /\ MuInv /\ EntryInv /\ TokenInv /\ PortInv

Rec == [key : LocalKeys \cup {NoKey}, addr : Nat,
        phase : {"None", "Starting", "Ready", "Failed"},
        proc : {"none", "booting", "up", "exited", "killed"},
        bound : Nat, token : Attempts \cup {0},
        rel : {"no", "kill", "remove", "done"}]

USE LocalAssumption

\* A backend that has just started satisfies the invariant.
LEMMA LocalInitInv == LocalInit => LocalIInv
<1> SUFFICES ASSUME LocalInit PROVE LocalIInv
  BY Zenon
<1> USE DEF LocalInit, Attempts, Unused, NoDir
<1>1. LocalTypeOK
  BY DEF LocalTypeOK
<1>2. UsedInv /\ MuInv /\ EntryInv
  BY DEF UsedInv, MuInv, EntryInv
<1>3. TokenInv /\ PortInv
  BY DEF TokenInv, PortInv
<1> QED
  BY Zenon, <1>1, <1>2, <1>3 DEF LocalIInv

\* What the type invariant says of the places the other conjuncts speak about.
LEMMA Places ==
    ASSUME LocalTypeOK
    PROVE  /\ attempts \in Nat /\ nextPort \in Nat /\ Attempts \subseteq Nat \ {0}
           /\ \A j \in Attempts : inc[j] \in Rec /\ inc[j].token \in Attempts \cup {0}
                                  /\ inc[j].addr \in Nat
           /\ \A h \in LocalKeys : /\ pods[h] \in Attempts \cup {0}
                                   /\ files[h].tok \in Attempts \cup {0}
                                   /\ pods[h] # 0 => inc[pods[h]].key = h
BY DEF LocalTypeOK, Attempts, Rec

\* An Ensure that is to start a pod keeps the invariant: it writes the directory of a key whose
\* entry is absent or failed.
LEMMA EnsureInv == ASSUME LocalIInv, NEW k \in LocalKeys, LocalEnsure(k) PROVE LocalIInv'
<1> DEFINE n == attempts + 1
           r == [Unused EXCEPT !.key = k]
<1>0. attempts \in Nat /\ n \in Attempts /\ n > attempts /\ n # 0 /\ inc[n] = Unused /\ mu = 0
  <2>1. attempts \in Nat /\ MaxAttempts \in Nat
    BY Zenon, Places DEF LocalIInv
  <2>2. attempts < MaxAttempts /\ mu = 0
    BY Zenon DEF LocalEnsure
  <2>3. n \in Attempts /\ n > attempts /\ n # 0
    BY <2>1, <2>2 DEF Attempts
  <2>4. inc[n] = Unused
    BY Zenon, <2>3 DEF LocalIInv, UsedInv
  <2> QED
    BY Zenon, <2>1, <2>2, <2>3, <2>4
<1>1. /\ inc' = [inc EXCEPT ![n] = r] /\ r \in Rec
      /\ r.key = k /\ r.addr = 0 /\ r.phase = "None" /\ r.proc = "none" /\ r.token = 0
      /\ r.rel = "no" /\ r = [Unused EXCEPT !.key = r.key]
  BY Zenon, <1>0 DEF LocalEnsure, Rec, Unused, LocalIInv, LocalTypeOK
<1>2. /\ mu' = n /\ attempts' = n /\ pods' = pods /\ mode' = mode /\ nextPort' = nextPort
      /\ files' = [files EXCEPT ![k].tok = n]
      /\ pods[k] # 0 => inc[pods[k]].phase = "Failed"
  BY Zenon DEF LocalEnsure
<1> HIDE DEF r
<1>3. LocalTypeOK'
  BY <1>0, <1>1, <1>2 DEF LocalIInv, LocalTypeOK, Rec, EntryInv
<1>4. /\ inc'[n] = r /\ \A j \in Attempts : j # n => inc'[j] = inc[j]
      /\ files'[k].tok = n /\ \A h \in LocalKeys : h # k => files'[h] = files[h]
  BY <1>0, <1>1, <1>2 DEF LocalIInv, LocalTypeOK
<1> USE Places DEF LocalIInv
<1>5. UsedInv'
  BY <1>0, <1>1, <1>2, <1>4 DEF UsedInv
<1>6. MuInv'
  BY <1>0, <1>1, <1>2, <1>4 DEF MuInv, EntryInv
<1>7. EntryInv'
  BY <1>0, <1>1, <1>2, <1>4 DEF EntryInv
<1>8. TokenInv'
  BY <1>0, <1>1, <1>2, <1>4 DEF TokenInv
<1>9. PortInv'
  BY <1>0, <1>1, <1>2, <1>4 DEF PortInv
<1> QED
  BY Zenon, <1>3, <1>5, <1>6, <1>7, <1>8, <1>9

\* A wrapper that gets attempt i's record r, while the attempt is not the one that holds the lock
\* and the entries and directories stay, keeps the invariant.
LEMMA RecordInv ==
    ASSUME LocalIInv, NEW i \in Attempts, NEW r \in Rec,
           inc' = [inc EXCEPT ![i] = r],
           UNCHANGED <<mode, mu, attempts, pods, files, nextPort>>,
           inc[i].proc # "none" \/ inc[i].phase # "None",
           r.key = inc[i].key, r.addr = inc[i].addr, r.rel = inc[i].rel,
           r.phase = inc[i].phase \/ (inc[i].phase = "Starting" /\ r.phase # "None"),
           r.proc # "killed" \/ inc[i].proc = "killed",
           r.token \in {0, inc[i].token, files[inc[i].key].tok},
           r.proc = "up" => r.token # 0
    PROVE  LocalIInv'
<1>0. i <= attempts /\ i # mu /\ inc[i].key \in LocalKeys
  BY Places DEF LocalIInv, UsedInv, MuInv, Unused
<1>1. LocalTypeOK'
  BY <1>0 DEF LocalIInv, LocalTypeOK, Rec
<1>2. inc'[i] = r /\ \A j \in Attempts : j # i => inc'[j] = inc[j]
  BY Zenon DEF LocalIInv, LocalTypeOK
<1>3. \A j \in Attempts : inc'[j].key = inc[j].key /\ inc'[j].addr = inc[j].addr
  BY Zenon, <1>2
<1> USE Places DEF LocalIInv
<1>4. UsedInv'
  BY <1>0, <1>2, <1>3 DEF UsedInv
<1>5. MuInv'
  BY <1>0, <1>2, <1>3 DEF MuInv, LocalTypeOK
<1>6. EntryInv'
  BY <1>0, <1>2, <1>3 DEF EntryInv
<1>7. TokenInv'
  BY <1>0, <1>2, <1>3 DEF TokenInv
<1>8. PortInv'
  BY <1>0, <1>2, <1>3 DEF PortInv
<1> QED
  BY Zenon, <1>1, <1>4, <1>5, <1>6, <1>7, <1>8

\* A wrapper that boots reads a token of its own key: the one of its attempt, until the pod failed.
LEMMA BootInv == ASSUME LocalIInv, NEW i \in Attempts, Boot(i) PROVE LocalIInv'
<1> DEFINE r == inc'[i]
<1>0. /\ inc[i].proc = "booting" /\ UNCHANGED <<mode, mu, attempts, pods, files, nextPort>>
      /\ inc[i] \in Rec /\ inc[i].key \in LocalKeys
  BY Places DEF Boot, LocalIInv, UsedInv, Unused
<1>1. /\ inc' = [inc EXCEPT ![i] = r]
      /\ \/ inc[i].token # 0 /\ r = [inc[i] EXCEPT !.proc = "up", !.bound = inc[i].addr]
         \/ /\ files[inc[i].key].tok # 0
            /\ r = [inc[i] EXCEPT !.proc = "up", !.bound = files[inc[i].key].port,
                                  !.token = files[inc[i].key].tok]
         \/ r = Ended(inc[i], "exited")
  BY Zenon DEF Boot, LocalIInv, LocalTypeOK
<1> HIDE DEF r
<1>2. /\ r \in Rec /\ r.key = inc[i].key /\ r.addr = inc[i].addr /\ r.rel = inc[i].rel
      /\ r.phase = inc[i].phase /\ r.proc \in {"up", "exited"}
      /\ r.token \in {0, inc[i].token, files[inc[i].key].tok}
      /\ r.proc = "up" => r.token # 0
  <2>1. files[inc[i].key].tok \in Attempts \cup {0} /\ files[inc[i].key].port \in Nat
    BY Zenon, <1>0 DEF LocalIInv, LocalTypeOK
  <2>2. CASE inc[i].token # 0 /\ r = [inc[i] EXCEPT !.proc = "up", !.bound = inc[i].addr]
    BY Zenon, <1>0, <2>2 DEF Rec
  <2>3. CASE /\ files[inc[i].key].tok # 0
             /\ r = [inc[i] EXCEPT !.proc = "up", !.bound = files[inc[i].key].port,
                                   !.token = files[inc[i].key].tok]
    BY Zenon, <1>0, <2>1, <2>3 DEF Rec
  <2>4. CASE r = Ended(inc[i], "exited")
    BY Zenon, <1>0, <2>4 DEF Rec, Ended
  <2> QED
    BY Zenon, <1>1, <2>2, <2>3, <2>4
<1> QED
  BY Zenon, <1>0, <1>1, <1>2, RecordInv

\* A wrapper that exits keeps the invariant.
LEMMA ExitInv == ASSUME LocalIInv, NEW i \in Attempts, Exit(i) PROVE LocalIInv'
<1> DEFINE r == Ended(inc[i], "exited")
<1>0. inc[i] \in Rec
  BY Zenon, Places DEF LocalIInv
<1>1. /\ r \in Rec /\ r.key = inc[i].key /\ r.addr = inc[i].addr /\ r.rel = inc[i].rel
      /\ r.phase = inc[i].phase /\ r.proc = "exited" /\ r.token = 0
  BY Zenon, <1>0 DEF Rec, Ended
<1>2. /\ inc' = [inc EXCEPT ![i] = r] /\ inc[i].proc # "none"
      /\ UNCHANGED <<mode, mu, attempts, pods, files, nextPort>>
  BY Zenon DEF Exit, Running
<1> HIDE DEF r
<1> QED
  BY Zenon, <1>1, <1>2, RecordInv

\* The readiness goroutine keeps the invariant: it only settles the attempt it was started for.
LEMMA WatchInv == ASSUME LocalIInv, NEW i \in Attempts, WatchReady(i) PROVE LocalIInv'
<1>0. inc[i] \in Rec
  BY Zenon, Places DEF LocalIInv
<1>1. PICK p \in {"Ready", "Failed"} : inc' = [inc EXCEPT ![i].phase = p]
  BY Zenon DEF WatchReady
<1> DEFINE r == [inc[i] EXCEPT !.phase = p]
<1>2. /\ r \in Rec /\ r.key = inc[i].key /\ r.addr = inc[i].addr /\ r.rel = inc[i].rel
      /\ r.phase = p /\ r.proc = inc[i].proc /\ r.token = inc[i].token
  BY Zenon, <1>0 DEF Rec
<1>3. /\ inc' = [inc EXCEPT ![i] = r] /\ inc[i].phase = "Starting"
      /\ UNCHANGED <<mode, mu, attempts, pods, files, nextPort>>
  BY Zenon, <1>1 DEF WatchReady, LocalIInv, LocalTypeOK
<1>4. r.proc = "up" => r.token # 0
  BY Zenon, <1>2 DEF LocalIInv, TokenInv
<1> HIDE DEF r
<1> QED
  BY Zenon, <1>2, <1>3, <1>4, RecordInv

\* The start of a pod.  Attempt i, which holds the lock, leaves it with the record r, in which the
\* token is the one of the directory or none yet; it gets the key's entry, or none.
LEMMA StartInv ==
    ASSUME LocalIInv, NEW i, i = mu, mu # 0, mu' = 0, NEW r \in Rec,
           inc' = [inc EXCEPT ![i] = r],
           \/ pods' = [pods EXCEPT ![r.key] = i] /\ r.phase = "Starting"
           \/ pods' = pods /\ r.phase = "None",
           r.key = inc[i].key, r.rel = "no", r.proc \in {"none", "booting"},
           r.token \in {0, files[r.key].tok},
           UNCHANGED <<mode, attempts>>,
           files' \in [LocalKeys -> [tok : Attempts \cup {0}, port : Nat]],
           \A h \in LocalKeys : files'[h].tok = files[h].tok,
           nextPort' \in Nat,
           mode = "process" =>
              \/ r.addr = 0 /\ nextPort' >= nextPort
              \/ r.addr = nextPort /\ nextPort + 1 <= ToPort /\ nextPort' = nextPort + 2
    PROVE  LocalIInv'
<1>0. i \in Attempts /\ i <= attempts /\ r.key \in LocalKeys
  BY Zenon DEF LocalIInv, LocalTypeOK
<1>1. LocalTypeOK'
  <2>1. inc' \in [Attempts -> Rec] /\ \A j \in Attempts : inc'[j].key = inc[j].key
    BY Zenon, <1>0 DEF LocalIInv, LocalTypeOK, Rec
  <2>2. /\ pods' \in [LocalKeys -> Attempts \cup {0}]
        /\ \A h \in LocalKeys : pods'[h] # 0 => inc[pods'[h]].key = h
    BY <1>0 DEF LocalIInv, LocalTypeOK
  <2> QED
    BY <1>0, <2>1, <2>2, Places DEF LocalIInv, LocalTypeOK, Rec
<1>2. inc'[i] = r /\ \A j \in Attempts : j # i => inc'[j] = inc[j]
  BY Zenon, <1>0 DEF LocalIInv, LocalTypeOK
<1>3. \A j \in Attempts : inc'[j].key = inc[j].key
  BY Zenon, <1>2
<1>4. /\ \A h \in LocalKeys : h # r.key => pods'[h] = pods[h]
      /\ \/ pods'[r.key] = i /\ r.phase = "Starting" 
         \/ pods'[r.key] = pods[r.key]
      /\ \A h \in LocalKeys : pods[h] # i
      /\ files[r.key].tok \in {0, i}
  BY Zenon, <1>0 DEF LocalIInv, LocalTypeOK, MuInv
<1> USE Places DEF LocalIInv
<1>5. UsedInv'
  BY <1>0, <1>2, <1>3 DEF UsedInv
<1>6. MuInv'
  BY Zenon DEF MuInv
<1>7. EntryInv'
  BY <1>0, <1>2, <1>4 DEF EntryInv
<1>8. TokenInv'
  <2>1. \A j \in Attempts : inc'[j].token # 0 =>
           \/ inc'[j].token = inc[j].token
           \/ j = i /\ inc'[j].token = files[inc[i].key].tok
    BY Zenon, <1>0, <1>2
  <2>2. \A j \in Attempts : inc'[j].token # 0 =>
           inc'[j].token \in Attempts /\ inc'[j].token <= attempts
           /\ inc[inc'[j].token].key = inc[j].key
    BY <1>0, <2>1 DEF TokenInv
  <2>3. \A h \in LocalKeys : files'[h].tok # 0 =>
           files'[h].tok <= attempts /\ inc'[files'[h].tok].key = h
    BY <1>3 DEF TokenInv
  <2>4. \A j \in Attempts : inc'[j].proc = "up" => inc'[j].token # 0
    BY <1>2 DEF TokenInv
  <2> QED
    BY <1>3, <2>2, <2>3, <2>4 DEF TokenInv
<1>9. PortInv'
  <2>0. mode' = mode
    BY Zenon
  <2>1. CASE mode # "process"
    BY ONLY <2>0, <2>1 DEF PortInv
  <2>2. /\ mode = "process" => nextPort' >= nextPort /\ nextPort >= FromPort
        /\ nextPort \in Nat /\ r.addr \in Nat
        /\ \A j \in Attempts : inc[j].addr \in Nat
    BY DEF PortInv, Rec
  <2>3. CASE r.addr = 0
    BY <1>0, <1>2, <2>2, <2>3 DEF PortInv
  <2>4. CASE r.addr = nextPort /\ nextPort + 1 <= ToPort /\ nextPort' = nextPort + 2
    BY <1>0, <1>2, <2>2, <2>4 DEF PortInv
  <2> QED
    BY Zenon, <2>1, <2>3, <2>4
<1> QED
  BY Zenon, <1>1, <1>5, <1>6, <1>7, <1>8, <1>9

\* An attempt that gives the lock back without a pod keeps the invariant.
LEMMA GiveUpInv ==
    ASSUME LocalIInv, mu # 0, mu' = 0, UNCHANGED <<mode, attempts, pods, inc>>,
           files' \in [LocalKeys -> [tok : Attempts \cup {0}, port : Nat]],
           \A h \in LocalKeys : files'[h].tok = files[h].tok,
           nextPort' \in Nat, nextPort' >= nextPort
    PROVE  LocalIInv'
<1>1. /\ inc[mu] \in Rec /\ inc' = [inc EXCEPT ![mu] = inc[mu]]
      /\ inc[mu].phase = "None" /\ inc[mu].rel = "no" /\ inc[mu].proc = "none"
      /\ inc[mu].token = 0 /\ inc[mu].addr = 0
  BY DEF LocalIInv, LocalTypeOK, Rec, MuInv, Unused
<1> QED
  BY Zenon, <1>1, StartInv

\* startProcess keeps the invariant: the ports it takes are above all that were dealt out.
LEMMA StartProcessInv == ASSUME LocalIInv, StartProcess PROVE LocalIInv'
<1> DEFINE k == inc[mu].key
           r == [inc[mu] EXCEPT !.addr = nextPort, !.phase = "Starting", !.proc = "booting"]
<1>0. /\ mu # 0 /\ mu' = 0 /\ mode = "process" /\ UNCHANGED <<mode, attempts>>
      /\ nextPort \in Nat /\ nextPort' = nextPort + 2 /\ nextPort + 1 <= ToPort
      /\ nextPort' \in Nat /\ nextPort' >= nextPort
      /\ k \in LocalKeys /\ inc[mu] \in Rec /\ inc[mu].rel = "no" /\ inc[mu].token = 0
  BY DEF StartProcess, LocalIInv, LocalTypeOK, MuInv, Rec, Unused
<1>1. /\ files' \in [LocalKeys -> [tok : Attempts \cup {0}, port : Nat]]
      /\ \A h \in LocalKeys : files'[h].tok = files[h].tok
  <2>1. files \in [LocalKeys -> [tok : Attempts \cup {0}, port : Nat]]
    BY Zenon DEF LocalIInv, LocalTypeOK
  <2>2. files' = files \/ files' = [files EXCEPT ![k].port = nextPort]
    BY Zenon DEF StartProcess
  <2> QED
    BY ONLY <1>0, <2>1, <2>2
<1>2. CASE UNCHANGED <<pods, inc>>
  BY Zenon, <1>0, <1>1, <1>2, GiveUpInv
<1>3. CASE Started(mu, r)
  <2>1. /\ r \in Rec /\ r.key = k /\ r.addr = nextPort /\ r.phase = "Starting"
        /\ r.proc = "booting" /\ r.rel = "no" /\ r.token = 0
    BY Zenon, <1>0 DEF Rec
  <2>2. inc' = [inc EXCEPT ![mu] = r] /\ pods' = [pods EXCEPT ![r.key] = mu]
    BY Zenon, <1>3 DEF Started
  <2> HIDE DEF r
  <2> QED
    BY Zenon, <1>0, <1>1, <2>1, <2>2, StartInv
<1> QED
  BY Zenon, <1>2, <1>3 DEF StartProcess

\* startDocker keeps the invariant: a container has the token that its attempt wrote.
LEMMA StartDockerInv == ASSUME LocalIInv, StartDocker PROVE LocalIInv'
<1> DEFINE k == inc[mu].key
<1>0. /\ mu # 0 /\ mu' = 0 /\ mode # "process" /\ UNCHANGED <<mode, attempts, files, nextPort>>
      /\ nextPort \in Nat
      /\ files' \in [LocalKeys -> [tok : Attempts \cup {0}, port : Nat]]
      /\ k \in LocalKeys /\ inc[mu] \in Rec /\ inc[mu].rel = "no"
      /\ inc[mu].phase = "None" /\ files[k].tok \in Attempts \cup {0}
  BY ZenonT(40) DEF StartDocker, LocalIInv, LocalTypeOK, MuInv, Rec, Unused
<1>1. CASE UNCHANGED <<pods, inc>>
  BY <1>0, <1>1, GiveUpInv
<1>2. ASSUME NEW a \in Addrs,
             LET c == [inc[mu] EXCEPT !.addr = a, !.proc = "booting", !.token = files[k].tok]
             IN \/ Started(mu, [c EXCEPT !.phase = "Starting"])
                \/ inc' = [inc EXCEPT ![mu] = c] /\ UNCHANGED pods
      PROVE  LocalIInv'
  <2> DEFINE c == [inc[mu] EXCEPT !.addr = a, !.proc = "booting", !.token = files[k].tok]
             d == [c EXCEPT !.phase = "Starting"]
  <2>1. /\ c \in Rec /\ c.key = k /\ c.phase = "None" /\ c.rel = "no" /\ c.proc = "booting"
        /\ c.token = files[k].tok
    BY Zenon, <1>0 DEF Rec
  <2>2. /\ d \in Rec /\ d.key = k /\ d.phase = "Starting" /\ d.rel = "no" /\ d.proc = "booting"
        /\ d.token = files[k].tok
    BY Zenon, <1>0 DEF Rec
  <2>3. \/ inc' = [inc EXCEPT ![mu] = d] /\ pods' = [pods EXCEPT ![d.key] = mu]
        \/ inc' = [inc EXCEPT ![mu] = c] /\ pods' = pods
    BY Zenon, <1>2 DEF Started
  <2> HIDE DEF c, d
  <2>4. CASE inc' = [inc EXCEPT ![mu] = d] /\ pods' = [pods EXCEPT ![d.key] = mu]
    BY Zenon, <1>0, <2>2, <2>4, StartInv
  <2>5. CASE inc' = [inc EXCEPT ![mu] = c] /\ pods' = pods
    BY Zenon, <1>0, <2>1, <2>5, StartInv
  <2> QED
    BY Zenon, <2>3, <2>4, <2>5
<1> QED
  BY Zenon, <1>1, <1>2 DEF StartDocker, FreeAddrs

\* Release takes the entry: the attempt is not an entry any more, and nobody else's changes.
LEMMA ReleaseTakeInv == ASSUME LocalIInv, NEW k \in LocalKeys, ReleaseTake(k) PROVE LocalIInv'
<1> DEFINE i == pods[k]
           r == [inc[i] EXCEPT !.rel = "kill"]
<1>0. i \in Attempts /\ i # 0 /\ i # mu /\ i <= attempts /\ inc[i] \in Rec /\ inc[i].key = k
      /\ mu = 0
  BY Zenon, Places DEF ReleaseTake, LocalIInv, EntryInv
<1>1. /\ r \in Rec /\ r.key = inc[i].key /\ r.addr = inc[i].addr /\ r.phase = inc[i].phase
      /\ r.proc = inc[i].proc /\ r.token = inc[i].token
  BY Zenon, <1>0 DEF Rec
<1>2. /\ inc' = [inc EXCEPT ![i] = r] /\ pods' = [pods EXCEPT ![k] = 0]
      /\ UNCHANGED <<mode, mu, attempts, files, nextPort>>
  BY Zenon DEF ReleaseTake
<1> HIDE DEF r
<1>3. LocalTypeOK'
  BY <1>0, <1>1, <1>2, Places DEF LocalIInv, LocalTypeOK, Rec
<1>4. /\ inc'[i] = r /\ \A j \in Attempts : j # i => inc'[j] = inc[j]
      /\ pods'[k] = 0 /\ \A h \in LocalKeys : h # k => pods'[h] = pods[h]
  BY Zenon, <1>0, <1>2 DEF LocalIInv, LocalTypeOK
<1>5. \A j \in Attempts : /\ inc'[j].key = inc[j].key /\ inc'[j].addr = inc[j].addr
                          /\ inc'[j].token = inc[j].token /\ inc'[j].proc = inc[j].proc
  BY Zenon, <1>1, <1>4
<1> USE Places DEF LocalIInv
<1>6. UsedInv'
  BY <1>0, <1>2, <1>4, <1>5 DEF UsedInv
<1>7. MuInv'
  BY Zenon, <1>0, <1>2 DEF MuInv
<1>8. EntryInv'
  <2>1. \A h \in LocalKeys : pods'[h] # 0 => h # k /\ pods[h] # i /\ inc'[pods'[h]] = inc[pods[h]]
    BY <1>0, <1>4
  <2> QED
    BY <1>0, <1>2, <1>4, <2>1 DEF EntryInv
<1>9. TokenInv' /\ PortInv'
  BY <1>2, <1>5 DEF TokenInv, PortInv
<1> QED
  BY Zenon, <1>3, <1>6, <1>7, <1>8, <1>9

\* What a Release that took its entry does later, to attempt i's wrapper and to the key's
\* directory, keeps the invariant: no entry is of that attempt.
LEMMA AfterReleaseInv ==
    ASSUME LocalIInv, NEW i \in Attempts, inc[i].rel # "no", NEW r \in Rec,
           inc' = [inc EXCEPT ![i] = r],
           UNCHANGED <<mode, mu, attempts, pods, nextPort>>,
           \/ files' = files
           \/ files' = [files EXCEPT ![inc[i].key] = NoDir],
           r.key = inc[i].key, r.addr = inc[i].addr,
           r.token \in {0, inc[i].token}, r.proc = "up" => r.token # 0
    PROVE  LocalIInv'
<1>0. i <= attempts /\ i # mu /\ inc[i].key \in LocalKeys
  BY Places DEF LocalIInv, UsedInv, MuInv, Unused
<1>1. \A h \in LocalKeys : pods[h] # i
  BY Places DEF LocalIInv, EntryInv
<1>2. /\ files' \in [LocalKeys -> [tok : Attempts \cup {0}, port : Nat]]
      /\ \A h \in LocalKeys : files'[h].tok \in {0, files[h].tok}
  <2>1. files \in [LocalKeys -> [tok : Attempts \cup {0}, port : Nat]]
    BY Zenon DEF LocalIInv, LocalTypeOK
  <2> QED
    BY <1>0, <2>1 DEF NoDir
<1>3. LocalTypeOK'
  BY <1>0, <1>2, Places DEF LocalIInv, LocalTypeOK, Rec
<1>4. inc'[i] = r /\ \A j \in Attempts : j # i => inc'[j] = inc[j]
  BY Zenon DEF LocalIInv, LocalTypeOK
<1>5. \A j \in Attempts : inc'[j].key = inc[j].key /\ inc'[j].addr = inc[j].addr
  BY Zenon, <1>4
<1> USE Places DEF LocalIInv
<1>6. UsedInv'
  BY <1>0, <1>4, <1>5 DEF UsedInv
<1>7. MuInv'
  <2> SUFFICES ASSUME mu # 0 PROVE MuInv'
    BY Zenon DEF MuInv
  <2>1. mu \in Attempts /\ inc'[mu] = inc[mu] /\ inc[mu].key \in LocalKeys
    BY Zenon, <1>0, <1>4 DEF LocalTypeOK
  <2>2. \A h \in LocalKeys : pods[h] # 0 => inc'[pods[h]] = inc[pods[h]]
    BY Zenon, <1>1, <1>4
  <2> QED
    BY <1>2, <2>1, <2>2 DEF MuInv
<1>8. EntryInv'
  BY <1>0, <1>1, <1>2, <1>4 DEF EntryInv
<1>9. TokenInv'
  BY <1>2, <1>4, <1>5 DEF TokenInv
<1>10. PortInv'
  BY <1>5 DEF PortInv
<1> QED
  BY Zenon, <1>3, <1>6, <1>7, <1>8, <1>9, <1>10

\* Stopping the wrapper of a released pod keeps the invariant.
LEMMA ReleaseStopInv == ASSUME LocalIInv, NEW i \in Attempts, ReleaseStop(i) PROVE LocalIInv'
<1> DEFINE r == inc'[i]
<1>0. /\ inc[i] \in Rec /\ inc[i].rel # "no"
      /\ UNCHANGED <<mode, mu, attempts, pods, files, nextPort>>
      /\ inc[i].proc = "up" => inc[i].token # 0
  BY Zenon, Places DEF ReleaseStop, LocalIInv, TokenInv
<1>1. /\ inc' = [inc EXCEPT ![i] = r]
      /\ \/ r = [Ended(inc[i], "killed") EXCEPT !.rel = "remove"]
         \/ r = [inc[i] EXCEPT !.rel = "remove"]
  BY Zenon DEF ReleaseStop, Killed, LocalIInv, LocalTypeOK
<1> HIDE DEF r
<1>2. /\ r \in Rec /\ r.key = inc[i].key /\ r.addr = inc[i].addr
      /\ r.token \in {0, inc[i].token} /\ r.proc \in {"killed", inc[i].proc}
      /\ r.proc = "up" => r.token # 0
  <2>1. CASE r = [Ended(inc[i], "killed") EXCEPT !.rel = "remove"]
    BY Zenon, <1>0, <2>1 DEF Rec, Ended
  <2>2. CASE r = [inc[i] EXCEPT !.rel = "remove"]
    BY Zenon, <1>0, <2>2 DEF Rec
  <2> QED
    BY Zenon, <1>1, <2>1, <2>2
<1> QED
  BY Zenon, <1>0, <1>1, <1>2, AfterReleaseInv

\* So does removing its directory, although the next pod of the key may have written it.
LEMMA ReleaseRemoveInv == ASSUME LocalIInv, NEW i \in Attempts, ReleaseRemove(i) PROVE LocalIInv'
<1> DEFINE r == [inc[i] EXCEPT !.rel = "done"]
<1>0. inc[i] \in Rec /\ inc[i].rel # "no" /\ (inc[i].proc = "up" => inc[i].token # 0)
  BY Zenon, Places DEF ReleaseRemove, LocalIInv, TokenInv
<1>1. /\ r \in Rec /\ r.key = inc[i].key /\ r.addr = inc[i].addr /\ r.token = inc[i].token
      /\ r.proc = inc[i].proc
  BY Zenon, <1>0 DEF Rec
<1>2. /\ inc' = [inc EXCEPT ![i] = r] /\ files' = [files EXCEPT ![inc[i].key] = NoDir]
      /\ UNCHANGED <<mode, mu, attempts, pods, nextPort>>
  BY Zenon DEF ReleaseRemove
<1> HIDE DEF r
<1> QED
  BY Zenon, <1>0, <1>1, <1>2, AfterReleaseInv

\* The invariant is inductive.
LEMMA LocalNextInv == LocalIInv /\ [LocalNext]_localVars => LocalIInv'
<1> SUFFICES ASSUME LocalIInv, [LocalNext]_localVars PROVE LocalIInv'
  BY Zenon
<1>1. CASE \E k \in LocalKeys : LocalEnsure(k) \/ ReleaseTake(k)
  BY Zenon, <1>1, EnsureInv, ReleaseTakeInv
<1>2. CASE PortsExhausted
  BY <1>2, GiveUpInv DEF PortsExhausted, LocalIInv, LocalTypeOK
<1>3. CASE StartProcess \/ StartDocker
  BY Zenon, <1>3, StartProcessInv, StartDockerInv
<1>4. CASE \E i \in Attempts : Boot(i) \/ Exit(i) \/ WatchReady(i)
  BY Zenon, <1>4, BootInv, ExitInv, WatchInv
<1>5. CASE \E i \in Attempts : ReleaseStop(i) \/ ReleaseRemove(i)
  BY Zenon, <1>5, ReleaseStopInv, ReleaseRemoveInv
<1>6. CASE UNCHANGED localVars
  BY Zenon, <1>6 DEF localVars, LocalIInv, LocalTypeOK, UsedInv, MuInv, EntryInv, TokenInv, PortInv,
              Attempts, Unused
<1> QED
  BY Zenon, <1>1, <1>2, <1>3, <1>4, <1>5, <1>6 DEF LocalNext

\* The state of the local backend is always well formed: in particular each entry is of the key it
\* is filed under.
THEOREM LocalTypeCorrect == LocalSpec => []LocalTypeOK
<1>1. LocalIInv => LocalTypeOK
  BY Zenon DEF LocalIInv
<1> QED
  BY <1>1, LocalInitInv, LocalNextInv, PTL DEF LocalSpec

\* No two wrapper processes are ever given a port in common, and none a port outside the range.
THEOREM PortsNeverOverlap == LocalSpec => []PortsDisjoint
<1>1. LocalIInv => PortsDisjoint
  BY Zenon, Places DEF LocalIInv, PortInv, PortsDisjoint
<1> QED
  BY <1>1, LocalInitInv, LocalNextInv, PTL DEF LocalSpec

\* The wrapper of an entry is never stopped by the Release of another pod, and a Ready pod's
\* wrapper requires the token of that pod, whatever becomes of the directory meanwhile.
THEOREM EntriesHaveTheirWrapper == LocalSpec => []EntryHasItsWrapper
<1>1. LocalIInv => EntryHasItsWrapper
  <2> SUFFICES ASSUME LocalIInv PROVE EntryHasItsWrapper
    BY Zenon
  <2>1. \A k \in LocalKeys : pods[k] # 0 =>
            /\ inc[pods[k]].proc # "killed"
            /\ inc[pods[k]].phase = "Ready" /\ inc[pods[k]].proc = "up" =>
                  inc[pods[k]].token = pods[k]
    BY Places DEF LocalIInv, EntryInv, TokenInv
  <2>2. \A i \in Attempts : inc[i].token # 0 => inc[inc[i].token].key = inc[i].key
    BY Zenon DEF LocalIInv, TokenInv
  <2> QED
    BY Zenon, <2>1, <2>2 DEF EntryHasItsWrapper
<1> QED
  BY <1>1, LocalInitInv, LocalNextInv, PTL DEF LocalSpec

Slots == [k \in LocalKeys |-> StatusOf(k)]

\* A step that changes no entry and no phase of an entry is not seen through Status.
LEMMA Unseen ==
    ASSUME LocalIInv, pods' = pods, \A h \in LocalKeys : pods[h] # 0 =>
                                        inc'[pods[h]].phase = inc[pods[h]].phase
    PROVE  Slots' = Slots
BY Zenon DEF Slots, StatusOf

\* Every step of the backend is, through Status, one the contract allows or none: an attempt gets
\* an entry only over an absent or failed one, and the goroutine of a released pod is not seen.
LEMMA ContractStep ==
    ASSUME LocalIInv, [LocalNext]_localVars
    PROVE  \/ UNCHANGED Slots
           \/ \E k \in LocalKeys :
                 \/ /\ Slots[k] \in {"Absent", "Failed"}
                    /\ Slots' = [Slots EXCEPT ![k] = "Starting"]
                 \/ /\ Slots[k] = "Starting"
                    /\ \E p \in {"Ready", "Failed"} : Slots' = [Slots EXCEPT ![k] = p]
                 \/ /\ Slots[k] # "Absent"
                    /\ Slots' = [Slots EXCEPT ![k] = "Absent"]
<1> USE Places DEF LocalIInv
<1>1. ASSUME NEW k \in LocalKeys, LocalEnsure(k) PROVE UNCHANGED Slots
  <2>1. \A h \in LocalKeys : pods[h] # attempts + 1
    BY DEF EntryInv
  <2> QED
    BY Zenon, <1>1, <2>1, Unseen DEF LocalEnsure, LocalTypeOK
<1>2. ASSUME NEW k \in LocalKeys, ReleaseTake(k)
      PROVE  Slots[k] # "Absent" /\ Slots' = [Slots EXCEPT ![k] = "Absent"]
  <2>1. \A h \in LocalKeys : h # k /\ pods[h] # 0 => pods[h] # pods[k]
    BY Zenon
  <2>2. \A h \in LocalKeys : StatusOf(h)' = IF h = k THEN "Absent" ELSE StatusOf(h)
    BY Zenon, <1>2, <2>1 DEF ReleaseTake, StatusOf, LocalTypeOK
  <2>3. StatusOf(k) # "Absent"
    BY Zenon, <1>2 DEF ReleaseTake, StatusOf, Rec
  <2> QED
    BY Zenon, <2>2, <2>3 DEF Slots
<1>3. ASSUME mu # 0, NEW r, r.key = inc[mu].key, r.phase = "Starting", Started(mu, r)
      PROVE  LET k == r.key IN
             Slots[k] \in {"Absent", "Failed"} /\ Slots' = [Slots EXCEPT ![k] = "Starting"]
  <2>1. mu \in Attempts /\ r.key \in LocalKeys /\ \A h \in LocalKeys : pods[h] # mu
    BY Zenon, <1>3 DEF LocalTypeOK, MuInv
  <2>2. \A h \in LocalKeys : StatusOf(h)' = IF h = r.key THEN "Starting" ELSE StatusOf(h)
    BY Zenon, <1>3, <2>1 DEF Started, StatusOf, LocalTypeOK
  <2>3. StatusOf(r.key) \in {"Absent", "Failed"}
    BY Zenon, <1>3, <2>1 DEF MuInv, StatusOf
  <2> QED
    BY Zenon, <2>1, <2>2, <2>3 DEF Slots
<1>4. ASSUME NEW i \in Attempts, WatchReady(i)
      PROVE  \/ UNCHANGED Slots
             \/ \E k \in LocalKeys : 
                   /\ Slots[k] = "Starting"
                   /\ \E p \in {"Ready", "Failed"} : Slots' = [Slots EXCEPT ![k] = p]
  <2>1. PICK p \in {"Ready", "Failed"} : inc' = [inc EXCEPT ![i].phase = p]
    BY Zenon, <1>4 DEF WatchReady
  <2>2. CASE \A h \in LocalKeys : pods[h] # i
    BY Zenon, <1>4, <2>1, <2>2, Unseen DEF WatchReady, LocalTypeOK
  <2>3. ASSUME NEW k \in LocalKeys, pods[k] = i
        PROVE  Slots[k] = "Starting" /\ Slots' = [Slots EXCEPT ![k] = p]
    <3>1. i # 0 /\ \A h \in LocalKeys : h # k => pods[h] # i
      BY Zenon, <2>3
    <3>2. \A h \in LocalKeys : StatusOf(h)' = IF h = k THEN p ELSE StatusOf(h)
      BY <1>4, <2>1, <2>3, <3>1 DEF WatchReady, StatusOf, LocalTypeOK
    <3>3. StatusOf(k) = "Starting"
      BY Zenon, <1>4, <2>3, <3>1 DEF WatchReady, StatusOf
    <3> QED
      BY Zenon, <3>2, <3>3 DEF Slots
  <2> QED
    BY Zenon, <2>2, <2>3
<1>5. ASSUME NEW i \in Attempts, Boot(i) \/ Exit(i) \/ ReleaseStop(i) \/ ReleaseRemove(i)
      PROVE  UNCHANGED Slots
  <2>1. \A j \in Attempts : inc'[j].phase = inc[j].phase
    <3>1. \A j \in Attempts : j # i => inc'[j] = inc[j]
      BY Zenon, <1>5 DEF Boot, Exit, ReleaseStop, ReleaseRemove, LocalTypeOK
    <3>2. inc'[i].phase = inc[i].phase
      <4>1. CASE Boot(i)
        BY <4>1 DEF Boot, LocalTypeOK, Ended
      <4>2. CASE Exit(i)
        BY <4>2 DEF Exit, LocalTypeOK, Ended
      <4>3. CASE ReleaseStop(i)
        <5>1. inc[i] \in Rec
          BY Zenon
        <5>2. \/ inc'[i] = [Killed(inc[i]) EXCEPT !.rel = "remove"]
              \/ inc'[i] = [inc[i] EXCEPT !.rel = "remove"]
          BY Zenon, <4>3 DEF ReleaseStop, LocalTypeOK
        <5>3. Killed(inc[i]) \in Rec /\ Killed(inc[i]).phase = inc[i].phase
          BY ZenonT(40), <5>1 DEF Killed, Ended, Rec
        <5> QED
          BY ONLY <5>1, <5>2, <5>3 DEF Rec
      <4>4. CASE ReleaseRemove(i)
        BY <4>4 DEF ReleaseRemove, LocalTypeOK
      <4> QED
        BY Zenon, <1>5, <4>1, <4>2, <4>3, <4>4
    <3> QED
      BY Zenon, <3>1, <3>2
  <2>2. pods' = pods
    BY Zenon, <1>5 DEF Boot, Exit, ReleaseStop, ReleaseRemove
  <2> QED
    BY Zenon, <2>1, <2>2, Unseen
<1>6. ASSUME pods' = pods, inc' = inc PROVE UNCHANGED Slots
  BY Zenon, <1>6 DEF Slots, StatusOf
<1>7. ASSUME StartProcess
      PROVE  \/ UNCHANGED Slots
             \/ \E k \in LocalKeys : /\ Slots[k] \in {"Absent", "Failed"}
                                     /\ Slots' = [Slots EXCEPT ![k] = "Starting"]
  <2> DEFINE r == [inc[mu] EXCEPT !.addr = nextPort, !.phase = "Starting", !.proc = "booting"]
  <2>1. mu # 0 /\ mu \in Attempts /\ inc[mu].key \in LocalKeys /\ inc[mu] \in Rec
    BY Zenon, <1>7 DEF StartProcess, LocalTypeOK
  <2>2. r.key = inc[mu].key /\ r.phase = "Starting"
    BY Zenon, <2>1 DEF Rec
  <2>3. (pods' = pods /\ inc' = inc) \/ Started(mu, r)
    BY Zenon, <1>7 DEF StartProcess
  <2> HIDE DEF r
  <2> QED
    BY Zenon, <1>3, <1>6, <2>1, <2>2, <2>3
<1>8. ASSUME StartDocker
      PROVE  \/ UNCHANGED Slots
             \/ \E k \in LocalKeys : /\ Slots[k] \in {"Absent", "Failed"}
                                     /\ Slots' = [Slots EXCEPT ![k] = "Starting"]
  <2>1. mu # 0 /\ mu \in Attempts /\ inc[mu].key \in LocalKeys /\ inc[mu] \in Rec
    BY Zenon, <1>8 DEF StartDocker, LocalTypeOK
  <2>2. CASE pods' = pods /\ inc' = inc
    BY Zenon, <1>6, <2>2
  <2>3. ASSUME NEW c, inc' = [inc EXCEPT ![mu] = c], pods' = pods
        PROVE  UNCHANGED Slots
    <3>1. \A h \in LocalKeys : pods[h] # mu
      BY Zenon, <2>1 DEF MuInv
    <3> QED
      BY Zenon, <2>3, <3>1, Unseen DEF LocalTypeOK
  <2>4. ASSUME NEW a, LET c == [inc[mu] EXCEPT !.addr = a, !.proc = "booting",
                                               !.token = files[inc[mu].key].tok]
                      IN Started(mu, [c EXCEPT !.phase = "Starting"])
        PROVE  \E k \in LocalKeys : /\ Slots[k] \in {"Absent", "Failed"}
                                    /\ Slots' = [Slots EXCEPT ![k] = "Starting"]
    <3> DEFINE c == [inc[mu] EXCEPT !.addr = a, !.proc = "booting",
                                    !.token = files[inc[mu].key].tok]
               d == [c EXCEPT !.phase = "Starting"]
    <3>1. d.key = inc[mu].key /\ d.phase = "Starting"
      BY Zenon, <2>1 DEF Rec
    <3>2. Started(mu, d)
      BY Zenon, <2>4
    <3> HIDE DEF d
    <3> QED
      BY Zenon, <1>3, <2>1, <3>1, <3>2
  <2> QED
    BY Zenon, <1>8, <2>2, <2>3, <2>4 DEF StartDocker
<1>9. CASE PortsExhausted \/ UNCHANGED localVars
  BY Zenon, <1>6, <1>9 DEF PortsExhausted, localVars
<1> HIDE DEF LocalIInv
<1> QED
  BY ONLY [LocalNext]_localVars, <1>1, <1>2, <1>4, <1>5, <1>7, <1>8, <1>9 DEF LocalNext

\* The local backend implements the provisioner's contract: whatever Ensure, Release, readiness
\* goroutines and wrappers do, Status of a key only takes the steps of one slot.  (That a starting
\* pod settles is checked by the run.)
THEOREM BackendKeepsContract == LocalSpec => Contract!ContractSafety
<1>1. LocalInit => Contract!ContractInit
  BY Zenon DEF LocalInit, Contract!ContractInit, StatusOf
<1>2. LocalIInv /\ [LocalNext]_localVars =>
         [Contract!ContractNext]_([k \in LocalKeys |-> StatusOf(k)])
  <2> SUFFICES ASSUME LocalIInv, [LocalNext]_localVars
               PROVE  [Contract!ContractNext]_([k \in LocalKeys |-> StatusOf(k)])
    BY Zenon
  <2> QED
    BY Zenon, ContractStep DEF Slots, Contract!ContractNext, Contract!ContractEnsure,
       Contract!ContractSettle, Contract!ContractRelease
<1> QED
  BY <1>1, <1>2, LocalInitInv, LocalNextInv, PTL DEF LocalSpec, Contract!ContractSafety
=============================================================================
