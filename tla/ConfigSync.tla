----------------------------- MODULE ConfigSync -----------------------------
(***************************************************************************)
(* The controller turns the servers of the configuration into ServerType   *)
(* objects (controller/render.go, ConfigSyncer; app/controller.go).  One   *)
(* goroutine syncs at the start and then on every reload, so syncs do not  *)
(* overlap; but each is many calls, reads through the manager's cache,     *)
(* which lags, and stops at the first error, which is only logged.         *)
(*                                                                         *)
(* A configuration is its hash, in 1..MaxHash; Servers(h) are its servers. *)
(* The hash is of the contents, so an earlier one can come back.           *)
(***************************************************************************)
EXTENDS Naturals, FiniteSets

CONSTANTS MaxHash,
          MaxReloads  \* bound on the reloads and restarts of a behaviour

ASSUME SyncAssumption == MaxHash \in Nat \ {0} /\ MaxReloads \in Nat

VARIABLES
    loaded,  \* the hash of the store's configuration
    reloads,
    objs,    \* server name -> hash of its ServerType, 0: no object
    cached,  \* the same, as the manager's cache has it
    sync,    \* where Sync is
    stale    \* history: this Sync read something the cache no longer should have had

syncVars == <<loaded, reloads, objs, cached, sync, stale>>

Hashes == 1 .. MaxHash
Names == {"git", "jira", "wiki"}
Servers(h) == CASE h = 1 -> {"git", "jira"} [] h = 2 -> {"git", "wiki"} [] OTHER -> {"jira"}

Resting(outcome) == [at |-> "rest", outcome |-> outcome]

\* What Sync makes of a server: RenderServerType puts the hash in the spec and in a label.
Render(h) == [n \in Names |-> IF n \in Servers(h) THEN h ELSE 0]

-----------------------------------------------------------------------------

\* The names still to upsert, in the order of the file (any order here).
Start(h) == [at |-> "upsert", todo |-> Servers(h)]

\* The callback of a reload, or the start of the process, whose cache is then in sync.
SyncReload(h) ==
    /\ sync.at = "rest" /\ reloads < MaxReloads /\ h # loaded
    /\ loaded' = h /\ reloads' = reloads + 1
    /\ sync' = Start(h) /\ stale' = FALSE
    /\ UNCHANGED <<objs, cached>>

Restart ==
    /\ reloads < MaxReloads /\ reloads' = reloads + 1
    /\ cached' = objs /\ sync' = Start(loaded) /\ stale' = FALSE
    /\ UNCHANGED <<loaded, objs>>

\* Get of one server, and what follows from it: nothing if it has the hash; Update, refused if
\* the object is not the one that was read; Create, refused if there is one after all.
Upsert(n) ==
    /\ sync.at = "upsert" /\ n \in sync.todo
    /\ stale' = (stale \/ cached[n] # objs[n])
    /\ LET done == sync' = [sync EXCEPT !.todo = @ \ {n}] IN
       IF cached[n] = loaded THEN done /\ UNCHANGED objs
       ELSE IF cached[n] = objs[n] THEN done /\ objs' = [objs EXCEPT ![n] = loaded]
       ELSE sync' = Resting("error") /\ UNCHANGED objs
    /\ UNCHANGED <<loaded, reloads, cached>>

\* Mutant: what is left over is what this file never had.
LeftoversNone == {}

\* The objects of the List that the file does not want.
Leftovers == {n \in Names : cached[n] # 0 /\ n \notin Servers(loaded)}

SyncList ==
    /\ sync.at = "upsert" /\ sync.todo = {}
    /\ sync' = [at |-> "prune", todo |-> Leftovers]
    /\ stale' = (stale \/ \E n \in Names : (cached[n] = 0) # (objs[n] = 0))
    /\ UNCHANGED <<loaded, reloads, objs, cached>>

\* Delete of one of them; one that is gone is an error.
Prune(n) ==
    /\ sync.at = "prune" /\ n \in sync.todo
    /\ IF objs[n] = 0 THEN sync' = Resting("error") /\ UNCHANGED objs
       ELSE /\ sync' = [sync EXCEPT !.todo = @ \ {n}]
            /\ objs' = [objs EXCEPT ![n] = 0]
    /\ UNCHANGED <<loaded, reloads, cached, stale>>

SyncReturns ==
    /\ sync.at = "prune" /\ sync.todo = {}
    /\ sync' = Resting("ok")
    /\ UNCHANGED <<loaded, reloads, objs, cached, stale>>

\* Any of the calls fails: the error is logged, and nothing syncs again before the file changes.
SyncFails ==
    /\ sync.at # "rest"
    /\ sync' = Resting("error")
    /\ UNCHANGED <<loaded, reloads, objs, cached, stale>>

\* The watch brings the cache up to date with one object.
CacheCatchesUp(n) ==
    /\ cached[n] # objs[n] /\ cached' = [cached EXCEPT ![n] = objs[n]]
    /\ UNCHANGED <<loaded, reloads, objs, sync, stale>>

SyncInit ==
    /\ loaded \in Hashes /\ reloads = 0
    /\ objs \in {[n \in Names |-> 0], Render(1)} /\ cached = objs
    /\ sync = Start(loaded) /\ stale = FALSE

SyncNext ==
    \/ \E h \in Hashes : SyncReload(h)
    \/ Restart
    \/ \E n \in Names : Upsert(n) \/ Prune(n) \/ CacheCatchesUp(n)
    \/ SyncList \/ SyncReturns \/ SyncFails

SyncSpec == SyncInit /\ [][SyncNext]_syncVars

-----------------------------------------------------------------------------

SyncTypeOK ==
    /\ loaded \in Hashes /\ reloads \in 0 .. MaxReloads /\ stale \in BOOLEAN
    /\ objs \in [Names -> 0 .. MaxHash] /\ cached \in [Names -> 0 .. MaxHash]
    /\ \A n \in Names : objs[n] # 0 => n \in Servers(objs[n])
    /\ sync.at = "rest" => sync.outcome \in {"ok", "error"}
    /\ sync.at # "rest" => sync.todo \subseteq Names

\* ConfigSyncer "upserts ServerType objects whenever the config store reloads and prunes the
\* ones that disappeared from the file": a Sync that returns no error leaves exactly the
\* objects of the loaded file, whatever earlier ones left half done, unless it read objects
\* that the cache had not caught up with.
SyncExact == sync = Resting("ok") /\ ~stale => objs = Render(loaded)
=============================================================================
