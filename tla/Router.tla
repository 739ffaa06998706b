------------------------------- MODULE Router --------------------------------
(***************************************************************************)
(* router/: the aggregated endpoint /mcp.  A gateway session of a client   *)
(* belongs to one subject.  It opens MCP sessions of its own to the        *)
(* subject's pods (upstreams), one per server type, and keeps them until   *)
(* it ends.  Tool listings are cached for all sessions of the gateway, per *)
(* configuration; those of servers that run with user credentials, per     *)
(* subject.                                                                *)
(*                                                                         *)
(* A session lists when it begins (addEagerTools), or, a lazy one, in each *)
(* use of a meta tool (addMetaTools), of which execute calls afterwards;   *)
(* calls come at any time.  Here both do: what order a lazy session keeps  *)
(* in one execute matters to none of the properties.                       *)
(*                                                                         *)
(* Listings and calls run concurrently in a session.  The definition of a  *)
(* server type is the one of the configuration the session began with;     *)
(* EnsurePod and the transport of an upstream take the current one.        *)
(***************************************************************************)
EXTENDS Naturals, FiniteSets

CONSTANTS
    Clients,        \* gateway sessions, each of another subject
    RTypes,
    RCalls,         \* listings and calls under way at a time
    MaxUps,         \* bound: upstreams opened in a behaviour
    MaxConfig       \* bound: configurations

ASSUME RouterAssumption ==
    /\ {MaxUps, MaxConfig} \subseteq Nat /\ MaxConfig > 0
    /\ IsFiniteSet(RCalls)
    /\ {"all", "none"} \cap Clients = {}

VARIABLES
    config,     \* config[h][t]: type t runs with user credentials under configuration h
    hash,       \* the current configuration
    client,     \* client[u]: "none", "open" or "closed"
    decl,       \* decl[u]: the configuration the session began with
    conns,      \* conns[u][t]: the upstream kept for the type, 0 for none
    ups,        \* ups[n]: the n-th upstream
    cache,      \* cache[t][w]: the listing kept under the current configuration, for the subject w or for all
    rcall       \* rcall[c]: a listing or a call

routerVars == <<config, hash, client, decl, conns, ups, cache, rcall>>

Configs == 1 .. MaxConfig
Ups == 1 .. MaxUps

\* A listing: the subject of the pod it came from, and whether the server ran with credentials
\* of that subject.
NoListing == [of |-> "none", cred |-> FALSE]
Listings == [of : Clients, cred : BOOLEAN] \cup {NoListing}

NoUp == [u |-> "none", t |-> "none", cred |-> FALSE, open |-> FALSE]
NoRCall == [pc |-> "idle", kind |-> "list", u |-> "none", t |-> "none", hash |-> 0,
            cred |-> FALSE, up |-> 0]

NoCache == [t \in RTypes |-> [w \in Clients \cup {"all"} |-> NoListing]]

RouterTypeOK ==
    /\ config \in [Configs -> [RTypes -> BOOLEAN]] /\ hash \in Configs
    /\ client \in [Clients -> {"none", "open", "closed"}]
    /\ decl \in [Clients -> Configs]
    /\ conns \in [Clients -> [RTypes -> Ups \cup {0}]]
    /\ cache \in [RTypes -> [Clients \cup {"all"} -> Listings]]
    /\ \A c \in RCalls : rcall[c].pc \in {"idle", "get", "connect", "use", "panic"}
    /\ \A u \in Clients, t \in RTypes :
         conns[u][t] # 0 => ups[conns[u][t]].u = u /\ ups[conns[u][t]].t = t

RouterInit ==
    /\ config \in [Configs -> [RTypes -> BOOLEAN]] /\ hash = 1
    /\ client = [u \in Clients |-> "none"]
    /\ decl = [u \in Clients |-> 1]
    /\ conns = [u \in Clients |-> [t \in RTypes |-> 0]]
    /\ ups = [n \in Ups |-> NoUp]
    /\ cache = NoCache
    /\ rcall = [c \in RCalls |-> NoRCall]

SetCall(c, r) == rcall' = [rcall EXCEPT ![c] = r]

\* A listing, or a call, is over.  For a call the hook is given the subject of its principal,
\* which is nil when authorize refused: the dereference panics.  What the process does then is
\* not modelled, nothing follows.
OnCall(c, p) == SetCall(c, [NoRCall EXCEPT !.pc = IF p = "nil" THEN "panic" ELSE "idle"])

EndCall(c) == OnCall(c, rcall[c].u)

-----------------------------------------------------------------------------

\* The client has initialized.
Initialize(u) ==
    /\ client[u] = "none"
    /\ client' = [client EXCEPT ![u] = "open"]
    /\ decl' = [decl EXCEPT ![u] = hash]
    /\ UNCHANGED <<config, hash, conns, ups, cache, rcall>>

\* Mutant: listings are cached for all.
CacheKeyAll(u, t) == "all"

\* cacheKey, by the session's definition of the type.
CacheKey(u, t) == IF config[decl[u]][t] THEN u ELSE "all"

\* What toolsFor finds in the cache, unless it is too old.
Cached(u, t) == cache[t][CacheKey(u, t)]

\* toolsFor when it finds nothing, or what it finds is too old: the listing is to come from
\* the pod.
ToolsFor(c, u, t) ==
    /\ rcall[c].pc = "idle" /\ client[u] = "open"
    /\ SetCall(c, [NoRCall EXCEPT !.pc = "get", !.u = u, !.t = t, !.hash = hash])
    /\ UNCHANGED <<config, hash, client, decl, conns, ups, cache>>

\* call: authorize resolves the token of this call and asks the policy.  It may refuse:
\* then there is no principal.
Authorize(c, u, t) ==
    /\ rcall[c].pc = "idle" /\ client[u] = "open"
    /\ \/ SetCall(c, [NoRCall EXCEPT !.pc = "get", !.kind = "call", !.u = u, !.t = t])
       \/ OnCall(c, "nil")
    /\ UNCHANGED <<config, hash, client, decl, conns, ups, cache>>

\* upstreamFor: the upstream kept, or else EnsurePod.  The call's secrets may be missing.
UpstreamFor(c) ==
    LET r == rcall[c] IN
    /\ r.pc = "get"
    /\ \/ /\ conns[r.u][r.t] # 0
          /\ SetCall(c, [r EXCEPT !.pc = "use", !.up = conns[r.u][r.t]])
       \/ /\ conns[r.u][r.t] = 0
          /\ SetCall(c, [r EXCEPT !.pc = "connect", !.cred = config[hash][r.t]])
       \/ EndCall(c)
    /\ UNCHANGED <<config, hash, client, decl, conns, ups, cache>>

\* connect and put: a session with the pod, unless the pod is gone by now.  It is kept also in
\* place of the upstream of another call, and after the session of the client has ended.
Connect(c) ==
    LET r == rcall[c]  free == {n \in Ups : ups[n] = NoUp} IN
    /\ r.pc = "connect"
    /\ \/ /\ free # {}
          /\ LET n == CHOOSE x \in free : TRUE
             IN /\ ups' = [ups EXCEPT ![n] = [u |-> r.u, t |-> r.t, cred |-> r.cred, open |-> TRUE]]
                /\ conns' = [conns EXCEPT ![r.u][r.t] = n]
                /\ SetCall(c, [r EXCEPT !.pc = "use", !.up = n])
       \/ EndCall(c) /\ UNCHANGED <<conns, ups>>
    /\ UNCHANGED <<config, hash, client, decl, cache>>

\* ListTools or CallTool on the upstream, which fails when the pod was replaced since.  A
\* listing is kept under the configuration the call began with: after a reload it is not
\* found again.
UseUpstream(c) ==
    LET r == rcall[c]
        up == ups[r.up]
        l == [of |-> r.u, cred |-> config[decl[r.u]][r.t] \/ up.cred]
    IN
    /\ r.pc = "use"
    /\ \/ /\ up.open
          /\ r.kind = "list" /\ r.hash = hash
          /\ cache' = [cache EXCEPT ![r.t][CacheKey(r.u, r.t)] = l]
       \/ UNCHANGED cache
    /\ EndCall(c)
    /\ UNCHANGED <<config, hash, client, decl, conns, ups>>

\* The session ends, and closeAll with it.
CloseAll(u) ==
    /\ client[u] = "open"
    /\ client' = [client EXCEPT ![u] = "closed"]
    /\ ups' = [n \in Ups |-> IF \E t \in RTypes : conns[u][t] = n THEN [ups[n] EXCEPT !.open = FALSE]
                             ELSE ups[n]]
    /\ conns' = [conns EXCEPT ![u] = [t \in RTypes |-> 0]]
    /\ UNCHANGED <<config, hash, decl, cache, rcall>>

-----------------------------------------------------------------------------

\* Another configuration, with another hash: no listing is kept under it yet.
Reload ==
    /\ hash < MaxConfig /\ hash' = hash + 1
    /\ cache' = NoCache
    /\ UNCHANGED <<config, client, decl, conns, ups, rcall>>

RouterNext ==
    /\ \A c \in RCalls : rcall[c].pc # "panic"
    /\ \/ \E c \in RCalls : UpstreamFor(c) \/ Connect(c) \/ UseUpstream(c)
       \/ \E c \in RCalls, u \in Clients, t \in RTypes : ToolsFor(c, u, t) \/ Authorize(c, u, t)
       \/ \E u \in Clients : Initialize(u) \/ CloseAll(u)
       \/ Reload

RouterSpec == RouterInit /\ [][RouterNext]_routerVars

-----------------------------------------------------------------------------

\* "Tool lists of servers that run with user credentials may differ per user and must never be
\* shown to another user": so long as the configuration has not changed, what toolsFor finds
\* for a session was not taken with the credentials of another subject.
ListingsNotShared ==
    hash = 1 => \A u \in Clients, t \in RTypes :
                    client[u] = "open" /\ Cached(u, t).cred => Cached(u, t).of = u

\* "CallHook receives every tool call for audit and metrics": the hook runs for calls that
\* authorize refuses as well.
EveryCallAudited == \A c \in RCalls : rcall[c].pc # "panic"
=============================================================================
