------------------------------- MODULE Config --------------------------------
(***************************************************************************)
(* config/: the file juggernaut.yaml as the gateway and the controller     *)
(* load it (Parse: ApplyDefaults, then Validate) and watch it (Store).     *)
(*                                                                         *)
(* A document has the fields that the rules of Validate, or the defaults   *)
(* of ApplyDefaults, relate to one another.  Numbers, durations, names and *)
(* paths that have a default and no rule are one field, limits.  A section *)
(* or a value that is there or not is a Boolean; "" is a value left out.   *)
(* Checks of a single field (the version, the syntax of a host name, the   *)
(* largest coldStartBudget) are the schema's here, as a file that fails    *)
(* them is refused in the same way.                                        *)
(* There is one server; modules with several are ConfigSync and Reaper.    *)
(***************************************************************************)
EXTENDS Naturals, FiniteSets

CONSTANT MaxEdits   \* bound: edits of the file

ASSUME ConfigAssumption == MaxEdits \in Nat

VARIABLES
    file,       \* the document in the file
    edits,      \* edits so far
    live        \* Store.cur

configVars == <<file, edits, live>>

\* The fields of each section, and the values the schema allows: sections and switches that are
\* there or not, and choices.
IdentityDoc == [
    flags |-> {"introspection", "issuer", "tokens", "keycloakAdmin", "clientSecret"},
    choices |-> [idType |-> {"", "bearer_jwt", "bearer_introspect", "none", "static"},
                 broker |-> {"", "none", "exchange", "refresh-token"}]]

GatewayDoc == [
    flags |-> {"adminGuard", "redis"},
    choices |-> [data |-> {"", "loopback:1", "loopback:2", "any:1"},
                 admin |-> {"", "loopback:1", "loopback:2", "any:1"}, runtime |-> {"", "kube", "local"},
                 routing |-> {"", "redis", "memory"}, store |-> {"", "redis", "memory"},
                 limits |-> {"", "given"}]]

NetworkDoc == [
    flags |-> {"proxy", "allowInsecure", "mtls"},
    choices |-> [enforcer |-> {"", "cilium", "proxy", "none"}, podAuth |-> {"", "shared-secret", "mtls"}]]

ServerDoc == [
    flags |-> {"http", "tokenEnv", "staticRef", "audience", "egress", "digest"},
    choices |-> [transport |-> {"stdio", "http"}, command |-> {"", "absolute", "relative"},
                 tokenMode |-> {"none", "static", "env", "file", "header"},
                 secretItem |-> {"none", "env", "header", "nowhere"}, sources |-> {"", "given"},
                 ports |-> {"", "given"}, groups |-> {"known", "unknown"}]]

Sections == {IdentityDoc, GatewayDoc, NetworkDoc, ServerDoc}

\* Files that are accepted: on a cluster, with one stdio server; and for development.
Base == [
    idType |-> "", introspection |-> FALSE, issuer |-> TRUE, tokens |-> FALSE, keycloakAdmin |-> TRUE,
    broker |-> "exchange", clientSecret |-> TRUE, data |-> "", admin |-> "", adminGuard |-> FALSE,
    runtime |-> "", redis |-> TRUE, routing |-> "", store |-> "", enforcer |-> "", proxy |-> FALSE,
    allowInsecure |-> FALSE, podAuth |-> "", mtls |-> FALSE, transport |-> "stdio", command |-> "absolute",
    http |-> FALSE, tokenMode |-> "env", tokenEnv |-> TRUE, staticRef |-> FALSE, audience |-> TRUE,
    secretItem |-> "none", sources |-> "", egress |-> TRUE, ports |-> "", digest |-> TRUE,
    groups |-> "known", limits |-> ""]

LocalBase ==
    [Base EXCEPT !.idType = "none", !.keycloakAdmin = FALSE, !.broker = "", !.data = "loopback:1",
                 !.runtime = "local", !.redis = FALSE, !.enforcer = "none", !.allowInsecure = TRUE,
                 !.tokenMode = "none", !.transport = "http"]

-----------------------------------------------------------------------------
(***************************************************************************)
(* ApplyDefaults.                                                          *)
(***************************************************************************)

Or(v, default) == IF v = "" THEN default ELSE v

DefaultIdentity(c) ==
    [c EXCEPT !.idType = Or(@, IF c.introspection THEN "bearer_introspect" ELSE "bearer_jwt"),
              !.broker = Or(@, "none")]

DefaultGateway(c) ==
    LET routing == Or(c.routing, IF c.redis THEN "redis" ELSE "memory") IN
    [c EXCEPT !.data = Or(@, "any:1"), !.admin = Or(@, "loopback:2"), !.runtime = Or(@, "kube"),
              !.routing = routing, !.store = Or(@, routing), !.limits = Or(@, "default")]

DefaultNetwork(c) ==
    [c EXCEPT !.enforcer = Or(@, "cilium"), !.podAuth = Or(@, "shared-secret"),
              !.mtls = @ \/ c.podAuth = "mtls"]

DefaultServer(c) ==
    [c EXCEPT !.http = @ \/ c.transport # "stdio",
              !.ports = IF c.egress THEN Or(@, "443") ELSE @,
              !.sources = IF c.secretItem # "none" THEN Or(@, "header,store,sealed") ELSE @]

ApplyDefaults(c) == DefaultServer(DefaultNetwork(DefaultGateway(DefaultIdentity(c))))

-----------------------------------------------------------------------------
(***************************************************************************)
(* Validate: the set of what is wrong.                                     *)
(***************************************************************************)

isLoopback(addr) == addr \in {"loopback:1", "loopback:2"}

\* Mutant: a token in a header is forgotten.
PerUserChild(mode) == mode \in {"env", "file"}

\* The modes that deliver a token of the user.
PerUser(mode) == mode \in {"env", "file", "header"}

\* Identities that authenticate nobody, or with tokens of the file.
Dev(c) == c.idType \in {"none", "static"}

ServerErrors(c) ==
    {e \in {"digest", "command", "path", "env", "header", "static", "audience", "broker", "item",
            "itemHeader", "egress", "toolGroups"} :
        CASE e = "digest" -> ~c.digest
          [] e = "command" -> c.transport = "stdio" /\ c.command = ""
          [] e = "path" -> c.command = "relative"
          [] e = "env" -> c.tokenMode = "env" /\ ~c.tokenEnv
          [] e = "header" -> c.tokenMode = "header" /\ c.transport = "stdio"
          [] e = "static" -> c.tokenMode = "static" /\ ~c.staticRef
          [] e = "audience" -> PerUser(c.tokenMode) /\ c.broker = "exchange" /\ ~c.audience
          [] e = "broker" -> PerUser(c.tokenMode) /\ c.broker = "none"
          [] e = "item" -> c.secretItem = "nowhere"
          [] e = "itemHeader" -> c.secretItem = "header" /\ c.transport = "stdio"
          [] e = "egress" -> ~c.egress /\ c.enforcer # "none"
          [] e = "toolGroups" -> c.groups = "unknown"}

GlobalErrors(c) ==
    {e \in {"sameListener", "adminOpen", "memoryRouting", "noRedis", "noEnforcer", "proxy", "issuer",
            "devBroker", "tokens", "devAdmin", "mtls", "devOpen", "memoryStore", "clientSecret"} :
        CASE e = "sameListener" -> c.data = c.admin
          [] e = "adminOpen" -> ~isLoopback(c.admin) /\ ~c.adminGuard
          [] e = "memoryRouting" -> c.runtime = "kube" /\ c.routing = "memory"
          [] e = "noRedis" -> c.routing = "redis" /\ ~c.redis
          [] e = "noEnforcer" -> c.enforcer = "none" /\ ~c.allowInsecure
          [] e = "proxy" -> c.enforcer = "proxy" /\ ~c.proxy
          [] e = "issuer" -> ~Dev(c) /\ ~c.issuer
          [] e = "devBroker" -> Dev(c) /\ c.broker \in {"exchange", "refresh-token"}
          [] e = "tokens" -> c.idType = "static" /\ ~c.tokens
          [] e = "devAdmin" -> Dev(c) /\ c.keycloakAdmin
          [] e = "mtls" -> c.podAuth = "mtls" /\ c.runtime # "kube"
          [] e = "devOpen" -> Dev(c) /\ ~isLoopback(c.data) /\ ~c.allowInsecure
          [] e = "memoryStore" -> c.store = "memory" /\ c.runtime = "kube"
          [] e = "clientSecret" -> c.broker = "exchange" /\ ~c.clientSecret}

Validate(c) == GlobalErrors(c) \cup ServerErrors(c)

\* Parse, of what the schema lets through.
Accepted(doc) == Validate(ApplyDefaults(doc)) = {}

-----------------------------------------------------------------------------

\* NewStore: the process starts with a file it accepts.
ConfigInit ==
    /\ file \in {Base, LocalBase} /\ edits = 0
    /\ live = ApplyDefaults(file)

\* The operator changes a value.
EditFile(f, v) ==
    /\ edits < MaxEdits /\ file[f] # v
    /\ file' = [file EXCEPT ![f] = v]
    /\ edits' = edits + 1
    /\ UNCHANGED live

\* reload, on an event of the directory or of the ticker: "a rejected reload never replaces a
\* live config".
reload ==
    /\ live' = IF Accepted(file) THEN ApplyDefaults(file) ELSE live
    /\ UNCHANGED <<file, edits>>

ConfigNext ==
    \/ \E s \in Sections :
         \/ \E f \in s.flags : EditFile(f, ~file[f])
         \/ \E f \in DOMAIN s.choices : \E v \in s.choices[f] : EditFile(f, v)
    \/ reload

ConfigSpec == ConfigInit /\ [][ConfigNext]_configVars

-----------------------------------------------------------------------------

ConfigTypeOK ==
    /\ \A s \in Sections :
         /\ \A f \in s.flags : file[f] \in BOOLEAN /\ live[f] \in BOOLEAN
         /\ \A f \in DOMAIN s.choices :
              /\ file[f] \in s.choices[f]
              /\ f \in {"idType", "broker", "data", "admin", "runtime", "routing", "store", "enforcer", "podAuth"} =>
                   live[f] \in s.choices[f] \ {""}
    /\ edits \in 0 .. MaxEdits

\* What the parts of a gateway or controller that is built from a configuration
\* rely on.  No default depends on a value another one gave, so that defaults
\* applied again change nothing.  No rule of Validate says one of the others by itself:
\* pods on a cluster are shared by the replicas through redis; a user's token that a server is
\* given comes from a broker of the identity provider, for a caller who was authenticated; what is
\* delivered in headers has a server that reads headers; and without authentication, or without
\* protection of the administration, a listener is on the loopback interface or was declared
\* insecure.
Coherent(c) ==
    /\ ApplyDefaults(c) = c
    /\ c.runtime = "kube" => c.routing = "redis" /\ c.store = "redis" /\ c.redis
    /\ c.tokenMode \in {"env", "file", "header"} =>
         /\ c.idType \in {"bearer_jwt", "bearer_introspect"} /\ c.issuer
         /\ c.broker = "refresh-token" \/ (c.broker = "exchange" /\ c.clientSecret /\ c.audience)
    /\ c.tokenMode = "header" \/ c.secretItem = "header" => c.http /\ c.transport = "http"
    /\ c.podAuth = "mtls" => c.redis /\ c.mtls
    /\ ~isLoopback(c.data) /\ c.idType \in {"none", "static"} => c.allowInsecure /\ ~c.keycloakAdmin
    /\ c.keycloakAdmin => c.issuer /\ (isLoopback(c.admin) \/ c.adminGuard) /\ c.admin # c.data

\* The configuration a gateway or controller runs with is such a one at all times, whatever the
\* edits and reloads.
LiveConfigCoherent == Coherent(live)
=============================================================================
