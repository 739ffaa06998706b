------------------------------ MODULE HttpMode -------------------------------
(***************************************************************************)
(* wrapper/httpmode.go: an MCP server of the pod that speaks HTTP itself.  *)
(* The wrapper starts it on the first request, waits under httpMode.mu for *)
(* its port to open, and reverse proxies every request to it.  Run of      *)
(* wrapper/server.go stops it when the wrapper is told to end.             *)
(*                                                                         *)
(* What the server finds in a request goes through mcpproxy.Forward in the *)
(* gateway and the Director of the wrapper.  Headers are a function from   *)
(* the names that are present to who put the value there.                  *)
(***************************************************************************)
EXTENDS Naturals, FiniteSets

CONSTANTS
    HttpCalls,      \* requests the wrapper serves
    MaxProcs        \* bound: processes started in a behaviour

ASSUME HttpAssumption == MaxProcs \in Nat /\ IsFiniteSet(HttpCalls) /\ "free" \notin HttpCalls

VARIABLES
    hcfg,       \* token.mode, token.header, and the header of the declared user secret
    lock,       \* the request that holds httpMode.mu, or "free"
    cmd,        \* httpMode.cmd: number of the process, 0 for nil
    procs,      \* procs[p]: state of the p-th process
    hreq,       \* hreq[c]: step of the request
    run,        \* how far Server.Run is
    drained     \* the shutdown of the data listener ended with no request open

httpVars == <<hcfg, lock, cmd, procs, hreq, run, drained>>

Procs == 1 .. MaxProcs

\* A header delivery is possible for HTTP transports only; "" when the secret has none.
HttpConfigs == [mode : {"header", "env", "static", "none"}, header : {"authorization", "custom"},
                item : {"authorization", "custom", ""}]

HttpTypeOK ==
    /\ hcfg \in HttpConfigs
    /\ lock \in HttpCalls \cup {"free"}
    /\ cmd \in Procs \cup {0}
    /\ procs \in [Procs -> {"none", "booting", "open", "dead"}]
    /\ hreq \in [HttpCalls -> {"idle", "enter", "poll", "proxy"}]
    /\ run \in {"up", "draining", "stopping", "stopped", "exited"}
    /\ drained \in BOOLEAN
    /\ \A c \in HttpCalls : lock = c <=> hreq[c] = "poll"
    /\ cmd # 0 => procs[cmd] # "none"

HttpInit ==
    /\ hcfg \in HttpConfigs
    /\ lock = "free" /\ cmd = 0
    /\ procs = [p \in Procs |-> "none"]
    /\ hreq = [c \in HttpCalls |-> "idle"]
    /\ run = "up" /\ drained = FALSE

Alive == {p \in Procs : procs[p] \in {"booting", "open"}}
PortOpen == \E p \in Procs : procs[p] = "open"

-----------------------------------------------------------------------------
(***************************************************************************)
(* Headers.                                                                *)
(***************************************************************************)

\* Headers named x-juggernaut-*, and the other names that matter.
Internal == {"podToken", "subject", "serverType", "secret", "sealed"}
ClientNames == {"authorization", "cookie", "custom", "podToken", "secret", "sealed", "sessionId"}

Without(h, S) == [n \in DOMAIN h \ S |-> h[n]]
\* The headers of g and those of h, of which g's win.
Over(g, h) == [n \in DOMAIN g \cup DOMAIN h |-> IF n \in DOMAIN g THEN g[n] ELSE h[n]]
Set(n, v, h) == Over([x \in {n} |-> v], h)

\* The header the gateway puts a token in: injectUserToken.
TokenHeader == IF hcfg.mode = "env" THEN "authorization" ELSE hcfg.header

\* Forward: tok, sec, sealed, sid say whether there is a downstream token, a resolved secret,
\* a sealed blob, an upstream session.
ForwardHeaders(h, tok, sec, sealed, sid) ==
    LET clean == Without(h, {"authorization", "cookie", "sessionId"} \cup Internal)
        pod == [n \in {"podToken", "subject", "serverType"} |-> "gateway"]
        session == [n \in IF sid THEN {"sessionId"} ELSE {} |-> "gateway"]
        extra == [n \in (IF sec THEN {"secret"} ELSE {}) \cup (IF sealed THEN {"sealed"} ELSE {})
                        |-> "user"]
        all == Over(extra, Over(session, Over(pod, clean)))
    IN IF tok /\ hcfg.mode # "none" THEN Set(TokenHeader, "broker", all) ELSE all

\* Mutant: the token is looked up after the secrets are in place.
DirectorTokenLate(h) ==
    LET named == Without(h, {"podToken", "subject"})
        given == IF "secret" \in DOMAIN h /\ hcfg.item # "" THEN Set(hcfg.item, h["secret"], named)
                 ELSE named
        clean == Without(given, Internal)
    IN IF hcfg.mode = "header" /\ "authorization" \in DOMAIN clean /\ hcfg.header # "authorization"
       THEN Set(hcfg.header, clean["authorization"], Without(clean, {"authorization"}))
       ELSE clean

\* The Director: secrets move to the header the server wants, and the wrapper's own go.
Director(h) ==
    LET named == Without(h, {"podToken", "subject"})
        given == IF "secret" \in DOMAIN h /\ hcfg.item # "" THEN Set(hcfg.item, h["secret"], named)
                 ELSE named
        clean == Without(given, Internal)
    IN IF hcfg.mode = "header" /\ "authorization" \in DOMAIN h /\ hcfg.header # "authorization"
       THEN Set(hcfg.header, h["authorization"], Without(clean, {"authorization"}))
       ELSE clean

-----------------------------------------------------------------------------
(***************************************************************************)
(* Requests.  requirePodToken has let the request in: one from elsewhere   *)
(* is refused and changes nothing.                                         *)
(***************************************************************************)

HttpGo(c, pc) == hreq' = [hreq EXCEPT ![c] = pc]

\* The listener no longer accepts once Shutdown is called.
Arrive(c) ==
    /\ run = "up" /\ hreq[c] = "idle"
    /\ HttpGo(c, "enter")
    /\ UNCHANGED <<hcfg, lock, cmd, procs, run, drained>>

\* ensureStarted, by the first request that gets the lock: the process is started, or not.
EnsureStarted(c) ==
    /\ run # "exited" /\ lock = "free" /\ hreq[c] = "enter"
    /\ IF cmd # 0 THEN HttpGo(c, "proxy") /\ UNCHANGED <<lock, cmd, procs>>
       ELSE \/ HttpGo(c, "idle") /\ UNCHANGED <<lock, cmd, procs>>
            \/ \E p \in Procs :
                 /\ procs[p] = "none" /\ \A x \in 1 .. p - 1 : procs[x] # "none"
                 /\ procs' = [procs EXCEPT ![p] = "booting"]
                 /\ cmd' = p /\ lock' = c
                 /\ HttpGo(c, "poll")
    /\ UNCHANGED <<hcfg, run, drained>>

\* The loop that asks the port: it answers, or the startup timeout passes.
PollOpen(c) ==
    /\ run # "exited" /\ hreq[c] = "poll" /\ PortOpen
    /\ lock' = "free" /\ HttpGo(c, "proxy")
    /\ UNCHANGED <<hcfg, cmd, procs, run, drained>>

\* Mutant: a start that timed out is forgotten.
PollTimeoutForgets(c) ==
    /\ run # "exited" /\ hreq[c] = "poll"
    /\ lock' = "free" /\ cmd' = 0 /\ HttpGo(c, "idle")
    /\ UNCHANGED <<hcfg, procs, run, drained>>

\* Mutant: the deadline counts from the last attempt.
PollTimeoutNever(c) ==
    /\ run # "exited" /\ hreq[c] = "poll" /\ PortOpen
    /\ lock' = "free" /\ HttpGo(c, "idle")
    /\ UNCHANGED <<hcfg, cmd, procs, run, drained>>

PollTimeout(c) ==
    /\ run # "exited" /\ hreq[c] = "poll"
    /\ lock' = "free" /\ HttpGo(c, "idle")
    /\ UNCHANGED <<hcfg, cmd, procs, run, drained>>

\* The reverse proxy answers for the server, or with a bad gateway without one.
ServeHTTP(c) ==
    /\ run # "exited" /\ hreq[c] = "proxy"
    /\ HttpGo(c, "idle")
    /\ UNCHANGED <<hcfg, lock, cmd, procs, run, drained>>

-----------------------------------------------------------------------------

\* The server's process.  External.
ProcOpens(p) ==
    /\ procs[p] = "booting"
    /\ procs' = [procs EXCEPT ![p] = "open"]
    /\ UNCHANGED <<hcfg, lock, cmd, hreq, run, drained>>

ProcDies(p) ==
    /\ p \in Alive
    /\ procs' = [procs EXCEPT ![p] = "dead"]
    /\ UNCHANGED <<hcfg, lock, cmd, hreq, run, drained>>

\* Run: the context ends.
Signal ==
    /\ run = "up" /\ run' = "draining"
    /\ UNCHANGED <<hcfg, lock, cmd, procs, hreq, drained>>

\* Shutdown returns when no request is open, or after 25 seconds.
Shutdown ==
    /\ run = "draining" /\ run' = "stopping"
    /\ drained' = \A c \in HttpCalls : hreq[c] = "idle"
    /\ UNCHANGED <<hcfg, lock, cmd, procs, hreq>>

\* stop, which needs the lock.
StopServer ==
    /\ run = "stopping" /\ lock = "free"
    /\ run' = "stopped" /\ cmd' = 0
    /\ procs' = IF cmd # 0 THEN [procs EXCEPT ![cmd] = "dead"] ELSE procs
    /\ UNCHANGED <<hcfg, lock, hreq, drained>>

\* The wrapper's process ends, and its requests with it.
WrapperExits ==
    /\ run = "stopped" /\ run' = "exited"
    /\ lock' = "free" /\ hreq' = [c \in HttpCalls |-> "idle"]
    /\ UNCHANGED <<hcfg, cmd, procs, drained>>

HttpStep(c) == EnsureStarted(c) \/ PollOpen(c) \/ PollTimeout(c) \/ ServeHTTP(c)

HttpNext ==
    \/ \E c \in HttpCalls : Arrive(c) \/ HttpStep(c)
    \/ \E p \in Procs : ProcOpens(p) \/ ProcDies(p)
    \/ Signal \/ Shutdown \/ StopServer \/ WrapperExits

HttpSpec == HttpInit /\ [][HttpNext]_httpVars

\* The wait for the port has a deadline, and a sync.Mutex starves no goroutine.
HttpFairness ==
    \A c \in HttpCalls :
        WF_httpVars(PollOpen(c) \/ PollTimeout(c)) /\ SF_httpVars(EnsureStarted(c))

-----------------------------------------------------------------------------

\* ensureStarted "launches the HTTP server process once": no two server processes of the pod
\* are alive at a time, whichever requests race for the start, give up on it, or come late; and
\* none outlives a wrapper whose requests had all ended when it was stopped.  (A request that is
\* open after the 25 seconds of grace may start the server again.)
OneServer ==
    /\ Cardinality(Alive) <= 1
    /\ run \in {"stopped", "exited"} /\ drained => Alive = {}

\* What a request carries to the server, whatever its client sent: nothing that is the
\* wrapper's, never the client's own bearer token or cookies, the downstream token in the
\* header it is configured for, and the user's secret in its own, which wins when the two
\* are the same.
ServerSeesItsHeaders ==
    (\E c \in HttpCalls : hreq[c] = "proxy") =>
        \A S \in SUBSET ClientNames, tok, sec, sealed, sid \in BOOLEAN :
            LET h == Director(ForwardHeaders([n \in S |-> "client"], tok, sec, sealed, sid))
                secret == sec /\ hcfg.item # ""
                token == tok /\ hcfg.mode # "none"
            IN /\ DOMAIN h \cap (Internal \cup {"cookie"}) = {}
               /\ "authorization" \in DOMAIN h => h["authorization"] # "client"
               /\ "sessionId" \in DOMAIN h => sid /\ h["sessionId"] = "gateway"
               /\ secret => hcfg.item \in DOMAIN h /\ h[hcfg.item] = "user"
               /\ token /\ (secret => hcfg.item # TokenHeader) =>
                     TokenHeader \in DOMAIN h /\ h[TokenHeader] = "broker"

\* No request waits for the server forever, even when the server never opens its port: the
\* lock under which the first request waits is given back.
StartSettles == \A c \in HttpCalls : []<>(hreq[c] \notin {"enter", "poll"})
=============================================================================
