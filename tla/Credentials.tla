---------------------------- MODULE Credentials ----------------------------
(***************************************************************************)
(* What the gateway does with the token of a caller, in time: the JWT is   *)
(* verified and the identity provider asked whether it is still active,    *)
(* at most once per Interval (adapters/identity/bearer_introspect), and a  *)
(* token for the server type is exchanged for it and cached                *)
(* (adapters/broker/exchange).  The identity provider is asked outside the *)
(* locks, so answers come late and out of order.                           *)
(*                                                                         *)
(* Time is counted in steps of the timeout of the query; a token is one    *)
(* value of Bearers, whose hash is the value itself.                       *)
(***************************************************************************)
EXTENDS Naturals

CONSTANTS
    Bearers,      \* tokens the identity provider issued
    Audiences,    \* server types whose token mode is env, file or header
    Calls,        \* requests of the callers
    Interval,     \* identity.introspection.interval
    QueryTimeout, \* the 5 s of the HTTP client that asks
    MinRemaining, \* the 60 s an exchanged token must still be good for
    CacheTTL,     \* what the identity provider says a fresh token is good for
    MaxClock

ASSUME CredentialsAssumption ==
    /\ {Interval, QueryTimeout, MinRemaining, CacheTTL, MaxClock} \subseteq Nat
    /\ Interval > 0 \* 60 s when left 0
    /\ MaxClock >= 2
    /\ "none" \notin Bearers

VARIABLES
    clock,
    expires, \* bearer -> the exp claim
    revoked, \* bearer -> when the identity provider revoked it, or MaxClock + 1
    identity, \* identity.type, with fail_open
    broker,   \* identity.broker.mode
    seen,    \* bearer -> the last answer
    tokens,  \* the broker's cache: <<bearer, audience>> -> token
    query    \* request -> where it is

credVars == <<clock, expires, revoked, identity, broker, seen, tokens, query>>

Times == 0 .. MaxClock
Never == MaxClock + 1

NoAnswer == [at |-> Never, active |-> FALSE]
Answers == [at : Times, active : BOOLEAN] \cup {NoAnswer}

NoToken == [expiry |-> 0, of |-> "none", for |-> "none"]
\* An exchanged token: the cache's Expiry; whose it is and what for.
Tokens == [expiry : Times \cup {Never}, of : Bearers, for : Audiences] \cup {NoToken}

Identities == {"bearer_jwt", "introspect", "fail_open"}
Brokers == {"none", "exchange"}

Idle == [at |-> "idle"]

-----------------------------------------------------------------------------
(***************************************************************************)
(* bearer_introspect.                                                      *)
(***************************************************************************)

\* bearer_jwt.Verify, of a token with a good signature: oidc refuses it after exp.
Verify(b) == clock <= expires[b]

\* "at most once per interval per token".
Fresh(b) == seen[b] # NoAnswer /\ clock - seen[b].at < Interval

Move(q, r) == query' = [query EXCEPT ![q] = r]

Admitted(q, b, a) == Move(q, [at |-> "admitted", bearer |-> b, for |-> a, when |-> clock])

\* Resolve of a request for server type a, with bearer b: answered from seen, or the query starts.
ResolveIdentity(q, b, a) ==
    /\ query[q] = Idle /\ Verify(b)
    /\ \/ identity = "bearer_jwt" /\ Admitted(q, b, a)
       \/ identity # "bearer_jwt" /\ Fresh(b) /\ seen[b].active /\ Admitted(q, b, a)
       \/ identity # "bearer_jwt" /\ ~Fresh(b) /\ Move(q, [at |-> "asking", bearer |-> b, for |-> a, since |-> clock])
    /\ UNCHANGED <<clock, expires, revoked, identity, broker, seen, tokens>>

\* The identity provider answers; the answer is on its way.
Answer(q) ==
    /\ query[q].at = "asking"
    /\ Move(q, [at |-> "answered", bearer |-> query[q].bearer, for |-> query[q].for, since |-> query[q].since,
                active |-> clock < revoked[query[q].bearer]])
    /\ UNCHANGED <<clock, expires, revoked, identity, broker, seen, tokens>>

\* The answer is stored under the lock, with the time it arrived, over what another request
\* stored meanwhile, and decides about this request.
Store(q) ==
    LET r == query[q] IN
    /\ r.at = "answered"
    /\ seen' = [seen EXCEPT ![r.bearer] = [at |-> clock, active |-> r.active]]
    /\ IF r.active THEN Admitted(q, r.bearer, r.for) ELSE Move(q, Idle)
    /\ UNCHANGED <<clock, expires, revoked, identity, broker, tokens>>

\* No answer within the timeout, or none that can be read: fail_open decides.
QueryFails(q) ==
    /\ query[q].at \in {"asking", "answered"}
    /\ IF identity = "fail_open" THEN Admitted(q, query[q].bearer, query[q].for) ELSE Move(q, Idle)
    /\ UNCHANGED <<clock, expires, revoked, identity, broker, seen, tokens>>

-----------------------------------------------------------------------------
(***************************************************************************)
(* exchange, called by injectUserToken.                                    *)
(***************************************************************************)

\* Mutant: one token per server type.
KeyByServer(b, a) == <<CHOOSE c \in Bearers : TRUE, a>>

Key(b, a) == <<b, a>>

\* TokenFor: a token of the cache that is good for MinRemaining more; the request ends with it.
\* (MinRemaining is strict: time.Until(t.Expiry) > minRemaining.)
Hit(b, a) == LET t == tokens[Key(b, a)] IN t # NoToken /\ t.expiry > clock + MinRemaining

Given(q, t) == Move(q, [at |-> "given", bearer |-> query[q].bearer, for |-> query[q].for, token |-> t])

TokenForCached(q) ==
    LET r == query[q] IN
    /\ r.at = "admitted" /\ broker = "exchange" /\ Hit(r.bearer, r.for)
    /\ Given(q, tokens[Key(r.bearer, r.for)])
    /\ UNCHANGED <<clock, expires, revoked, identity, broker, seen, tokens>>

\* What the identity provider mints, with the expiry TokenFor caps: "never outlive the token it
\* was minted from".
Minted(b, a) ==
    [expiry |-> IF clock + CacheTTL > expires[b] THEN expires[b] ELSE clock + CacheTTL,
     of |-> b, for |-> a]

\* exchange: the identity provider mints for a token that is active and has not expired, ...
Exchange(q) ==
    LET r == query[q] IN
    /\ r.at = "admitted" /\ broker = "exchange" /\ ~Hit(r.bearer, r.for)
    /\ \/ /\ clock < revoked[r.bearer] /\ Verify(r.bearer)
          /\ Move(q, [at |-> "minted", bearer |-> r.bearer, for |-> r.for, token |-> Minted(r.bearer, r.for)])
       \/ Move(q, Idle) \* ... or refuses, or cannot be reached
    /\ UNCHANGED <<clock, expires, revoked, identity, broker, seen, tokens>>

\* TokenFor stores what it got, whatever happened since.
StoreToken(q) ==
    LET r == query[q] IN
    /\ r.at = "minted"
    /\ tokens' = [tokens EXCEPT ![Key(r.bearer, r.for)] = r.token]
    /\ Given(q, r.token)
    /\ UNCHANGED <<clock, expires, revoked, identity, broker, seen>>

\* The request is forwarded, with a token if the broker gave one, and ends.
Done(q) ==
    /\ \/ query[q].at = "given"
       \/ query[q].at = "admitted" /\ broker = "none"
    /\ Move(q, Idle)
    /\ UNCHANGED <<clock, expires, revoked, identity, broker, seen, tokens>>

\* Revoke, at the end of ReleaseAll, whoever's sessions were released: every token goes.
BrokerRevoke ==
    /\ broker = "exchange"
    /\ tokens' = [k \in Bearers \X Audiences |-> NoToken]
    /\ UNCHANGED <<clock, expires, revoked, identity, broker, seen, query>>

-----------------------------------------------------------------------------

\* The identity provider revokes a token (a logout, a disabled user).  Without introspection
\* only an exchange could notice, which may be refused anyway.
RevokeBearer(b) ==
    /\ identity # "bearer_jwt" /\ revoked[b] = Never
    /\ revoked' = [revoked EXCEPT ![b] = clock]
    /\ UNCHANGED <<clock, expires, identity, broker, seen, tokens, query>>

\* Time passes; the HTTP client gives a query up after QueryTimeout.
Tick ==
    /\ clock < MaxClock
    /\ \A q \in Calls : query[q].at \in {"asking", "answered"} => clock < query[q].since + QueryTimeout
    /\ clock' = clock + 1
    /\ UNCHANGED <<expires, revoked, identity, broker, seen, tokens, query>>

CredInit ==
    /\ clock = 0 /\ expires \in [Bearers -> {MaxClock - 2, MaxClock}]
    /\ revoked = [b \in Bearers |-> Never] /\ identity \in Identities /\ broker \in Brokers
    /\ seen = [b \in Bearers |-> NoAnswer]
    /\ tokens = [k \in Bearers \X Audiences |-> NoToken]
    /\ query = [q \in Calls |-> Idle]

CredNext ==
    \/ \E q \in Calls, b \in Bearers, a \in Audiences : ResolveIdentity(q, b, a)
    \/ \E q \in Calls :
         \/ Answer(q) \/ Store(q) \/ QueryFails(q)
         \/ TokenForCached(q) \/ Exchange(q) \/ StoreToken(q) \/ Done(q)
    \/ BrokerRevoke
    \/ \E b \in Bearers : RevokeBearer(b)
    \/ Tick

CredSpec == CredInit /\ [][CredNext]_credVars

-----------------------------------------------------------------------------

CredTypeOK ==
    /\ clock \in Times /\ identity \in Identities /\ broker \in Brokers
    /\ expires \in [Bearers -> Times] /\ revoked \in [Bearers -> Times \cup {Never}]
    /\ seen \in [Bearers -> Answers] /\ tokens \in [Bearers \X Audiences -> Tokens]
    /\ \A q \in Calls :
         /\ query[q].at \in {"idle", "asking", "answered", "admitted", "minted", "given"}
         /\ query[q].at \in {"minted", "given"} => query[q].token \in Tokens \ {NoToken}

\* What a caller is let in with, and what is passed on.  "Revocation is detected before expiry":
\* no request is admitted Interval plus the timeout of one query after its token was revoked, in
\* whatever order answers arrive, unless the adapter fails open.  The token a request is given was
\* minted for its own caller and server type, and does not outlive the caller's.
AdmittedAsCaller ==
    \A q \in Calls :
        LET r == query[q] IN
        /\ r.at = "admitted" /\ identity = "introspect" =>
             r.when < revoked[r.bearer] + Interval + QueryTimeout
        /\ r.at = "given" =>
             r.token.of = r.bearer /\ r.token.for = r.for /\ r.token.expiry <= expires[r.bearer]
=============================================================================
