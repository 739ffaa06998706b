---------------------------- MODULE CallerProofs ----------------------------
(***************************************************************************)
(* Who a request is served as, and with which secrets: the identity adapter,*)
(* the token broker and the secrets a caller's wrapper is given, for any   *)
(* callers, audiences, requests and secrets.                               *)
(***************************************************************************)
EXTENDS Credentials, UserSecrets, TLAPS

-----------------------------------------------------------------------------
(***************************************************************************)
(* Credentials.  The invariant dates what is cached: an active answer was  *)
(* asked for before the token was revoked and came within the timeout of   *)
(* the query, and is good for Interval from then on.                       *)
(***************************************************************************)

Queries ==
    {Idle} \cup [at : {"asking"}, bearer : Bearers, for : Audiences, since : Times]
           \cup [at : {"answered"}, bearer : Bearers, for : Audiences, since : Times, active : BOOLEAN]
           \cup [at : {"admitted"}, bearer : Bearers, for : Audiences, when : Times]
           \cup [at : {"minted", "given"}, bearer : Bearers, for : Audiences, token : Tokens \ {NoToken}]

\* Token t was minted for b and a, and does not outlive b.
OwnToken(t, b, a) == t.of = b /\ t.for = a /\ t.expiry <= expires[b]

TokensInv ==
    \A b \in Bearers, a \in Audiences : tokens[<<b, a>>] # NoToken => OwnToken(tokens[<<b, a>>], b, a)

AnswersInv ==
    \A b \in Bearers : seen[b].active => seen[b].at <= clock /\ seen[b].at <= revoked[b] + QueryTimeout

\* How far a request is with its bearer.
QueryAt(r) ==
    /\ r.at \in {"asking", "answered"} => r.since <= clock /\ clock <= r.since + QueryTimeout
    /\ r.at = "answered" /\ r.active => r.since <= revoked[r.bearer]
    /\ r.at = "admitted" => r.when <= clock
    /\ r.at = "admitted" /\ identity = "introspect" =>
         r.when < revoked[r.bearer] + Interval + QueryTimeout
    /\ r.at \in {"minted", "given"} => OwnToken(r.token, r.bearer, r.for)

CredIInv ==
    /\ CredTypeOK /\ query \in [Calls -> Queries]
    /\ TokensInv /\ AnswersInv
    /\ \A q \in Calls : QueryAt(query[q])

USE CredentialsAssumption

\* The pointwise facts of the types.
LEMMA CredTypes ==
    ASSUME CredIInv
    PROVE  /\ clock \in Nat /\ clock <= MaxClock /\ Interval \in Nat /\ QueryTimeout \in Nat
           /\ MaxClock \in Nat /\ CacheTTL \in Nat /\ MinRemaining \in Nat
           /\ \A b \in Bearers : /\ revoked[b] \in Nat /\ expires[b] \in Nat /\ expires[b] <= MaxClock
                                 /\ seen[b].at \in Nat /\ seen[b].active \in BOOLEAN
           /\ \A q \in Calls : query[q] \in Queries
           /\ \A b \in Bearers, a \in Audiences : tokens[<<b, a>>] \in Tokens
<1>1. {Interval, QueryTimeout, MaxClock, CacheTTL, MinRemaining} \subseteq Nat
  BY Zenon
<1>2. clock \in 0 .. MaxClock
  BY Zenon DEF CredIInv, CredTypeOK, Times
<1>3. \A b \in Bearers : revoked[b] \in Nat /\ expires[b] \in Nat /\ expires[b] <= MaxClock
  <2>1. expires \in [Bearers -> 0 .. MaxClock] /\ revoked \in [Bearers -> (0 .. MaxClock) \cup {MaxClock + 1}]
    BY Zenon DEF CredIInv, CredTypeOK, Times, Never
  <2> QED
    BY <1>1, <2>1
<1>4. \A b \in Bearers : seen[b].at \in Nat /\ seen[b].active \in BOOLEAN
  <2>1. \A b \in Bearers : seen[b] \in [at : 0 .. MaxClock, active : BOOLEAN]
                                       \cup {[at |-> MaxClock + 1, active |-> FALSE]}
    BY Zenon DEF CredIInv, CredTypeOK, Answers, NoAnswer, Times, Never
  <2>2. ASSUME NEW b \in Bearers PROVE seen[b].at \in Nat /\ seen[b].active \in BOOLEAN
    <3>1. CASE seen[b] \in [at : 0 .. MaxClock, active : BOOLEAN]
      BY <1>1, <3>1
    <3>2. CASE seen[b] = [at |-> MaxClock + 1, active |-> FALSE]
      BY <1>1, <3>2
    <3> QED
      BY Zenon, <2>1, <3>1, <3>2
  <2> QED
    BY Zenon, <2>2
<1>5. /\ \A q \in Calls : query[q] \in Queries
      /\ \A b \in Bearers, a \in Audiences : tokens[<<b, a>>] \in Tokens
  BY Zenon DEF CredIInv, CredTypeOK
<1> QED
  BY <1>1, <1>2, <1>3, <1>4, <1>5

\* The fields of a query.
LEMMA QueryFields ==
    ASSUME NEW r \in Queries
    PROVE  /\ r.at \in {"idle", "asking", "answered", "admitted", "minted", "given"}
           /\ r.at # "idle" => r.bearer \in Bearers /\ r.for \in Audiences
           /\ r.at \in {"asking", "answered"} => r.since \in Times /\ r.since \in Nat
           /\ r.at = "answered" => r.active \in BOOLEAN
           /\ r.at = "admitted" => r.when \in Times /\ r.when \in Nat
           /\ r.at \in {"minted", "given"} => r.token \in Tokens \ {NoToken}
<1>1. Times \subseteq Nat
  BY DEF Times
<1>2. CASE r = Idle
  BY Zenon, <1>2 DEF Idle
<1>3. CASE r \in [at : {"asking"}, bearer : Bearers, for : Audiences, since : Times]
  BY Zenon, <1>1, <1>3
<1>4. CASE r \in [at : {"answered"}, bearer : Bearers, for : Audiences, since : Times, active : BOOLEAN]
  BY Zenon, <1>1, <1>4
<1>5. CASE r \in [at : {"admitted"}, bearer : Bearers, for : Audiences, when : Times]
  BY Zenon, <1>1, <1>5
<1>6. CASE r \in [at : {"minted", "given"}, bearer : Bearers, for : Audiences, token : Tokens \ {NoToken}]
  BY Zenon, <1>1, <1>6
<1> QED
  BY Zenon, <1>2, <1>3, <1>4, <1>5, <1>6 DEF Queries

\* A step of one request that changes no token.
LEMMA MoveInv ==
    ASSUME CredIInv, NEW q \in Calls, NEW r \in Queries, Move(q, r), QueryAt(r),
           UNCHANGED <<clock, expires, revoked, identity, broker, tokens>>,
           seen' \in [Bearers -> Answers],
           \A b \in Bearers : \/ seen'[b] = seen[b]
                              \/ seen'[b].active => /\ seen'[b].at <= clock
                                                    /\ seen'[b].at <= revoked[b] + QueryTimeout
    PROVE  CredIInv'
<1> USE DEF CredIInv
<1>1. /\ query'[q] = r /\ \A x \in Calls : x # q => query'[x] = query[x]
      /\ query' \in [Calls -> Queries]
  BY Zenon DEF Move
<1>2. CredTypeOK'
  BY Zenon, <1>1, QueryFields DEF CredTypeOK
<1>3. TokensInv' /\ AnswersInv'
  BY Zenon DEF TokensInv, AnswersInv, OwnToken
<1>4. ASSUME NEW x \in Calls PROVE QueryAt(query[x])'
  <2>1. QueryAt(query'[x])
    BY Zenon, <1>1
  <2> QED
    BY Zenon, <2>1 DEF QueryAt, OwnToken
<1> QED
  BY Zenon, <1>1, <1>2, <1>3, <1>4

\* The invariant holds initially: nothing is cached, no request has begun.
LEMMA CredInitInv == CredInit => CredIInv
<1> SUFFICES ASSUME CredInit PROVE CredIInv
  BY Zenon
<1> USE DEF CredInit
<1>1. Idle \in Queries /\ Idle.at = "idle"
  BY Zenon DEF Queries, Idle
<1>2. query \in [Calls -> Queries] /\ \A q \in Calls : query[q] = Idle
  BY Zenon, <1>1
<1>3. CredTypeOK
  BY <1>1, <1>2 DEF CredTypeOK, Times, Never, Answers, NoAnswer, Tokens
<1>4. TokensInv
  BY Zenon DEF TokensInv
<1>5. AnswersInv
  BY Zenon DEF AnswersInv, NoAnswer
<1>6. \A q \in Calls : QueryAt(query[q])
  BY Zenon, <1>1, <1>2 DEF QueryAt
<1> QED
  BY Zenon, <1>2, <1>3, <1>4, <1>5, <1>6 DEF CredIInv

\* Every step of a request, of the identity provider and of time preserves the invariant.
LEMMA CredStepInv == CredIInv /\ [CredNext]_credVars => CredIInv'
<1> SUFFICES ASSUME CredIInv, [CredNext]_credVars PROVE CredIInv'
  BY Zenon
<1> USE CredTypes
<1>t. /\ seen \in [Bearers -> Answers] /\ clock \in Times /\ tokens \in [Bearers \X Audiences -> Tokens]
      /\ \A q \in Calls : QueryAt(query[q])
  BY Zenon DEF CredIInv, CredTypeOK
<1>i. Idle \in Queries /\ QueryAt(Idle)
  BY Zenon DEF Queries, Idle, QueryAt
<1>1. ASSUME NEW q \in Calls, NEW b \in Bearers, NEW a \in Audiences, ResolveIdentity(q, b, a)
      PROVE  CredIInv'
  <2>0. \/ identity = "bearer_jwt" /\ Admitted(q, b, a)
        \/ Fresh(b) /\ seen[b].active /\ Admitted(q, b, a)
        \/ Move(q, [at |-> "asking", bearer |-> b, for |-> a, since |-> clock])
    BY Zenon, <1>1 DEF ResolveIdentity
  <2>1. CASE \/ identity = "bearer_jwt" /\ Admitted(q, b, a)
             \/ Fresh(b) /\ seen[b].active /\ Admitted(q, b, a)
    <3>1. PICK r : r = [at |-> "admitted", bearer |-> b, for |-> a, when |-> clock]
      BY Zenon
    <3>2. r \in Queries
      BY Zenon, <1>t, <3>1 DEF Queries
    <3>3. ASSUME identity = "introspect" PROVE clock < revoked[b] + Interval + QueryTimeout
      <4>1. seen[b].active /\ clock - seen[b].at < Interval
        BY Zenon, <2>1, <3>3 DEF Fresh
      <4>2. seen[b].at <= revoked[b] + QueryTimeout
        BY Zenon, <4>1 DEF CredIInv, AnswersInv
      <4> QED
        BY <4>1, <4>2
    <3>4. QueryAt(r)
      BY <3>1, <3>3 DEF QueryAt
    <3> QED
      BY Zenon, <1>1, <1>t, <2>1, <3>1, <3>2, <3>4, MoveInv DEF ResolveIdentity, Admitted
  <2>2. CASE Move(q, [at |-> "asking", bearer |-> b, for |-> a, since |-> clock])
    <3>1. PICK r : r = [at |-> "asking", bearer |-> b, for |-> a, since |-> clock]
      BY Zenon
    <3>2. r \in Queries
      BY Zenon, <1>t, <3>1 DEF Queries
    <3>3. QueryAt(r)
      BY <3>1 DEF QueryAt
    <3> QED
      BY Zenon, <1>1, <1>t, <2>2, <3>1, <3>2, <3>3, MoveInv DEF ResolveIdentity
  <2> QED
    BY Zenon, <2>0, <2>1, <2>2
<1>2. ASSUME NEW q \in Calls, Answer(q) PROVE CredIInv'
  <2>1. PICK d \in Queries : d = query[q]
    BY Zenon
  <2>2. PICK r : r = [at |-> "answered", bearer |-> d.bearer, for |-> d.for, since |-> d.since,
                      active |-> clock < revoked[d.bearer]]
    BY Zenon
  <2>3. d.at = "asking" /\ QueryAt(d) /\ Move(q, r)
    BY Zenon, <1>2, <1>t, <2>1, <2>2 DEF Answer
  <2>4. r \in Queries
    BY <2>2, <2>3, QueryFields DEF Queries
  <2>5. d.since <= clock /\ clock <= d.since + QueryTimeout /\ d.since \in Nat /\ d.bearer \in Bearers
    BY Zenon, <2>3, QueryFields DEF QueryAt
  <2>6. QueryAt(r)
    <3>1. r.at = "answered" /\ r.since = d.since /\ r.bearer = d.bearer
      BY Zenon, <2>2
    <3>2. r.active => clock < revoked[d.bearer]
      BY Zenon, <2>2
    <3>3. r.active => d.since <= revoked[d.bearer]
      BY <2>5, <3>2
    <3> QED
      BY Zenon, <2>5, <3>1, <3>3 DEF QueryAt
  <2> QED
    BY Zenon, <1>2, <1>t, <2>3, <2>4, <2>6, MoveInv DEF Answer
<1>3. ASSUME NEW q \in Calls, Store(q) PROVE CredIInv'
  <2>1. PICK d \in Queries : d = query[q]
    BY Zenon
  <2>2. PICK r : r = IF d.active THEN [at |-> "admitted", bearer |-> d.bearer, for |-> d.for, when |-> clock]
                     ELSE Idle
    BY Zenon
  <2>3. d.at = "answered" /\ QueryAt(d) /\ Move(q, r)
    BY Zenon, <1>3, <1>t, <2>1, <2>2 DEF Store, Admitted
  <2>4. d.bearer \in Bearers /\ d.for \in Audiences /\ d.active \in BOOLEAN /\ d.since \in Nat
    BY Zenon, <2>3, QueryFields
  <2>5. /\ d.since <= clock /\ clock <= d.since + QueryTimeout
        /\ d.active => d.since <= revoked[d.bearer]
    BY Zenon, <2>3 DEF QueryAt
  <2>6. d.active => clock <= revoked[d.bearer] + QueryTimeout
    BY <2>4, <2>5
  <2>7. r \in Queries
    BY Zenon, <1>t, <1>i, <2>2, <2>4 DEF Queries
  <2>8. QueryAt(r)
    <3>1. CASE d.active
      BY <2>2, <2>4, <2>6, <3>1 DEF QueryAt
    <3>2. CASE ~d.active
      BY Zenon, <1>i, <2>2, <3>2
    <3> QED
      BY Zenon, <3>1, <3>2
  <2>9. PICK s : s = [at |-> clock, active |-> d.active]
    BY Zenon
  <2>10. s \in Answers /\ s.at = clock /\ s.active = d.active
    BY Zenon, <1>t, <2>4, <2>9 DEF Answers
  <2>11. seen' = [seen EXCEPT ![d.bearer] = s] /\ UNCHANGED <<clock, expires, revoked, identity, broker, tokens>>
    BY Zenon, <1>3, <2>1, <2>9 DEF Store
  <2>12. seen' \in [Bearers -> Answers] /\ seen'[d.bearer] = s
         /\ \A b \in Bearers : b # d.bearer => seen'[b] = seen[b]
    BY Zenon, <1>t, <2>4, <2>10, <2>11
  <2>13. \A b \in Bearers : \/ seen'[b] = seen[b]
                            \/ seen'[b].active => /\ seen'[b].at <= clock
                                                  /\ seen'[b].at <= revoked[b] + QueryTimeout
    BY <2>6, <2>10, <2>12
  <2> QED
    BY Zenon, <2>3, <2>7, <2>8, <2>11, <2>12, <2>13, MoveInv
<1>4. ASSUME NEW q \in Calls, QueryFails(q) PROVE CredIInv'
  <2>1. PICK d \in Queries : d = query[q]
    BY Zenon
  <2>2. PICK r : r = IF identity = "fail_open"
                     THEN [at |-> "admitted", bearer |-> d.bearer, for |-> d.for, when |-> clock] ELSE Idle
    BY Zenon
  <2>3. d.at \in {"asking", "answered"} /\ Move(q, r)
    BY Zenon, <1>4, <2>1, <2>2 DEF QueryFails, Admitted
  <2>4. r \in Queries /\ QueryAt(r)
    <3>1. CASE identity = "fail_open"
      BY <1>t, <2>2, <2>3, <3>1, QueryFields DEF Queries, QueryAt
    <3>2. CASE identity # "fail_open"
      BY Zenon, <1>i, <2>2, <3>2
    <3> QED
      BY Zenon, <3>1, <3>2
  <2> QED
    BY Zenon, <1>4, <1>t, <2>3, <2>4, MoveInv DEF QueryFails
<1>5. ASSUME NEW q \in Calls, TokenForCached(q) PROVE CredIInv'
  <2>1. PICK d \in Queries : d = query[q]
    BY Zenon
  <2>2. d.at = "admitted" /\ d.bearer \in Bearers /\ d.for \in Audiences
    BY Zenon, <1>5, <2>1, QueryFields DEF TokenForCached
  <2>3. PICK t \in Tokens : t = tokens[<<d.bearer, d.for>>]
    BY Zenon, <2>2
  <2>4. PICK r : r = [at |-> "given", bearer |-> d.bearer, for |-> d.for, token |-> t]
    BY Zenon
  <2>5. t # NoToken /\ Move(q, r)
    BY Zenon, <1>5, <2>1, <2>3, <2>4 DEF TokenForCached, Hit, Given, Key
  <2>6. OwnToken(t, d.bearer, d.for)
    BY Zenon, <2>2, <2>3, <2>5 DEF CredIInv, TokensInv
  <2>7. r \in Queries /\ QueryAt(r)
    BY Zenon, <2>2, <2>4, <2>5, <2>6 DEF Queries, QueryAt
  <2> QED
    BY Zenon, <1>5, <1>t, <2>5, <2>7, MoveInv DEF TokenForCached
<1>6. ASSUME NEW q \in Calls, Exchange(q) PROVE CredIInv'
  <2>1. PICK d \in Queries : d = query[q]
    BY Zenon
  <2>2. d.at = "admitted" /\ d.bearer \in Bearers /\ d.for \in Audiences
    BY Zenon, <1>6, <2>1, QueryFields DEF Exchange
  <2>3. PICK t : t = Minted(d.bearer, d.for)
    BY Zenon
  <2>4. PICK e : e = IF clock + CacheTTL > expires[d.bearer] THEN expires[d.bearer] ELSE clock + CacheTTL
    BY Zenon
  <2>5. e \in Times /\ e <= expires[d.bearer]
    BY <2>2, <2>4 DEF Times
  <2>6. t = [expiry |-> e, of |-> d.bearer, for |-> d.for]
    BY Zenon, <2>3, <2>4 DEF Minted
  <2>7. t \in Tokens \ {NoToken} /\ OwnToken(t, d.bearer, d.for)
    BY Zenon, <2>2, <2>5, <2>6 DEF Tokens, NoToken, OwnToken
  <2>8. PICK r : r = [at |-> "minted", bearer |-> d.bearer, for |-> d.for, token |-> t]
    BY Zenon
  <2>9. r \in Queries /\ QueryAt(r)
    BY Zenon, <2>2, <2>7, <2>8 DEF Queries, QueryAt
  <2>10. Move(q, r) \/ Move(q, Idle)
    BY Zenon, <1>6, <2>1, <2>3, <2>8 DEF Exchange
  <2> QED
    BY Zenon, <1>6, <1>t, <1>i, <2>9, <2>10, MoveInv DEF Exchange
<1>7. ASSUME NEW q \in Calls, StoreToken(q) PROVE CredIInv'
  <2>1. PICK d \in Queries : d = query[q]
    BY Zenon
  <2>2. d.at = "minted" /\ d.bearer \in Bearers /\ d.for \in Audiences /\ d.token \in Tokens \ {NoToken}
        /\ QueryAt(d)
    BY Zenon, <1>7, <1>t, <2>1, QueryFields DEF StoreToken
  <2>3. OwnToken(d.token, d.bearer, d.for)
    BY Zenon, <2>2 DEF QueryAt
  <2>4. PICK r : r = [at |-> "given", bearer |-> d.bearer, for |-> d.for, token |-> d.token]
    BY Zenon
  <2>5. r \in Queries /\ QueryAt(r)
    BY Zenon, <2>2, <2>3, <2>4 DEF Queries, QueryAt
  <2>6. /\ tokens' = [tokens EXCEPT ![<<d.bearer, d.for>>] = d.token] /\ query' = [query EXCEPT ![q] = r]
        /\ UNCHANGED <<clock, expires, revoked, identity, broker, seen>>
    BY Zenon, <1>7, <2>1, <2>4 DEF StoreToken, Given, Key, Move
  <2>7. /\ tokens' \in [Bearers \X Audiences -> Tokens]
        /\ \A b \in Bearers, a \in Audiences :
             tokens'[<<b, a>>] = IF b = d.bearer /\ a = d.for THEN d.token ELSE tokens[<<b, a>>]
    BY Zenon, <1>t, <2>2, <2>6
  <2>8. /\ query' \in [Calls -> Queries]
        /\ \A x \in Calls : query'[x] = IF x = q THEN r ELSE query[x]
    BY Zenon, <2>5, <2>6 DEF CredIInv
  <2>9. TokensInv'
    BY <2>3, <2>6, <2>7 DEF CredIInv, TokensInv, OwnToken
  <2>10. CredTypeOK'
    BY <2>6, <2>7, <2>8, QueryFields DEF CredIInv, CredTypeOK
  <2>11. AnswersInv'
    BY Zenon, <2>6 DEF CredIInv, AnswersInv
  <2>12. ASSUME NEW x \in Calls PROVE QueryAt(query[x])'
    <3>1. QueryAt(query'[x])
      BY Zenon, <1>t, <2>5, <2>8
    <3> QED
      BY Zenon, <2>6, <3>1 DEF QueryAt, OwnToken
  <2> QED
    BY Zenon, <2>8, <2>9, <2>10, <2>11, <2>12 DEF CredIInv
<1>8. ASSUME NEW q \in Calls, Done(q) PROVE CredIInv'
  BY Zenon, <1>8, <1>t, <1>i, MoveInv DEF Done
<1>9. CASE BrokerRevoke
  <2>1. tokens' \in [Bearers \X Audiences -> Tokens] /\ \A b \in Bearers, a \in Audiences : tokens'[<<b, a>>] = NoToken
    BY Zenon, <1>9 DEF BrokerRevoke, Tokens
  <2>2. TokensInv' /\ AnswersInv'
    BY Zenon, <1>9, <2>1 DEF BrokerRevoke, CredIInv, TokensInv, AnswersInv
  <2>3. CredTypeOK'
    BY Zenon, <1>9, <2>1 DEF BrokerRevoke, CredIInv, CredTypeOK
  <2>4. \A q \in Calls : QueryAt(query[q])'
    BY Zenon, <1>9, <1>t DEF BrokerRevoke, QueryAt, OwnToken
  <2> QED
    BY Zenon, <1>9, <2>2, <2>3, <2>4 DEF BrokerRevoke, CredIInv
<1>10. ASSUME NEW b \in Bearers, RevokeBearer(b) PROVE CredIInv'
  <2>1. /\ revoked' \in [Bearers -> Times \cup {Never}] /\ revoked'[b] = clock /\ revoked[b] = MaxClock + 1
        /\ \A c \in Bearers : c # b => revoked'[c] = revoked[c]
        /\ UNCHANGED <<clock, expires, identity, broker, seen, tokens, query>>
    BY Zenon, <1>10, <1>t DEF RevokeBearer, CredIInv, CredTypeOK, Never
  <2>2. TokensInv' /\ CredTypeOK'
    <3>1. TokensInv'
      BY <2>1 DEF CredIInv, TokensInv, OwnToken
    <3>2. CredTypeOK'
      BY Zenon, <2>1 DEF CredIInv, CredTypeOK, Never, Times
    <3> QED
      BY Zenon, <3>1, <3>2
  <2>3. AnswersInv'
    BY <2>1 DEF CredIInv, AnswersInv
  <2>4. ASSUME NEW q \in Calls PROVE QueryAt(query[q])'
    <3>1. PICK d \in Queries : d = query[q]
      BY Zenon
    <3>2. QueryAt(d)
      BY Zenon, <1>t, <3>1
    <3>3. /\ d.at \in {"asking", "answered"} => d.since <= clock /\ clock <= d.since + QueryTimeout
          /\ d.at = "admitted" => d.when <= clock
          /\ d.at \in {"minted", "given"} => OwnToken(d.token, d.bearer, d.for)
      BY Zenon, <3>2 DEF QueryAt
    <3>4. d.at = "answered" /\ d.active => d.since <= revoked'[d.bearer]
      BY Zenon, <2>1, <3>2, QueryFields DEF QueryAt
    <3>5. d.at = "admitted" /\ identity = "introspect" =>
            d.when < revoked'[d.bearer] + Interval + QueryTimeout
      <4>1. CASE d.at = "admitted" /\ d.bearer = b
        BY <2>1, <3>3, <4>1, QueryFields
      <4>2. CASE d.at = "admitted" /\ d.bearer # b
        BY Zenon, <2>1, <3>2, <4>2, QueryFields DEF QueryAt
      <4> QED
        BY Zenon, <4>1, <4>2
    <3>6. QueryAt(d)'
      BY Zenon, <2>1, <3>3, <3>4, <3>5 DEF QueryAt, OwnToken
    <3> QED
      BY Zenon, <2>1, <3>1, <3>6
  <2> QED
    BY Zenon, <2>1, <2>2, <2>3, <2>4 DEF CredIInv
<1>11. CASE Tick
  <2>1. /\ clock < MaxClock /\ clock' = clock + 1 /\ clock' \in Times
        /\ \A q \in Calls : query[q].at \in {"asking", "answered"} => clock < query[q].since + QueryTimeout
        /\ UNCHANGED <<expires, revoked, identity, broker, seen, tokens, query>>
    BY SMTT(30), <1>11 DEF Tick, Times
  <2>2. TokensInv' /\ CredTypeOK'
    BY ZenonT(40), <2>1 DEF CredIInv, TokensInv, OwnToken, CredTypeOK
  <2>3. AnswersInv'
    BY SMTT(30), <2>1 DEF CredIInv, AnswersInv
  <2>4. ASSUME NEW q \in Calls PROVE QueryAt(query[q])'
    <3>1. PICK d \in Queries : d = query[q]
      BY Zenon
    <3>2. QueryAt(d) /\ (d.at \in {"asking", "answered"} => clock < d.since + QueryTimeout)
      BY Zenon, <1>t, <2>1, <3>1
    <3>3. QueryAt(d)'
      BY <2>1, <3>2, QueryFields DEF QueryAt, OwnToken
    <3> QED
      BY Zenon, <2>1, <3>1, <3>3
  <2> QED
    BY Zenon, <2>1, <2>2, <2>3, <2>4 DEF CredIInv
<1>12. CASE UNCHANGED credVars
  BY SMTT(30), <1>12 DEF credVars, CredIInv, CredTypeOK, TokensInv, AnswersInv, QueryAt, OwnToken
<1>13. ASSUME NEW q \in Calls,
              \/ Answer(q) \/ Store(q) \/ QueryFails(q)
              \/ TokenForCached(q) \/ Exchange(q) \/ StoreToken(q) \/ Done(q)
       PROVE  CredIInv'
  BY Zenon, <1>2, <1>3, <1>4, <1>5, <1>6, <1>7, <1>8, <1>13
<1> QED
  BY Zenon, <1>1, <1>9, <1>10, <1>11, <1>12, <1>13 DEF CredNext

\* "Revocation is detected before expiry" (bearer_introspect): however late and in whatever order
\* the identity provider's answers arrive, nobody is admitted Interval plus one query's timeout
\* after the token was revoked; and the broker gives every request a token of its own caller, for
\* its own server type, that does not outlive the caller's.
THEOREM CallersAreCurrent == CredSpec => []AdmittedAsCaller
<1>1. CredIInv => AdmittedAsCaller
  BY Zenon DEF CredIInv, QueryAt, OwnToken, AdmittedAsCaller
<1> QED
  BY <1>1, CredInitInv, CredStepInv, PTL DEF CredSpec

HIDE CredentialsAssumption

-----------------------------------------------------------------------------
(***************************************************************************)
(* The user's secrets.  What a request delivers was resolved against the   *)
(* adapter and is complete; the child has what the last delivery brought.  *)
(***************************************************************************)

Values == [src : {"none", "header", "store", "sealed"}, adapter : SAdapters \cup {"none"}, gen : 0 .. MaxGen]
SReqRecs ==
    [pc : {"idle", "ensure", "resolve", "deliver"}, hdr : Headers, plain : [SNames -> Values],
     sealed : Blobs \cup {NoBlob}]

Complete(vals) == \A n \in decls.required : vals[n] # NoValue

\* What ResolveUserSecrets returned without an error.
ResolvedWell(plain, sealed) ==
    /\ \A n \in SNames : plain[n].src # "sealed" /\ (plain[n].src = "store" => plain[n].adapter = This)
    /\ ~From("sealed") => sealed = NoBlob /\ Complete(plain)

ChildInv ==
    /\ \A n \in SNames :
         /\ child[n].src = "store" => child[n].adapter = This
         /\ child[n].src = "sealed" => child[n].adapter = This /\ child[n].gen = podGen
    /\ ~From("sealed") => child = NoValues \/ Complete(child)

SecretsIInv ==
    /\ SecretsTypeOK /\ child \in [SNames -> Values] /\ sreq \in [SReqs -> SReqRecs]
    /\ \A q \in SReqs : sreq[q].pc = "deliver" => ResolvedWell(sreq[q].plain, sreq[q].sealed)
    /\ ChildInv

USE SecretsAssumption

\* Resolve, over the vault as it is: every value has its source, one from the vault was sealed for
\* this adapter.
LEMMA ResolveValues ==
    ASSUME decls \in Decls, vault \in Entries \cup {NoEntry}, NEW hdr \in Headers, NEW n \in SNames
    PROVE  /\ Take(n, hdr) \in Values /\ Take(n, hdr).src # "sealed"
           /\ Take(n, hdr).src = "store" => Take(n, hdr).adapter = This
<1> DEFINE by == Suppliers(n, hdr)
           s == decls.sources
<1>1. s \in {<<"header", "store">>, <<"store", "header">>, <<"store", "sealed">>, <<"sealed", "header">>}
  BY Zenon DEF Decls
<1>2. by \subseteq {1, 2} /\ DOMAIN s = 1 .. 2
  BY <1>1 DEF Suppliers
<1>3. NoValue \in Values /\ NoValue.src = "none"
  BY DEF NoValue, Values, Value
<1>4. CASE by = {}
  <2>1. Take(n, hdr) = NoValue
    BY Zenon, <1>4 DEF Take
  <2> QED
    BY Zenon, <1>3, <2>1
<1>5. CASE by # {}
  <2>1. PICK i \in by : i = CHOOSE x \in by : \A j \in by : x <= j
    <3>1. \E x \in by : \A j \in by : x <= j
      BY <1>2, <1>5
    <3> QED
      BY Zenon, <3>1
  <2>2. i \in {1, 2} /\ n \in Supplied(s[i], hdr)
    BY Zenon, <1>2, <2>1 DEF Suppliers
  <2>3. PICK src : src = s[i]
    BY Zenon
  <2>4. src \in {"header", "store", "sealed"} /\ n \in Supplied(src, hdr)
    BY <1>1, <2>2, <2>3
  <2>5. Take(n, hdr) = ValueOf(src)
    BY Zenon, <1>5, <2>1, <2>3 DEF Take
  <2>6. CASE src = "header"
    BY <2>5, <2>6 DEF ValueOf, Value, Values
  <2>7. CASE src = "store"
    <3>1. vault.adapter = This
      BY Zenon, <2>4, <2>7 DEF Supplied, OpenEntry
    <3>2. Take(n, hdr) = [src |-> "store", adapter |-> This, gen |-> 0]
      BY Zenon, <2>5, <2>7, <3>1 DEF ValueOf, Value
    <3> QED
      BY <3>2 DEF Values
  <2>8. src # "sealed"
    BY Zenon, <2>4 DEF Supplied
  <2> QED
    BY Zenon, <2>4, <2>6, <2>7, <2>8
<1> QED
  BY Zenon, <1>4, <1>5

\* Resolve when nothing required is missing.
LEMMA ResolveWell ==
    ASSUME decls \in Decls, vault \in Entries \cup {NoEntry}, NEW hdr \in Headers
    PROVE  /\ Resolve(hdr).plain \in [SNames -> Values] /\ Resolve(hdr).sealed \in Blobs \cup {NoBlob}
           /\ Missing(Resolve(hdr)) = {} => ResolvedWell(Resolve(hdr).plain, Resolve(hdr).sealed)
<1>1. PICK p : p = [n \in SNames |-> Take(n, hdr)]
  BY Zenon
<1>2. PICK b : b = IF From("sealed") THEN hdr.blob ELSE NoBlob
  BY Zenon
<1>3. Resolve(hdr).plain = p /\ Resolve(hdr).sealed = b
  BY Zenon, <1>1, <1>2 DEF Resolve
<1>4. p \in [SNames -> Values] /\ b \in Blobs \cup {NoBlob}
  BY Zenon, <1>1, <1>2, ResolveValues DEF Headers
<1>5. \A n \in SNames : p[n].src # "sealed" /\ (p[n].src = "store" => p[n].adapter = This)
  BY Zenon, <1>1, ResolveValues
<1>6. decls.required \subseteq SNames
  BY Zenon DEF Decls
<1>7. ASSUME Missing(Resolve(hdr)) = {}, ~From("sealed") PROVE b = NoBlob /\ Complete(p)
  BY Zenon, <1>2, <1>3, <1>6, <1>7 DEF Missing, Complete
<1> QED
  BY Zenon, <1>3, <1>4, <1>5, <1>7 DEF ResolvedWell

\* A request that carries nothing.
LEMMA NoSReqType == NoSReq \in SReqRecs /\ NoSReq.pc = "idle" /\ NoValues \in [SNames -> Values]
<1>1. NoValue \in Values
  BY DEF NoValue, Values, Value
<1>2. NoValues \in [SNames -> Values]
  BY Zenon, <1>1 DEF NoValues
<1>3. [plain |-> {}, key |-> 0, blob |-> NoBlob] \in Headers
  BY Zenon DEF Headers
<1> QED
  BY Zenon, <1>2, <1>3 DEF NoSReq, SReqRecs

\* A child without secrets.
LEMMA NoChildInv == ASSUME child = NoValues PROVE ChildInv
<1>1. \A n \in SNames : child[n].src = "none"
  BY Zenon DEF NoValues, NoValue, Value
<1> QED
  BY Zenon, <1>1 DEF ChildInv

\* The invariant holds initially.
LEMMA SecretsInitInv == SecretsInit => SecretsIInv
<1> SUFFICES ASSUME SecretsInit PROVE SecretsIInv
  BY Zenon
<1>1. sreq \in [SReqs -> SReqRecs] /\ \A q \in SReqs : sreq[q].pc = "idle"
  BY Zenon, NoSReqType DEF SecretsInit
<1>2. SecretsTypeOK
  <2>1. 1 \in 1 .. MaxGen
    OBVIOUS
  <2>2. running \in BOOLEAN /\ podGen \in 1 .. MaxGen
    BY Zenon, <2>1 DEF SecretsInit
  <2> QED
    BY Zenon, <1>1, <2>2 DEF SecretsInit, SecretsTypeOK
<1>3. ChildInv /\ child \in [SNames -> Values]
  BY Zenon, NoChildInv, NoSReqType DEF SecretsInit
<1> QED
  BY Zenon, <1>1, <1>2, <1>3 DEF SecretsIInv

\* A step of one request, which leaves the child alone.
LEMMA SReqInv ==
    ASSUME SecretsIInv, NEW q \in SReqs, NEW r \in SReqRecs, sreq' = [sreq EXCEPT ![q] = r],
           r.pc = "deliver" => ResolvedWell(r.plain, r.sealed),
           UNCHANGED <<decls, vault, podGen, child>>, running' \in BOOLEAN, running => running'
    PROVE  SecretsIInv'
<1>1. /\ sreq' \in [SReqs -> SReqRecs]
      /\ \A x \in SReqs : sreq'[x] = IF x = q THEN r ELSE sreq[x]
  BY Zenon DEF SecretsIInv
<1>2. SecretsTypeOK'
  <2>1. \A x \in SReqs : sreq'[x].pc \in {"idle", "ensure", "resolve", "deliver"}
    BY Zenon, <1>1 DEF SReqRecs
  <2> QED
    BY Zenon, <2>1 DEF SecretsIInv, SecretsTypeOK
<1>3. ASSUME NEW x \in SReqs, sreq'[x].pc = "deliver" PROVE ResolvedWell(sreq[x].plain, sreq[x].sealed)'
  <2>1. ResolvedWell(sreq'[x].plain, sreq'[x].sealed)
    BY Zenon, <1>1, <1>3 DEF SecretsIInv
  <2> QED
    BY Zenon, <2>1 DEF ResolvedWell, Complete, From
<1>4. ChildInv'
  BY Zenon DEF SecretsIInv, ChildInv, Complete, From
<1> QED
  BY Zenon, <1>1, <1>2, <1>3, <1>4 DEF SecretsIInv

\* A change of the vault, with which the pod may end.
LEMMA VaultInv ==
    ASSUME SecretsIInv, vault' \in Entries \cup {NoEntry},
           \/ PodEnds
           \/ UNCHANGED <<podGen, running, child>>,
           UNCHANGED <<decls, sreq>>
    PROVE  SecretsIInv'
<1>0. vault' \in Entries \cup {NoEntry} /\ UNCHANGED <<decls, sreq>>
  BY Zenon
<1>1. podGen \in 1 .. MaxGen /\ running \in BOOLEAN
  BY Zenon DEF SecretsIInv, SecretsTypeOK
<1>2. podGen' \in 1 .. MaxGen /\ running' \in BOOLEAN /\ child' \in [SNames -> Values]
      /\ (~running' => child' = NoValues)
  <2>1. CASE PodEnds
    <3>1. running' = FALSE /\ child' = NoValues
      BY Zenon, <2>1 DEF PodEnds
    <3>2. podGen' \in 1 .. MaxGen
      BY <1>1, <2>1 DEF PodEnds
    <3> QED
      BY Zenon, <3>1, <3>2, NoSReqType
  <2>2. CASE UNCHANGED <<podGen, running, child>>
    BY Zenon, <1>1, <2>2 DEF SecretsIInv, SecretsTypeOK
  <2> QED
    BY Zenon, <2>1, <2>2
<1>3. SecretsTypeOK'
  BY Zenon, <1>2 DEF SecretsIInv, SecretsTypeOK
<1>4. \A q \in SReqs : sreq'[q].pc = "deliver" => ResolvedWell(sreq[q].plain, sreq[q].sealed)'
  BY Zenon DEF SecretsIInv, ResolvedWell, Complete, From
<1>5. ChildInv'
  <2>1. CASE child' = NoValues
    <3>1. \A n \in SNames : child'[n].src = "none"
      BY Zenon, <2>1 DEF NoValues, NoValue, Value
    <3> QED
      BY Zenon, <2>1, <3>1 DEF ChildInv
  <2>2. CASE UNCHANGED <<podGen, running, child>>
    BY Zenon, <2>2 DEF SecretsIInv, ChildInv, Complete, From
  <2> QED
    BY Zenon, <2>1, <2>2 DEF PodEnds
<1>6. sreq' \in [SReqs -> SReqRecs]
  BY Zenon DEF SecretsIInv
<1> QED
  BY Zenon, <1>2, <1>3, <1>4, <1>5, <1>6 DEF SecretsIInv

\* Every step of a request, of the user's vault and of the pod preserves the invariant.
LEMMA SecretsStepInv == SecretsIInv /\ [SecretsNext]_secretVars => SecretsIInv'
<1> SUFFICES ASSUME SecretsIInv, [SecretsNext]_secretVars PROVE SecretsIInv'
  BY Zenon
<1>t. /\ decls \in Decls /\ vault \in Entries \cup {NoEntry} /\ running \in BOOLEAN
      /\ \A q \in SReqs : sreq[q] \in SReqRecs /\ sreq[q].hdr \in Headers
  <2>1. \A q \in SReqs : sreq[q] \in SReqRecs
    BY Zenon DEF SecretsIInv
  <2> QED
    BY Zenon, <2>1 DEF SecretsIInv, SecretsTypeOK, SReqRecs
<1>1. ASSUME NEW q \in SReqs, NEW hdr \in Headers, Request(q, hdr) PROVE SecretsIInv'
  <2>1. PICK r : r = [NoSReq EXCEPT !.pc = "ensure", !.hdr = hdr]
    BY Zenon
  <2>2. r \in SReqRecs /\ r.pc = "ensure"
    BY Zenon, <2>1, NoSReqType DEF NoSReq, SReqRecs
  <2>3. sreq' = [sreq EXCEPT ![q] = r] /\ UNCHANGED <<decls, vault, podGen, running, child>>
    BY Zenon, <1>1, <2>1 DEF Request
  <2> QED
    BY Zenon, <1>t, <2>2, <2>3, SReqInv
<1>2. ASSUME NEW q \in SReqs, SecretsEnsure(q) PROVE SecretsIInv'
  <2>1. PICK d \in SReqRecs : d = sreq[q]
    BY Zenon, <1>t
  <2>2. PICK r : r = [d EXCEPT !.pc = "resolve"]
    BY Zenon
  <2>3. r \in SReqRecs /\ r.pc = "resolve"
    BY Zenon, <2>2 DEF SReqRecs
  <2>4. sreq' = [sreq EXCEPT ![q] = r] /\ running' = TRUE /\ UNCHANGED <<decls, vault, podGen, child>>
    BY Zenon, <1>2, <2>1, <2>2 DEF SecretsEnsure
  <2> QED
    BY Zenon, <2>3, <2>4, SReqInv
<1>3. ASSUME NEW q \in SReqs, ResolveAgain(q) PROVE SecretsIInv'
  <2>1. PICK d \in SReqRecs : d = sreq[q]
    BY Zenon, <1>t
  <2>2. PICK p \in [SNames -> Values], b \in Blobs \cup {NoBlob} :
          p = Resolve(d.hdr).plain /\ b = Resolve(d.hdr).sealed
    BY Zenon, <1>t, <2>1, ResolveWell
  <2>3. UNCHANGED <<decls, vault, podGen, running, child>>
    BY Zenon, <1>3 DEF ResolveAgain
  <2>4. CASE Missing(Resolve(d.hdr)) # {}
    <3>1. sreq' = [sreq EXCEPT ![q] = NoSReq]
      BY Zenon, <1>3, <2>1, <2>4 DEF ResolveAgain
    <3> QED
      BY Zenon, <1>t, <2>3, <3>1, NoSReqType, SReqInv
  <2>5. CASE Missing(Resolve(d.hdr)) = {}
    <3>1. PICK r : r = [d EXCEPT !.pc = "deliver", !.plain = p, !.sealed = b]
      BY Zenon
    <3>2. r \in SReqRecs /\ r.plain = p /\ r.sealed = b
      BY Zenon, <3>1 DEF SReqRecs
    <3>3. sreq' = [sreq EXCEPT ![q] = r]
      BY Zenon, <1>3, <2>1, <2>2, <2>5, <3>1 DEF ResolveAgain
    <3>4. ResolvedWell(r.plain, r.sealed)
      BY Zenon, <1>t, <2>1, <2>2, <2>5, <3>2, ResolveWell
    <3> QED
      BY Zenon, <1>t, <2>3, <3>2, <3>3, <3>4, SReqInv
  <2> QED
    BY Zenon, <2>4, <2>5
<1>4. ASSUME NEW q \in SReqs, Deliver(q) PROVE SecretsIInv'
  <2>1. PICK d \in SReqRecs : d = sreq[q]
    BY Zenon, <1>t
  <2>2. d.pc = "deliver" /\ ResolvedWell(d.plain, d.sealed) /\ d.plain \in [SNames -> Values]
    BY Zenon, <1>4, <2>1 DEF Deliver, SecretsIInv, SReqRecs
  <2>3. sreq' = [sreq EXCEPT ![q] = NoSReq] /\ UNCHANGED <<decls, vault, podGen, running>>
    BY Zenon, <1>4 DEF Deliver
  <2>4. CASE UNCHANGED child
    BY Zenon, <1>t, <2>3, <2>4, NoSReqType, SReqInv
  <2>5. ASSUME NEW held \in SUBSET SNames, running, d.sealed = NoBlob \/ Opens(d.sealed),
               d.sealed = NoBlob => held = {},
               child' = [n \in SNames |-> IF n \in held THEN Value("sealed", d.sealed.adapter, d.sealed.gen)
                                          ELSE d.plain[n]]
        PROVE  SecretsIInv'
    <3>1. podGen \in 0 .. MaxGen
      BY SMTT(30) DEF SecretsIInv, SecretsTypeOK
    <3>2. \A n \in held : child'[n] = [src |-> "sealed", adapter |-> This, gen |-> podGen]
      BY SMTT(30), <2>5 DEF Opens, Value
    <3>3. \A n \in SNames \ held : child'[n] = d.plain[n]
      BY Zenon, <2>5
    <3>4. \A n \in SNames : child'[n] \in Values
      BY SMTT(30), <2>2, <3>1, <3>2, <3>3 DEF Values
    <3>5. child' \in [SNames -> Values]
      BY Zenon, <2>5, <3>4
    <3>6. ChildInv'
      <4>1. ASSUME NEW n \in SNames
            PROVE  /\ child'[n].src = "store" => child'[n].adapter = This
                   /\ child'[n].src = "sealed" => child'[n].adapter = This /\ child'[n].gen = podGen'
        BY <2>2, <2>3, <3>2, <3>3 DEF ResolvedWell
      <4>2. ASSUME ~From("sealed") PROVE Complete(child')
        <5>1. held = {} /\ Complete(d.plain) /\ decls.required \subseteq SNames
          BY Zenon, <1>t, <2>2, <2>5, <4>2 DEF ResolvedWell, Decls
        <5> QED
          BY Zenon, <3>3, <5>1 DEF Complete
      <4> QED
        BY Zenon, <2>3, <4>1, <4>2 DEF ChildInv, From, Complete
    <3>7. /\ sreq' \in [SReqs -> SReqRecs]
          /\ \A x \in SReqs : sreq'[x] = IF x = q THEN NoSReq ELSE sreq[x]
      BY Zenon, <2>3, NoSReqType DEF SecretsIInv
    <3>8. SecretsTypeOK'
      BY Zenon, <2>3, <2>5, <3>7, NoSReqType DEF SecretsIInv, SecretsTypeOK
    <3>9. ASSUME NEW x \in SReqs, sreq'[x].pc = "deliver" PROVE ResolvedWell(sreq[x].plain, sreq[x].sealed)'
      <4>1. ResolvedWell(sreq'[x].plain, sreq'[x].sealed)
        BY Zenon, <3>7, <3>9, NoSReqType DEF SecretsIInv
      <4> QED
        BY Zenon, <2>3, <4>1 DEF ResolvedWell, Complete, From
    <3> QED
      BY Zenon, <3>5, <3>6, <3>7, <3>8, <3>9 DEF SecretsIInv
  <2> QED
    BY Zenon, <1>4, <2>1, <2>4, <2>5 DEF Deliver
<1>5. ASSUME NEW e \in Entries, MeSecretsPut(e) PROVE SecretsIInv'
  BY Zenon, <1>5, VaultInv DEF MeSecretsPut
<1>6. CASE MeSecretsDelete
  BY Zenon, <1>6, VaultInv DEF MeSecretsDelete
<1>7. CASE PodLost
  BY Zenon, <1>7, <1>t, VaultInv DEF PodLost
<1>8. CASE UNCHANGED secretVars
  BY Zenon, <1>8, <1>t, VaultInv DEF secretVars
<1> QED
  BY Zenon, <1>1, <1>2, <1>3, <1>4, <1>5, <1>6, <1>7, <1>8 DEF SecretsNext

\* What ResolveUserSecrets, OpenEntry and OpenFromClient guarantee the child of a pod: its secrets
\* were sealed for its adapter and for this incarnation of the pod, and a child that has any has
\* all the required ones, however the user's vault and the pod change while requests wait.
THEOREM ChildRunsWithItsSecrets == SecretsSpec => []ChildSecrets
<1>1. SecretsIInv => ChildSecrets
  <2> SUFFICES ASSUME SecretsIInv, ~From("sealed"), \E n \in SNames : child[n] # NoValue
               PROVE  \A n \in decls.required : child[n] # NoValue
    BY Zenon DEF SecretsIInv, ChildInv, ChildSecrets
  <2>1. child # NoValues
    BY Zenon DEF NoValues
  <2> QED
    BY Zenon, <2>1 DEF SecretsIInv, ChildInv, Complete
<1> QED
  BY <1>1, SecretsInitInv, SecretsStepInv, PTL DEF SecretsSpec
=============================================================================
