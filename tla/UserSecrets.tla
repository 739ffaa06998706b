---------------------------- MODULE UserSecrets -----------------------------
(***************************************************************************)
(* The user's own secrets: the sealed entries of the vault (core/vault.go, *)
(* /me/secrets), how the gateway resolves the secrets a server type        *)
(* declares for one request (gateway/usersecrets.go), and what the wrapper *)
(* of the pod makes of them (userSecretsFrom).                             *)
(*                                                                         *)
(* One subject and one adapter, This: a key of the vault and a pod of its   *)
(* own.  What was sealed for another adapter or another subject may come   *)
(* its way all the same.  A value stands for where it came from.           *)
(***************************************************************************)
EXTENDS Naturals, Sequences, FiniteSets

CONSTANTS
    SAdapters,      \* what a secret may have been sealed for: subject and adapter
    This,           \* the subject and adapter of the pod
    SNames,         \* the secrets the adapter declares
    SReqs,          \* requests under way at a time
    MaxGen          \* bound: incarnations of a pod

ASSUME SecretsAssumption == MaxGen \in Nat \ {0} /\ "none" \notin SAdapters /\ This \in SAdapters

VARIABLES
    decls,      \* what the adapter declares: the sources in order, the required names
    vault,      \* the sealed entry stored for the adapter
    podGen,     \* incarnation of the pod, the wrapper's key pair with it
    running,    \* whether the pod runs
    child,      \* the secrets of the pod's child
    sreq        \* sreq[q]: a request

secretVars == <<decls, vault, podGen, running, child, sreq>>

Decls ==
    [sources : {<<"header", "store">>, <<"store", "header">>, <<"store", "sealed">>, <<"sealed", "header">>},
     required : SUBSET SNames]

\* A value: its source, the adapter it was sealed for and, of a blob, the key it was sealed to.
\* A header names no adapter.
Value(src, a, g) == [src |-> src, adapter |-> a, gen |-> g]
NoValue == Value("none", "none", 0)
NoValues == [n \in SNames |-> NoValue]

\* An entry: the adapter it was sealed for, under which of the user's keys, and its names.
NoEntry == [adapter |-> "none", key |-> 0, names |-> {}]
Entries ==
    [adapter : {This}, key : {1, 2}, names : SUBSET SNames \ {{}}]
        \cup [adapter : SAdapters \ {This}, key : {1}, names : SUBSET SNames \ {{}}]

\* What a request carries: secrets in headers, a vault key (0 for none, or for one that does not
\* decode), and a blob sealed to a key of this pod or of another.
NoBlob == [adapter |-> "none", gen |-> 0]
Blobs == [adapter : {This}, gen : 1 .. MaxGen] \cup [adapter : SAdapters \ {This}, gen : {1}]
Headers == [plain : {{}} \cup {{n} : n \in SNames}, key : {0, 1}, blob : Blobs \cup {NoBlob}]

NoSReq == [pc |-> "idle", hdr |-> [plain |-> {}, key |-> 0, blob |-> NoBlob],
          plain |-> NoValues, sealed |-> NoBlob]

SecretsTypeOK ==
    /\ decls \in Decls
    /\ vault \in Entries \cup {NoEntry}
    /\ podGen \in 1 .. MaxGen /\ running \in BOOLEAN
    /\ \A q \in SReqs : sreq[q].pc \in {"idle", "ensure", "resolve", "deliver"}
    /\ ~running => child = NoValues

SecretsInit ==
    /\ decls \in Decls
    /\ vault = NoEntry
    /\ podGen = 1 /\ running = FALSE
    /\ child = NoValues
    /\ sreq = [q \in SReqs |-> NoSReq]

-----------------------------------------------------------------------------

\* Mutant: the adapter is not authenticated with the entry.
OpenEntryUnbound(key, e) == IF e.key = key THEN e.names ELSE {}

\* OpenEntry: the names it yields; subject and adapter are authenticated data.
OpenEntry(key, e) == IF e.key = key /\ e.adapter = This THEN e.names ELSE {}

From(src) == \E i \in DOMAIN decls.sources : decls.sources[i] = src

\* The names a source has for the adapter, and the values.
Supplied(src, hdr) ==
    CASE src = "header" -> hdr.plain
      [] src = "store" -> IF hdr.key # 0 THEN OpenEntry(hdr.key, vault) ELSE {}
      [] OTHER -> {}

ValueOf(src) == IF src = "header" THEN Value("header", "none", 0) ELSE Value(src, vault.adapter, 0)

\* The sources, by their place in the order, that have name n.
Suppliers(n, hdr) == {i \in DOMAIN decls.sources : n \in Supplied(decls.sources[i], hdr)}

\* The loop over the sources, for name n: a later source does not replace what one before it had.
Take(n, hdr) ==
    LET by == Suppliers(n, hdr) IN
    IF by = {} THEN NoValue ELSE ValueOf(decls.sources[CHOOSE i \in by : \A j \in by : i <= j])

\* ResolveUserSecrets: the plain values and the blob, forwarded as it is.
Resolve(hdr) ==
    [plain |-> [n \in SNames |-> Take(n, hdr)], sealed |-> IF From("sealed") THEN hdr.blob ELSE NoBlob]

\* The required names without a value; a blob is taken to hold them all.
Missing(out) == {n \in decls.required : out.plain[n] = NoValue /\ out.sealed = NoBlob}

-----------------------------------------------------------------------------

\* handleMCP, before the pod: "required user secrets are checked before a pod is spawned".
\* Headers that no source reads are left out.
Request(q, hdr) ==
    /\ sreq[q].pc = "idle"
    /\ From("header") \/ hdr.plain = {}
    /\ From("store") \/ hdr.key = 0
    /\ From("sealed") \/ hdr.blob = NoBlob
    /\ hdr.blob.adapter = This => hdr.blob.gen <= podGen
    /\ Missing(Resolve(hdr)) = {}
    /\ sreq' = [sreq EXCEPT ![q] = [NoSReq EXCEPT !.pc = "ensure", !.hdr = hdr]]
    /\ UNCHANGED <<decls, vault, podGen, running, child>>

\* EnsurePod.
SecretsEnsure(q) ==
    /\ sreq[q].pc = "ensure"
    /\ running' = TRUE
    /\ sreq' = [sreq EXCEPT ![q].pc = "resolve"]
    /\ UNCHANGED <<decls, vault, podGen, child>>

\* The secrets are resolved again, from the vault as it is by now.
ResolveAgain(q) ==
    LET out == Resolve(sreq[q].hdr) IN
    /\ sreq[q].pc = "resolve"
    /\ sreq' = [sreq EXCEPT ![q] = IF Missing(out) # {} THEN NoSReq
                                   ELSE [@ EXCEPT !.pc = "deliver", !.plain = out.plain, !.sealed = out.sealed]]
    /\ UNCHANGED <<decls, vault, podGen, running, child>>

\* OpenFromClient, with the key pair of this incarnation.
Opens(blob) == blob = [adapter |-> This, gen |-> podGen]

\* userSecretsFrom in the pod that answers: headers, then the blob over them, or an error.
Deliver(q) ==
    LET r == sreq[q] IN
    /\ r.pc = "deliver"
    /\ sreq' = [sreq EXCEPT ![q] = NoSReq]
    /\ \/ /\ running
          /\ r.sealed = NoBlob \/ Opens(r.sealed)
          /\ \E held \in SUBSET SNames :
               /\ r.sealed = NoBlob => held = {}
               /\ child' = [n \in SNames |-> IF n \in held THEN Value("sealed", r.sealed.adapter, r.sealed.gen)
                                         ELSE r.plain[n]]
       \/ UNCHANGED child
    /\ UNCHANGED <<decls, vault, podGen, running>>

\* The pod is gone, the next one will have another key pair.
PodEnds ==
    /\ running' = FALSE
    /\ child' = NoValues
    /\ IF running THEN podGen < MaxGen /\ podGen' = podGen + 1 ELSE UNCHANGED podGen

\* meSecretsPut: any entry the client sends, whatever it was sealed for; its names are declared.
\* "A new credential must reach the child: recycle the user's pod"; an error of the release is
\* ignored.
MeSecretsPut(e) ==
    /\ vault' = e
    /\ PodEnds \/ UNCHANGED <<podGen, running, child>>
    /\ UNCHANGED <<decls, sreq>>

MeSecretsDelete ==
    /\ vault' = NoEntry
    /\ PodEnds \/ UNCHANGED <<podGen, running, child>>
    /\ UNCHANGED <<decls, sreq>>

\* A pod ends for another reason.
PodLost ==
    /\ running /\ PodEnds
    /\ UNCHANGED <<decls, vault, sreq>>

SecretsNext ==
    \/ \E q \in SReqs : SecretsEnsure(q) \/ ResolveAgain(q) \/ Deliver(q)
    \/ \E q \in SReqs, hdr \in Headers : Request(q, hdr)
    \/ MeSecretsDelete \/ PodLost
    \/ \E e \in Entries : MeSecretsPut(e)

SecretsSpec == SecretsInit /\ [][SecretsNext]_secretVars

-----------------------------------------------------------------------------

\* What the child of a pod runs with.  It was sealed for its adapter, and to this incarnation of
\* the pod: an entry stored under another adapter does not open (OpenEntry), nor does a blob
\* sealed before the pod was replaced (OpenFromClient).  And "a required item missing from every
\* source is an error": where secrets cannot come sealed, a child that runs with any has all the
\* required ones, also when the entry was replaced or deleted while its request was waiting for
\* the pod.
ChildSecrets ==
    /\ \A n \in SNames :
         /\ child[n].src = "store" => child[n].adapter = This
         /\ child[n].src = "sealed" => child[n].adapter = This /\ child[n].gen = podGen
    /\ (\E n \in SNames : child[n] # NoValue) /\ ~From("sealed")
         => \A n \in decls.required : child[n] # NoValue
=============================================================================
