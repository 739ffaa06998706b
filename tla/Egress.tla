------------------------------- MODULE Egress -------------------------------
(***************************************************************************)
(* The fallback egress enforcer.  The controller publishes, by pod         *)
(* address, the destinations of each session in a ConfigMap                *)
(* (adapters/egress/proxy, netpol/allowlist.go); the kubelet mounts it     *)
(* into the proxy some time later, which reloads it and admits CONNECT     *)
(* requests by the address they come from (egress/proxy.go).  Addresses    *)
(* are reused as soon as a pod is gone.                                    *)
(*                                                                         *)
(* A session name is used once; reconciles run one at a time.              *)
(***************************************************************************)
EXTENDS Naturals, Sequences, FiniteSets

CONSTANTS Sess,   \* sessions
          Ips,    \* pod addresses
          NoIp, NoSess

ASSUME EgressAssumption == NoIp \notin Ips /\ NoSess \notin Sess

VARIABLES
    addr,   \* session -> address of its pod, NoIp: there is no pod
    podsSeen, \* the same, as the controller's cache has it: an earlier state
    phase,  \* session -> phase of the Session object
    lag,    \* sessions that are Ready, which the controller's cache does not show yet
    missed, \* history: Ready sessions whose pod was replaced by a reconcile that saw no Ready
    cm,     \* the ConfigMap: address -> session of the entry
    allow,  \* the proxy's list; before the first load all is refused
    tunnel  \* history: the last connection the proxy made

egressVars == <<addr, podsSeen, phase, lag, missed, cm, allow, tunnel>>

Lists == [Ips -> Sess \cup {NoSess}]
NoTunnel == [current |-> FALSE]
EmptyList == [ip \in Ips |-> NoSess]

\* Names are sequences of labels, the last one with the port.  Two server types, one of which
\* declares a wildcard.
HostRules(s) == IF s = CHOOSE t \in Sess : TRUE THEN {<<"*", "corp">>} ELSE {<<"api", "net">>}
Dests == {<<"a", "corp">>, <<"b", "a", "corp">>, <<"corp">>, <<"api", "net">>}

\* Mutant: the wildcard stands for any number of labels.
MatchesDeep(rule, host) ==
    \/ rule = host
    \/ rule[1] = "*" /\ Len(host) >= Len(rule) /\ host[Len(host)] = rule[2]

\* Allowlist.Allows: the name itself, or one label below a wildcard.
Matches(rule, host) ==
    \/ rule = host
    \/ rule[1] = "*" /\ Len(host) > 0 /\ Tail(host) = Tail(rule)

Allows(list, ip, host) == list[ip] # NoSess /\ \E rule \in HostRules(list[ip]) : Matches(rule, host)

-----------------------------------------------------------------------------
(***************************************************************************)
(* The cluster and the controller.                                         *)
(***************************************************************************)

\* The phase a reconcile acts on.
Seen(s) == IF s \in lag THEN "starting" ELSE phase[s]

\* Reconcile of a session without a pod, as the caches have it, creates one (also after the
\* phase Failed), which gets an address that no pod has.
PodStarts(s) ==
    /\ Seen(s) = "starting" /\ podsSeen[s] = NoIp /\ addr[s] = NoIp
    /\ \E ip \in Ips : (\A t \in Sess : addr[t] # ip) /\ addr' = [addr EXCEPT ![s] = ip]
    /\ missed' = IF phase[s] = "ready" THEN missed \cup {s} ELSE missed
    /\ UNCHANGED <<podsSeen, phase, lag, cm, allow, tunnel>>

\* The pod is gone: evicted, or at the end of the session; its address is free.
PodGone(s) ==
    /\ addr[s] # NoIp /\ addr' = [addr EXCEPT ![s] = NoIp]
    /\ UNCHANGED <<podsSeen, phase, lag, missed, cm, allow, tunnel>>

\* The controller's watch of the pods, or of a session, catches up.
SeePods ==
    /\ podsSeen # addr /\ podsSeen' = addr
    /\ UNCHANGED <<addr, phase, lag, missed, cm, allow, tunnel>>

SeeSession(s) ==
    /\ s \in lag /\ lag' = lag \ {s}
    /\ UNCHANGED <<addr, podsSeen, phase, missed, cm, allow, tunnel>>

\* Mutant: the address of the pod is published under whatever session had it first.
OnReadyKeeps(s) ==
    /\ phase[s] = "starting" /\ podsSeen[s] # NoIp
    /\ cm' = [cm EXCEPT ![podsSeen[s]] = IF @ = NoSess THEN s ELSE @]
    /\ phase' = [phase EXCEPT ![s] = "ready"] /\ lag' = lag \cup {s}
    /\ UNCHANGED <<addr, podsSeen, missed, allow, tunnel>>

\* Reconcile of a session whose pod is ready, as the cache has it: OnReady publishes its entry
\* over another one of that address, before the status says Ready.
OnReady(s) ==
    /\ phase[s] = "starting" /\ podsSeen[s] # NoIp
    /\ cm' = [cm EXCEPT ![podsSeen[s]] = s]
    /\ phase' = [phase EXCEPT ![s] = "ready"] /\ lag' = lag \cup {s}
    /\ UNCHANGED <<addr, podsSeen, missed, allow, tunnel>>

\* The entry is published and the update of the status fails, or is refused because the session
\* is Ready already.
OnReadyUnreported(s) ==
    /\ Seen(s) = "starting" /\ podsSeen[s] # NoIp /\ cm[podsSeen[s]] # s
    /\ cm' = [cm EXCEPT ![podsSeen[s]] = s]
    /\ UNCHANGED <<addr, podsSeen, phase, lag, missed, allow, tunnel>>

\* The pod disappeared, failed, or is not ready for a while.
NotReady(s) ==
    /\ Seen(s) = "ready"
    /\ phase' = [phase EXCEPT ![s] = "starting"] /\ missed' = missed \ {s}
    /\ UNCHANGED <<addr, podsSeen, lag, cm, allow, tunnel>>

\* The session is to end; the entry stays until the finalizer runs.
SessionEnds(s) ==
    /\ phase[s] \in {"starting", "ready"}
    /\ phase' = [phase EXCEPT ![s] = "ending"] /\ lag' = lag \ {s} /\ missed' = missed \ {s}
    /\ UNCHANGED <<addr, podsSeen, cm, allow, tunnel>>

\* The list without the entries of a session.
Cleaned(s) == [ip \in Ips |-> IF cm[ip] = s THEN NoSess ELSE cm[ip]]

\* The finalizer: the pod is deleted, OnCleanup, the object goes.
OnCleanup(s) ==
    /\ phase[s] = "ending"
    /\ cm' = Cleaned(s)
    /\ phase' = [phase EXCEPT ![s] = "gone"]
    /\ UNCHANGED <<addr, podsSeen, lag, missed, allow, tunnel>>

-----------------------------------------------------------------------------
(***************************************************************************)
(* The proxy.                                                              *)
(***************************************************************************)

\* The kubelet has mounted the ConfigMap as it now is, and LoadAllowlist reads it, at the start,
\* on an event or on the ticker.
LoadAllowlist ==
    /\ allow # cm /\ allow' = cm
    /\ UNCHANGED <<addr, podsSeen, phase, lag, missed, cm, tunnel>>

\* Mutant: the first address a name resolves to is dialled.
TargetFirst(ips) == ips[1]

\* The first address that is not denied; "none" if all are.
Target(ips) ==
    LET good == {i \in 1 .. Len(ips) : ips[i] # "denied"} IN
    IF good = {} THEN "none" ELSE ips[CHOOSE i \in good : \A j \in good : i <= j]

\* ServeHTTP: CONNECT from the pod of a session, whose name the proxy resolves itself; it dials
\* the address it has checked.
ServeHTTP(s, host, ips) ==
    /\ addr[s] # NoIp /\ Allows(allow, addr[s], host)
    /\ Target(ips) # "none"
    /\ tunnel' = [of |-> s, host |-> host, target |-> Target(ips),
                   current |-> allow = cm /\ phase[s] = "ready" /\ s \notin missed]
    /\ UNCHANGED <<addr, podsSeen, phase, lag, missed, cm, allow>>

Resolutions == {<<"public">>, <<"denied", "public">>, <<"denied">>}

EgressInit ==
    /\ addr = [s \in Sess |-> NoIp] /\ podsSeen = addr
    /\ phase = [s \in Sess |-> "starting"] /\ lag = {} /\ missed = {}
    /\ cm = EmptyList /\ allow = EmptyList /\ tunnel = NoTunnel

EgressNext ==
    \/ \E s \in Sess :
         \/ PodStarts(s) \/ PodGone(s) \/ OnReady(s) \/ OnReadyUnreported(s)
         \/ SeeSession(s) \/ NotReady(s) \/ SessionEnds(s) \/ OnCleanup(s)
         \/ \E host \in Dests, ips \in Resolutions : ServeHTTP(s, host, ips)
    \/ SeePods \/ LoadAllowlist

EgressSpec == EgressInit /\ [][EgressNext]_egressVars

-----------------------------------------------------------------------------

EgressTypeOK ==
    /\ addr \in [Sess -> Ips \cup {NoIp}] /\ podsSeen \in [Sess -> Ips \cup {NoIp}]
    /\ phase \in [Sess -> {"starting", "ready", "ending", "gone"}]
    /\ missed \subseteq Sess /\ \A s \in lag : phase[s] = "ready"
    /\ cm \in Lists /\ allow \in Lists
    /\ tunnel # NoTunnel => tunnel.of \in Sess /\ tunnel.host \in Dests /\ tunnel.target = "public"

\* The pod of a session that is Ready is the one its address stands for in the published list,
\* however addresses were reused and in whatever order other sessions end: OnReady takes the
\* address over, and OnCleanup of another session leaves it alone.  The exception is a pod that
\* was lost, and created again, before the controller's cache showed its session Ready: nobody
\* publishes the address of the second pod then.  A session that is gone has no entry left for a
\* later pod to inherit.
ListFollowsPods ==
    /\ \A s \in Sess \ missed : phase[s] = "ready" /\ addr[s] # NoIp => cm[addr[s]] = s
    /\ \A s \in Sess, ip \in Ips : phase[s] = "gone" => cm[ip] # s

\* Once its session is Ready (with the same exception) and the proxy has the current list, a pod
\* is connected only to what its own server type declares: a wildcard is one label.
TunnelsDeclared ==
    tunnel.current =>
        \E rule \in HostRules(tunnel.of) :
            \/ rule = tunnel.host
            \/ rule[1] = "*" /\ Len(tunnel.host) = Len(rule) /\ Tail(rule) = Tail(tunnel.host)
=============================================================================
