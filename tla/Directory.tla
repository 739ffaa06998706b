----------------------------- MODULE Directory -----------------------------
(***************************************************************************)
(* The administration of one user: the admin API (admin/server.go) over    *)
(* Keycloak (adapters/directory/keycloak), whose operations are several    *)
(* calls each and interleave, and what becomes of the user's pods while    *)
(* tokens issued earlier still carry the groups the user had.              *)
(*                                                                         *)
(* A token is accepted until it expires; with introspection, until the     *)
(* user is logged out (how late that is noticed is in Credentials).        *)
(***************************************************************************)
CONSTANTS Admins,  \* requests of the admin API
          DReqs    \* requests of the user

VARIABLES
    kc,         \* the user in Keycloak
    introspect, \* identity.type is bearer_introspect
    jwt,        \* the token the user holds
    userPods,       \* server types the user has a pod of
    ask,        \* the user's requests: authorized for a server type, not yet with a pod
    admin,      \* the admin requests
    wanted,     \* history: the groups asked for since no admin request ran
    settled,    \* history: one of them succeeded
    loose       \* history: the exceptions PodsFollowDirectory makes

dirVars == <<kc, introspect, jwt, userPods, ask, admin, wanted, settled, loose>>

\* authorization.groups; "extra" is a group of Keycloak's that it does not name.
Doc ==
    [groups |-> [dev |-> [types |-> {"git"}, admin |-> FALSE, podsPerUser |-> 0, lazy |-> FALSE],
                 ops |-> [types |-> {"*"}, admin |-> TRUE, podsPerUser |-> 2, lazy |-> FALSE]],
     servers |-> {"git", "jira"}, podsPerUser |-> 1, always |-> {}, lazy |-> FALSE,
     lazyForGroups |-> {}, lazyForClients |-> {}]

NoJwt == [groups |-> {}, live |-> FALSE, held |-> FALSE]
Free == [at |-> "free"]
Finished == [at |-> "ended"]

P == INSTANCE Policy WITH authz <- Doc, rules <- {}, who <- kc

\* Server types the policy grants to a holder of these groups.
Granted(groups) == P!Grants(Doc, [groups |-> groups, adminScope |-> FALSE, client |-> ""]).types

\* ... and to the user as the directory has them now.
Entitled == IF kc.enabled THEN Granted(kc.groups) ELSE {}

QuietBut(M) == \A m \in Admins \ M : admin[m] \in {Free, Finished}
Quiet == QuietBut({})

-----------------------------------------------------------------------------
(***************************************************************************)
(* The admin requests.                                                     *)
(***************************************************************************)

Go(m, r) == admin' = [admin EXCEPT ![m] = r]

\* onlyKnownGroups: "so the UI cannot hand out Keycloak groups Juggernaut does not know about".
onlyKnownGroups(groups) == groups \subseteq DOMAIN Doc.groups

Note(groups) ==
    /\ wanted' = IF Quiet THEN {groups} ELSE wanted \cup {groups}
    /\ settled' = (settled /\ ~Quiet)

\* PUT /users/{id}/groups.
setGroups(m, groups) ==
    /\ admin[m] = Free /\ kc.exists /\ onlyKnownGroups(groups)
    /\ Go(m, [at |-> "read", want |-> groups, then |-> "release"])
    /\ Note(groups)
    /\ UNCHANGED <<kc, introspect, jwt, userPods, ask, loose>>

\* POST /users: Keycloak refuses a name it has; the user is there before the groups are, and
\* stays when one of the later calls fails.
createUser(m, groups) ==
    /\ admin[m] = Free /\ ~kc.exists /\ onlyKnownGroups(groups)
    /\ kc' = [kc EXCEPT !.exists = TRUE, !.enabled = TRUE]
    /\ IF groups = {} THEN Go(m, Finished) /\ UNCHANGED <<wanted, settled>>
       ELSE Go(m, [at |-> "read", want |-> groups, then |-> "end"]) /\ Note(groups)
    /\ UNCHANGED <<introspect, jwt, userPods, ask, loose>>

\* A call fails (one to a group that is gone, whose name is in the index of groups for up to
\* five minutes more, does), or a group is unknown: the request ends, and what was done stays.
Fails(m) ==
    /\ admin[m].at \in {"read", "change"}
    /\ Go(m, Finished)
    /\ loose' = (loose \/ admin[m].at = "change")
    /\ UNCHANGED <<kc, introspect, jwt, userPods, ask, wanted, settled>>

\* Mutant: only what was asked for is touched.
DiffKeeps(have, want) == [drop |-> {}, add |-> want \ have]

Diff(have, want) == [drop |-> have \ want, add |-> want \ have]

\* GetUserGroups, and what is to be deleted and added.
ReadGroups(m) ==
    LET want == admin[m].want
        diff == Diff(kc.groups, want) IN
    /\ admin[m].at = "read"
    /\ Go(m, [at |-> "change", want |-> want, drop |-> diff.drop, add |-> diff.add, then |-> admin[m].then])
    /\ UNCHANGED <<kc, introspect, jwt, userPods, ask, wanted, settled, loose>>

\* DeleteUserFromGroup, in any order; a group the user has already left is no error.
DeleteUserFromGroup(m, g) ==
    /\ admin[m].at = "change" /\ g \in admin[m].drop
    /\ kc' = [kc EXCEPT !.groups = @ \ {g}]
    /\ Go(m, [admin[m] EXCEPT !.drop = @ \ {g}])
    /\ loose' = (loose \/ admin[m].then = "end")
    /\ UNCHANGED <<introspect, jwt, userPods, ask, wanted, settled>>

\* AddUserToGroup, when nothing is left to delete.
AddUserToGroup(m, g) ==
    /\ admin[m].at = "change" /\ admin[m].drop = {} /\ g \in admin[m].add
    /\ kc' = [kc EXCEPT !.groups = @ \cup {g}]
    /\ Go(m, [admin[m] EXCEPT !.add = @ \ {g}])
    /\ UNCHANGED <<introspect, jwt, userPods, ask, wanted, settled, loose>>

\* SetGroups returns; createUser ends (password and mail change nothing here).
SetGroupsReturns(m) ==
    /\ admin[m].at = "change" /\ admin[m].drop = {} /\ admin[m].add = {}
    /\ settled' = TRUE
    /\ IF admin[m].then = "end" THEN Go(m, Finished) ELSE Go(m, [at |-> "release"])
    /\ UNCHANGED <<kc, introspect, jwt, userPods, ask, wanted, loose>>

\* PATCH /users/{id}: UpdateUser; a disabled user is logged out (an error is ignored) and
\* their pods are released.
patchUser(m, enabled) ==
    /\ admin[m] = Free /\ kc.exists
    /\ kc' = [kc EXCEPT !.enabled = enabled]
    /\ IF enabled THEN Go(m, Finished) ELSE Go(m, [at |-> "logout", must |-> FALSE])
    /\ UNCHANGED <<introspect, jwt, userPods, ask, wanted, settled, loose>>

\* DELETE /users/{id}/sessions.
killSessions(m) ==
    /\ admin[m] = Free /\ kc.exists
    /\ Go(m, [at |-> "logout", must |-> TRUE])
    /\ UNCHANGED <<kc, introspect, jwt, userPods, ask, wanted, settled, loose>>

\* LogoutAllSessions.
Logout(m) ==
    /\ admin[m].at = "logout"
    /\ \/ jwt' = [jwt EXCEPT !.live = FALSE] /\ Go(m, [at |-> "release"])
       \/ UNCHANGED jwt /\ Go(m, IF admin[m].must THEN Finished ELSE [at |-> "release"])
    /\ UNCHANGED <<kc, introspect, userPods, ask, wanted, settled, loose>>

\* Mutant: a group change leaves the pods to the reaper.
ReleaseAllNone(m) ==
    /\ admin[m].at = "release" /\ Go(m, Finished)
    /\ UNCHANGED <<kc, introspect, jwt, userPods, ask, wanted, settled, loose>>

\* ReleaseAll: the pods the table lists go; a pod whose release fails stays, and nobody is told.
ReleaseAll(m) ==
    /\ admin[m].at = "release" /\ Go(m, Finished)
    /\ \/ userPods' = {} /\ loose' = (loose /\ ~QuietBut({m}))
       \/ userPods # {} /\ userPods' \in SUBSET userPods \ {{}} /\ loose' = TRUE
    /\ UNCHANGED <<kc, introspect, jwt, ask, wanted, settled>>

-----------------------------------------------------------------------------
(***************************************************************************)
(* The user.                                                               *)
(***************************************************************************)

\* Keycloak issues a token with the groups of that moment.
Login ==
    /\ kc.exists /\ kc.enabled
    /\ jwt' = [groups |-> kc.groups, live |-> TRUE, held |-> TRUE]
    /\ UNCHANGED <<kc, introspect, userPods, ask, admin, wanted, settled, loose>>

JwtExpires ==
    /\ jwt.held /\ jwt' = NoJwt
    /\ UNCHANGED <<kc, introspect, userPods, ask, admin, wanted, settled, loose>>

\* Authn and Grants of the token.
MayAsk(t) == jwt.held /\ (introspect => jwt.live) /\ t \in Granted(jwt.groups)

UserAsks(r, t) ==
    /\ ask[r] = "none" /\ MayAsk(t)
    /\ ask' = [ask EXCEPT ![r] = t]
    /\ UNCHANGED <<kc, introspect, jwt, userPods, admin, wanted, settled, loose>>

\* EnsurePod, some time after.
UserGetsPod(r) ==
    /\ ask[r] # "none"
    /\ ask' = [ask EXCEPT ![r] = "none"]
    /\ userPods' = userPods \cup {ask[r]}
    /\ loose' = (loose \/ ask[r] \notin Entitled)
    /\ UNCHANGED <<kc, introspect, jwt, admin, wanted, settled>>

\* The pod is idle long enough, or the user deletes it.
PodEnds(t) ==
    /\ t \in userPods /\ userPods' = userPods \ {t}
    /\ loose' = (loose /\ (userPods' # {} \/ ~Quiet))
    /\ UNCHANGED <<kc, introspect, jwt, ask, admin, wanted, settled>>

DirInit ==
    /\ kc \in {[exists |-> FALSE, enabled |-> FALSE, groups |-> {}],
               [exists |-> TRUE, enabled |-> TRUE, groups |-> {"dev", "extra"}]}
    /\ introspect \in BOOLEAN
    /\ jwt = NoJwt /\ userPods = {} /\ ask = [r \in DReqs |-> "none"]
    /\ admin = [m \in Admins |-> Free] /\ wanted = {} /\ settled = FALSE /\ loose = FALSE

DirNext ==
    \/ \E m \in Admins :
         \/ \E groups \in SUBSET {"dev", "ops"} : setGroups(m, groups) \/ createUser(m, groups)
         \/ ReadGroups(m) \/ Fails(m) \/ SetGroupsReturns(m)
         \/ \E g \in P!AllGroups : DeleteUserFromGroup(m, g) \/ AddUserToGroup(m, g)
         \/ \E enabled \in BOOLEAN : patchUser(m, enabled)
         \/ killSessions(m) \/ Logout(m) \/ ReleaseAll(m)
    \/ Login \/ JwtExpires
    \/ \E r \in DReqs : UserGetsPod(r) \/ \E t \in Doc.servers : UserAsks(r, t)
    \/ \E t \in Doc.servers : PodEnds(t)

DirSpec == DirInit /\ [][DirNext]_dirVars

-----------------------------------------------------------------------------

DirTypeOK ==
    /\ kc \in [exists : BOOLEAN, enabled : BOOLEAN, groups : SUBSET P!AllGroups]
    /\ introspect \in BOOLEAN
    /\ jwt \in [groups : SUBSET P!AllGroups, live : BOOLEAN, held : BOOLEAN] /\ (jwt.live => jwt.held)
    /\ userPods \subseteq Doc.servers /\ ask \in [DReqs -> Doc.servers \cup {"none"}]
    /\ \A m \in Admins : admin[m].at \in {"free", "read", "change", "logout", "release", "ended"}
    /\ wanted \subseteq SUBSET P!AllGroups /\ settled \in BOOLEAN /\ loose \in BOOLEAN

\* SetGroups "makes the user's memberships exactly groups".  Requests that overlap are not
\* serialised, and some may fail half way; when all have ended and one of them succeeded, a
\* group that all asked for is the user's, and one that none asked for is not.
GroupsAgree ==
    Quiet /\ settled =>
        \A g \in P!AllGroups :
            /\ (\A want \in wanted : g \in want) => g \in kc.groups
            /\ (\A want \in wanted : g \notin want) => g \notin kc.groups

\* "Disabling a user ends their pods immediately" and "running pods for revoked types are
\* killed": when no admin request is running, the user has a pod only of a type the directory
\* grants them, except after a request whose token was older than the change, a call to
\* Keycloak or a release that failed, or a createUser that took back groups another request
\* gave the new user.
PodsFollowDirectory == Quiet /\ ~loose => userPods \subseteq Entitled
=============================================================================
