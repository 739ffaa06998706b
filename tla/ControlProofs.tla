--------------------------- MODULE ControlProofs ----------------------------
(***************************************************************************)
(* What is configured and who may change it: the groups of a user in the   *)
(* directory, the configuration, its policy, the syncer, the egress lists, *)
(* and the parts side by side.                                             *)
(***************************************************************************)
EXTENDS MCControl, TLAPS

-----------------------------------------------------------------------------
(***************************************************************************)
(* Directory, for any number of admin requests that overlap and of         *)
(* requests of the user.  GroupsInv: a request that has read the groups    *)
(* deletes no group it wants and adds none it does not, and what all       *)
(* requests agree on is done or on its list.  PodsInv: when the user has a *)
(* pod that is no longer granted, some request is on its way to release    *)
(* it, or one of the exceptions has happened.                              *)
(***************************************************************************)

Known == {"dev", "ops"}

AdminRecs ==
    {Free, Finished, [at |-> "release"]}
    \cup [at : {"read"}, want : SUBSET Known, then : {"release", "end"}]
    \cup [at : {"change"}, want : SUBSET Known, drop : SUBSET P!AllGroups, add : SUBSET P!AllGroups,
          then : {"release", "end"}]
    \cup [at : {"logout"}, must : BOOLEAN]

\* A group that all requests want, and one that none does.
All(g) == \A want \in wanted : g \in want
None(g) == \A want \in wanted : g \notin want

\* What a request that has read the groups has still to do.
Does(r) ==
    /\ r.drop \cap r.want = {} /\ r.add \subseteq r.want
    /\ \A g \in P!AllGroups :
         /\ All(g) => g \in kc.groups \/ g \in r.add
         /\ None(g) => g \notin kc.groups \/ g \in r.drop

\* The request will release the pods, or end with an error.
WillRelease(r) ==
    r.at = "release" \/ (r.at = "change" /\ r.then = "release") \/ (r.at = "logout" /\ ~r.must)

\* Nothing is left to do where the requests agree.
Agreed == \A g \in P!AllGroups : (All(g) => g \in kc.groups) /\ (None(g) => g \notin kc.groups)

GroupsInv ==
    /\ \A m \in Admins :
         /\ admin[m].at \in {"read", "change"} => admin[m].want \in wanted
         /\ admin[m].at = "change" => Does(admin[m])
    /\ settled => Agreed

PodsInv == ~loose => userPods \subseteq Entitled \/ \E m \in Admins : WillRelease(admin[m])

DirIInv == DirTypeOK /\ admin \in [Admins -> AdminRecs] /\ GroupsInv /\ PodsInv

\* A request's record, by its stage.
LEMMA AdminShapes ==
    ASSUME NEW r \in AdminRecs
    PROVE  /\ r.at \in {"free", "read", "change", "logout", "release", "ended"}
           /\ r.at = "read" => r.want \subseteq Known /\ r.then \in {"release", "end"}
           /\ r.at = "change" =>
                /\ r.want \subseteq Known /\ r.drop \subseteq P!AllGroups /\ r.add \subseteq P!AllGroups
                /\ r.then \in {"release", "end"}
                /\ r = [at |-> "change", want |-> r.want, drop |-> r.drop, add |-> r.add, then |-> r.then]
           /\ r.at \in {"free", "ended"} => r \in {Free, Finished}
  BY DEF AdminRecs, Free, Finished

\* More groups grant more server types.
LEMMA GrantedGrows ==
    ASSUME NEW A, NEW B, A \subseteq B
    PROVE  Granted(A) \subseteq Granted(B)
<1>1. \A C : Granted(C) = UNION {P!TypesOf(Doc, g) : g \in {g \in DOMAIN Doc.groups : g \in C \cup Doc.always}}
  BY Zenon DEF Granted, P!Grants, P!GroupsOf
<1> QED
  BY Zenon, <1>1

\* A step of one request: what it may change, and what it must have done to its record.
LEMMA AdminMove ==
    ASSUME DirIInv, NEW m \in Admins, NEW r \in AdminRecs, Go(m, r), wanted \subseteq wanted',
           r.at \in {"read", "change"} => r.want \in wanted', r.at = "change" => Does(r)',
           \A g \in P!AllGroups :
               /\ All(g)' /\ g \in kc.groups => g \in kc'.groups
               /\ None(g)' /\ g \notin kc.groups => g \notin kc'.groups,
           settled' => settled \/ Agreed'
    PROVE  admin' \in [Admins -> AdminRecs] /\ GroupsInv'
<1>1. admin' = [admin EXCEPT ![m] = r] /\ admin \in [Admins -> AdminRecs]
  BY Zenon DEF Go, DirIInv
<1>2. admin' \in [Admins -> AdminRecs] /\ \A n \in Admins : admin'[n] = IF n = m THEN r ELSE admin[n]
  BY Zenon, <1>1
<1>3. \A g : (All(g)' => All(g)) /\ (None(g)' => None(g))
  BY Zenon DEF All, None
<1>4. ASSUME NEW n \in Admins
      PROVE  /\ admin'[n].at \in {"read", "change"} => admin'[n].want \in wanted'
             /\ admin'[n].at = "change" => Does(admin[n])'
  <2>1. CASE n = m
    <3>1. admin'[n] = r
      BY Zenon, <1>2, <2>1
    <3> QED
      BY Zenon, <3>1 DEF Does
  <2>2. CASE n # m
    <3>1. PICK a \in AdminRecs : a = admin[n] /\ a = admin'[n]
      BY Zenon, <1>1, <1>2, <2>2
    <3>2. a.at \in {"read", "change"} => a.want \in wanted
      BY Zenon, <3>1 DEF DirIInv, GroupsInv
    <3>3. a.at = "change" => Does(a)
      BY Zenon, <3>1 DEF DirIInv, GroupsInv
    <3>4. Does(a) => Does(a)'
      BY Zenon, <1>3 DEF Does
    <3>5. a.at = "change" => Does(a)'
      BY Zenon, <3>3, <3>4
    <3>6. a.at = "change" => Does(admin[n])'
      BY Zenon, <3>1, <3>5 DEF Does
    <3> QED
      BY Zenon, <3>1, <3>2, <3>6
  <2> QED
    BY Zenon, <2>1, <2>2
<1>5. settled' => Agreed'
  <2>1. Agreed => Agreed'
    BY Zenon, <1>3 DEF Agreed
  <2> QED
    BY Zenon, <2>1 DEF DirIInv, GroupsInv
<1> QED
  BY Zenon, <1>2, <1>4, <1>5 DEF GroupsInv

\* A request for groups begins: when it is alone the history begins anew.
LEMMA NoteMove ==
    ASSUME DirIInv, NEW m \in Admins, NEW groups \in SUBSET Known, NEW t \in {"release", "end"}, admin[m] = Free,
           Go(m, [at |-> "read", want |-> groups, then |-> t]), Note(groups), kc'.groups = kc.groups
    PROVE  /\ admin' \in [Admins -> AdminRecs] /\ GroupsInv'
           /\ wanted' \subseteq SUBSET P!AllGroups /\ settled' \in BOOLEAN
<1>1. PICK r : r = [at |-> "read", want |-> groups, then |-> t]
  BY Zenon
<1>2. r \in AdminRecs /\ r.at = "read" /\ r.want = groups /\ Go(m, r)
  BY Zenon, <1>1 DEF AdminRecs
<1>3. wanted' \subseteq SUBSET P!AllGroups
  <2>1. groups \in SUBSET P!AllGroups
    BY Zenon DEF Known, P!AllGroups
  <2>2. wanted \subseteq SUBSET P!AllGroups
    BY Zenon DEF DirIInv, DirTypeOK
  <2>3. wanted' = {groups} \/ wanted' = wanted \cup {groups}
    BY Zenon DEF Note
  <2> QED
    BY Zenon, <2>1, <2>2, <2>3
<1>4. settled' \in BOOLEAN
  BY Zenon DEF Note
<1>5. groups \in wanted'
  BY Zenon DEF Note
<1>6. CASE ~Quiet
  <2>1. wanted \subseteq wanted'
    BY Zenon, <1>6 DEF Note
  <2>2. settled' => settled
    BY Zenon DEF Note
  <2>3. admin' \in [Admins -> AdminRecs] /\ GroupsInv'
    BY Zenon, <1>2, <1>5, <2>1, <2>2, AdminMove
  <2> QED
    BY Zenon, <1>3, <1>4, <2>3
<1>7. CASE Quiet
  <2>1. \A n \in Admins : admin[n].at \notin {"read", "change"}
    BY <1>7 DEF Quiet, QuietBut, Free, Finished
  <2>2. ~settled'
    BY Zenon, <1>7 DEF Note
  <2>3. admin' = [admin EXCEPT ![m] = r] /\ admin \in [Admins -> AdminRecs]
    BY Zenon, <1>2 DEF Go, DirIInv
  <2>4. admin' \in [Admins -> AdminRecs] /\ \A n \in Admins : admin'[n] = IF n = m THEN r ELSE admin[n]
    BY Zenon, <1>2, <2>3
  <2>5. \A n \in Admins : admin'[n].at # "change" /\ (admin'[n].at = "read" => admin'[n].want \in wanted')
    BY Zenon, <1>2, <1>5, <2>1, <2>4
  <2>6. GroupsInv'
    BY Zenon, <2>2, <2>5 DEF GroupsInv
  <2> QED
    BY Zenon, <1>3, <1>4, <2>4, <2>6
<1> QED
  BY Zenon, <1>6, <1>7

\* A step of one request, and what it means for the pods.
LEMMA PodsMove ==
    ASSUME DirIInv, NEW m \in Admins, NEW r \in AdminRecs, Go(m, r),
           userPods' = userPods, loose => loose',
           WillRelease(admin[m]) => WillRelease(r) \/ loose',
           Entitled \subseteq Entitled' \/ WillRelease(r) \/ loose'
    PROVE  PodsInv'
<1>1. admin' = [admin EXCEPT ![m] = r] /\ admin \in [Admins -> AdminRecs]
  BY Zenon DEF Go, DirIInv
<1>2. \A n \in Admins : admin'[n] = IF n = m THEN r ELSE admin[n]
  BY Zenon, <1>1
<1>3. CASE loose'
  BY Zenon, <1>3 DEF PodsInv
<1>4. CASE WillRelease(r)
  BY Zenon, <1>2, <1>4 DEF PodsInv, WillRelease
<1>5. CASE ~loose' /\ ~WillRelease(r)
  <2>1. ~loose /\ ~WillRelease(admin[m]) /\ Entitled \subseteq Entitled'
    BY Zenon, <1>5
  <2>2. CASE userPods \subseteq Entitled
    <3>1. userPods' \subseteq Entitled'
      BY Zenon, <2>1, <2>2
    <3> QED
      BY Zenon, <3>1 DEF PodsInv
  <2>3. CASE ~(userPods \subseteq Entitled)
    <3>1. PICK n \in Admins : WillRelease(admin[n])
      BY Zenon, <2>1, <2>3 DEF DirIInv, PodsInv
    <3>2. n # m /\ admin'[n] = admin[n]
      BY Zenon, <1>2, <2>1, <3>1
    <3>3. WillRelease(admin[n])'
      BY Zenon, <3>1, <3>2 DEF WillRelease
    <3> QED
      BY Zenon, <3>3 DEF PodsInv
  <2> QED
    BY Zenon, <2>2, <2>3
<1> QED
  BY Zenon, <1>3, <1>4, <1>5

\* The type invariant, when a step changes the requests and the user in the directory only.
LEMMA TypeMove ==
    ASSUME DirIInv, admin' \in [Admins -> AdminRecs],
           kc' \in [exists : BOOLEAN, enabled : BOOLEAN, groups : SUBSET P!AllGroups],
           UNCHANGED <<introspect, jwt, userPods, ask>>, wanted' \subseteq SUBSET P!AllGroups,
           settled' \in BOOLEAN, loose' \in BOOLEAN
    PROVE  DirTypeOK'
<1>1. \A m \in Admins : admin'[m].at \in {"free", "read", "change", "logout", "release", "ended"}
  BY Zenon, AdminShapes
<1>2. /\ introspect' \in BOOLEAN
      /\ jwt' \in [groups : SUBSET P!AllGroups, live : BOOLEAN, held : BOOLEAN] /\ (jwt'.live => jwt'.held)
      /\ userPods' \subseteq Doc.servers /\ ask' \in [DReqs -> Doc.servers \cup {"none"}]
  BY Zenon DEF DirIInv, DirTypeOK
<1> QED
  BY Zenon, <1>1, <1>2 DEF DirTypeOK

\* The user keeps the server types they are entitled to.
LEMMA EntitledGrows ==
    ASSUME kc.enabled => kc'.enabled, kc.groups \subseteq kc'.groups
    PROVE  Entitled \subseteq Entitled'
<1>1. Granted(kc.groups) \subseteq Granted(kc'.groups)
  BY Zenon, GrantedGrows
<1>2. Granted(kc.groups)' = Granted(kc'.groups)
  BY Zenon DEF Granted
<1> QED
  BY Zenon, <1>1, <1>2 DEF Entitled

\* PUT groups: the request is written down, nothing else happens yet.
LEMMA SetGroupsInv ==
    ASSUME DirIInv, NEW m \in Admins, NEW groups \in SUBSET Known, setGroups(m, groups)
    PROVE  DirIInv'
<1>1. PICK r : r = [at |-> "read", want |-> groups, then |-> "release"]
  BY Zenon
<1>2. r \in AdminRecs /\ Go(m, r) /\ admin[m] = Free /\ ~WillRelease(admin[m])
  BY <1>1 DEF AdminRecs, setGroups, WillRelease, Free
<1>3. /\ admin' \in [Admins -> AdminRecs] /\ GroupsInv'
      /\ wanted' \subseteq SUBSET P!AllGroups /\ settled' \in BOOLEAN
  BY Zenon, NoteMove DEF setGroups
<1>4. Entitled' = Entitled
  BY Zenon DEF setGroups, Entitled, Granted
<1>5. userPods' = userPods /\ loose' = loose
  BY Zenon DEF setGroups
<1>6. PodsInv'
  BY Zenon, <1>2, <1>4, <1>5, PodsMove
<1>7. DirTypeOK'
  <2>1. kc' \in [exists : BOOLEAN, enabled : BOOLEAN, groups : SUBSET P!AllGroups] /\ loose' \in BOOLEAN
    BY Zenon, <1>5 DEF setGroups, DirIInv, DirTypeOK
  <2>2. UNCHANGED <<introspect, jwt, userPods, ask>>
    BY Zenon DEF setGroups
  <2> QED
    BY Zenon, <1>3, <2>1, <2>2, TypeMove
<1> QED
  BY Zenon, <1>3, <1>6, <1>7 DEF DirIInv

\* POST users: the user is there and enabled, with no group yet.
LEMMA CreateUserInv ==
    ASSUME DirIInv, NEW m \in Admins, NEW groups \in SUBSET Known, createUser(m, groups)
    PROVE  DirIInv'
<1>0. /\ kc'.groups = kc.groups /\ kc'.enabled = TRUE
      /\ kc' \in [exists : BOOLEAN, enabled : BOOLEAN, groups : SUBSET P!AllGroups]
  BY Zenon DEF createUser, DirIInv, DirTypeOK
<1>1. PICK r : r = IF groups = {} THEN Finished ELSE [at |-> "read", want |-> groups, then |-> "end"]
  BY Zenon
<1>2. r \in AdminRecs /\ Go(m, r) /\ admin[m] = Free /\ ~WillRelease(admin[m])
  BY <1>1 DEF AdminRecs, createUser, WillRelease, Free, Finished
<1>3. /\ admin' \in [Admins -> AdminRecs] /\ GroupsInv'
      /\ wanted' \subseteq SUBSET P!AllGroups /\ settled' \in BOOLEAN
  <2>1. CASE groups # {}
    BY Zenon, <1>0, <2>1, NoteMove DEF createUser
  <2>2. CASE groups = {}
    <3>1. wanted' = wanted /\ settled' = settled /\ r.at \notin {"read", "change"}
      BY Zenon, <1>1, <2>2 DEF createUser, Finished
    <3>2. admin' \in [Admins -> AdminRecs] /\ GroupsInv'
      BY Zenon, <1>0, <1>2, <3>1, AdminMove
    <3> QED
      BY Zenon, <3>1, <3>2 DEF DirIInv, DirTypeOK
  <2> QED
    BY Zenon, <2>1, <2>2
<1>4. Entitled \subseteq Entitled'
  BY Zenon, <1>0, EntitledGrows
<1>5. userPods' = userPods /\ loose' = loose
  BY Zenon DEF createUser
<1>6. PodsInv'
  BY Zenon, <1>2, <1>4, <1>5, PodsMove
<1>7. DirTypeOK'
  <2>1. loose' \in BOOLEAN
    BY Zenon, <1>5 DEF DirIInv, DirTypeOK
  <2>2. UNCHANGED <<introspect, jwt, userPods, ask>>
    BY Zenon DEF createUser
  <2> QED
    BY Zenon, <1>0, <1>3, <2>1, <2>2, TypeMove
<1> QED
  BY Zenon, <1>3, <1>6, <1>7 DEF DirIInv

\* A step of one request that neither begins nor continues a change of groups.
LEMMA StageMove ==
    ASSUME DirIInv, NEW m \in Admins, NEW r \in AdminRecs, Go(m, r), r.at \notin {"read", "change"},
           kc' \in [exists : BOOLEAN, enabled : BOOLEAN, groups : SUBSET P!AllGroups], kc'.groups = kc.groups,
           UNCHANGED <<introspect, jwt, userPods, ask, wanted, settled>>, loose' \in BOOLEAN, loose => loose',
           WillRelease(admin[m]) => WillRelease(r) \/ loose',
           (kc.enabled => kc'.enabled) \/ WillRelease(r)
    PROVE  DirIInv'
<1>1. admin' \in [Admins -> AdminRecs] /\ GroupsInv'
  BY Zenon, AdminMove
<1>2. Entitled \subseteq Entitled' \/ WillRelease(r)
  BY Zenon, EntitledGrows
<1>3. PodsInv'
  BY Zenon, <1>2, PodsMove
<1>4. wanted' \subseteq SUBSET P!AllGroups /\ settled' \in BOOLEAN
  BY Zenon DEF DirIInv, DirTypeOK
<1>5. DirTypeOK'
  BY Zenon, <1>1, <1>4, TypeMove
<1> QED
  BY Zenon, <1>1, <1>3, <1>5 DEF DirIInv

\* A request that fails while it changes groups is an exception; before, it has changed nothing.
LEMMA FailsInv == ASSUME DirIInv, NEW m \in Admins, Fails(m) PROVE DirIInv'
<1>1. Finished \in AdminRecs /\ Finished.at = "ended" /\ Go(m, Finished)
  BY Zenon DEF AdminRecs, Finished, Fails
<1>2. WillRelease(admin[m]) => loose'
  BY Zenon DEF Fails, WillRelease
<1>3. loose' \in BOOLEAN /\ (loose => loose')
  BY Zenon DEF Fails
<1>4. /\ kc' = kc /\ kc' \in [exists : BOOLEAN, enabled : BOOLEAN, groups : SUBSET P!AllGroups]
      /\ UNCHANGED <<introspect, jwt, userPods, ask, wanted, settled>>
  BY Zenon DEF Fails, DirIInv, DirTypeOK
<1> QED
  BY Zenon, <1>1, <1>2, <1>3, <1>4, StageMove

\* PATCH: a user who is disabled is one whose pods will be released.
LEMMA PatchUserInv == ASSUME DirIInv, NEW m \in Admins, NEW enabled \in BOOLEAN, patchUser(m, enabled) PROVE DirIInv'
<1>1. PICK r : r = IF enabled THEN Finished ELSE [at |-> "logout", must |-> FALSE]
  BY Zenon
<1>2. r \in AdminRecs /\ Go(m, r) /\ r.at \notin {"read", "change"} /\ ~WillRelease(admin[m])
  BY <1>1 DEF AdminRecs, patchUser, WillRelease, Free, Finished
<1>3. enabled \/ WillRelease(r)
  BY Zenon, <1>1 DEF WillRelease
<1>4. /\ kc'.groups = kc.groups /\ kc'.enabled = enabled
      /\ kc' \in [exists : BOOLEAN, enabled : BOOLEAN, groups : SUBSET P!AllGroups]
  BY Zenon DEF patchUser, DirIInv, DirTypeOK
<1>5. (kc.enabled => kc'.enabled) \/ WillRelease(r)
  BY Zenon, <1>3, <1>4
<1>6. UNCHANGED <<introspect, jwt, userPods, ask, wanted, settled>> /\ loose' \in BOOLEAN /\ (loose => loose')
  BY Zenon DEF patchUser, DirIInv, DirTypeOK
<1> QED
  BY Zenon, <1>2, <1>4, <1>5, <1>6, StageMove

\* DELETE sessions.
LEMMA KillSessionsInv == ASSUME DirIInv, NEW m \in Admins, killSessions(m) PROVE DirIInv'
<1>1. PICK r : r = [at |-> "logout", must |-> TRUE]
  BY Zenon
<1>2. r \in AdminRecs /\ Go(m, r) /\ r.at \notin {"read", "change"} /\ ~WillRelease(admin[m])
  BY <1>1 DEF AdminRecs, killSessions, WillRelease, Free
<1>3. /\ kc' = kc /\ kc' \in [exists : BOOLEAN, enabled : BOOLEAN, groups : SUBSET P!AllGroups]
      /\ UNCHANGED <<introspect, jwt, userPods, ask, wanted, settled>>
  BY Zenon DEF killSessions, DirIInv, DirTypeOK
<1>4. loose' \in BOOLEAN /\ (loose => loose')
  BY Zenon DEF killSessions, DirIInv, DirTypeOK
<1> QED
  BY Zenon, <1>2, <1>3, <1>4, StageMove

\* SetGroups computes what it has to do from the groups as they are.
LEMMA ReadGroupsInv == ASSUME DirIInv, NEW m \in Admins, ReadGroups(m) PROVE DirIInv'
<1>0. PICK a \in AdminRecs : a = admin[m]
  BY Zenon DEF DirIInv
<1>1. a.at = "read" /\ a.want \subseteq Known /\ a.then \in {"release", "end"} /\ a.want \in wanted
  BY Zenon, <1>0, AdminShapes DEF ReadGroups, DirIInv, GroupsInv
<1>2. PICK r : r = [at |-> "change", want |-> a.want, drop |-> kc.groups \ a.want, add |-> a.want \ kc.groups,
                    then |-> a.then]
  BY Zenon
<1>3. kc.groups \subseteq P!AllGroups
  BY Zenon DEF DirIInv, DirTypeOK
<1>4. r \in AdminRecs
  BY Zenon, <1>1, <1>2, <1>3 DEF AdminRecs, Known, P!AllGroups
<1>5. Go(m, r)
  BY Zenon, <1>0, <1>2 DEF ReadGroups, Diff
<1>6. UNCHANGED <<kc, introspect, jwt, userPods, ask, wanted, settled, loose>>
  BY Zenon DEF ReadGroups
<1>7. Does(r)
  BY Zenon, <1>1, <1>2 DEF Does, All, None
<1>8. Does(r)'
  BY Zenon, <1>6, <1>7 DEF Does, All, None
<1>9. admin' \in [Admins -> AdminRecs] /\ GroupsInv'
  BY Zenon, <1>1, <1>2, <1>4, <1>5, <1>6, <1>8, AdminMove
<1>10. ~WillRelease(admin[m])
  BY Zenon, <1>0, <1>1 DEF WillRelease
<1>11. Entitled' = Entitled
  BY Zenon, <1>6 DEF Entitled, Granted
<1>12. PodsInv'
  BY Zenon, <1>4, <1>5, <1>6, <1>10, <1>11, PodsMove
<1>13. DirTypeOK'
  BY Zenon, <1>6, <1>9, TypeMove DEF DirIInv, DirTypeOK
<1> QED
  BY Zenon, <1>9, <1>12, <1>13 DEF DirIInv

\* DeleteUserFromGroup takes away a group that the request does not want.
LEMMA DeleteGroupInv ==
    ASSUME DirIInv, NEW m \in Admins, NEW g \in P!AllGroups, DeleteUserFromGroup(m, g)
    PROVE  DirIInv'
<1>0. PICK a \in AdminRecs : a = admin[m]
  BY Zenon DEF DirIInv
<1>1. /\ a.at = "change" /\ g \in a.drop /\ a.want \in wanted /\ Does(a)
      /\ a = [at |-> "change", want |-> a.want, drop |-> a.drop, add |-> a.add, then |-> a.then]
      /\ a.want \subseteq Known /\ a.drop \subseteq P!AllGroups /\ a.add \subseteq P!AllGroups
      /\ a.then \in {"release", "end"}
  BY Zenon, <1>0, AdminShapes DEF DeleteUserFromGroup, DirIInv, GroupsInv
<1>2. PICK r : r = [at |-> "change", want |-> a.want, drop |-> a.drop \ {g}, add |-> a.add, then |-> a.then]
  BY Zenon
<1>3. r \in AdminRecs
  BY Zenon, <1>1, <1>2 DEF AdminRecs
<1>4. Go(m, r)
  BY <1>0, <1>1, <1>2 DEF DeleteUserFromGroup
<1>5. /\ kc'.groups = kc.groups \ {g} /\ kc'.enabled = kc.enabled
      /\ kc' \in [exists : BOOLEAN, enabled : BOOLEAN, groups : SUBSET P!AllGroups]
  BY Zenon DEF DeleteUserFromGroup, DirIInv, DirTypeOK
<1>6. UNCHANGED <<introspect, jwt, userPods, ask, wanted, settled>> /\ loose' = (loose \/ a.then = "end")
  BY Zenon, <1>0 DEF DeleteUserFromGroup
<1>7. loose' \in BOOLEAN /\ (loose => loose') /\ (a.then = "end" => loose')
  BY Zenon, <1>6
<1>8. ~All(g) /\ \A x : (All(x)' <=> All(x)) /\ (None(x)' <=> None(x))
  BY Zenon, <1>1, <1>6 DEF All, None, Does
<1>9. Does(r)'
  BY Zenon, <1>1, <1>2, <1>5, <1>8 DEF Does
<1>10. admin' \in [Admins -> AdminRecs] /\ GroupsInv'
  BY Zenon, <1>1, <1>2, <1>3, <1>4, <1>5, <1>6, <1>8, <1>9, AdminMove
<1>11. WillRelease(r) \/ loose'
  BY Zenon, <1>1, <1>2, <1>7 DEF WillRelease
<1>12. PodsInv'
  BY Zenon, <1>3, <1>4, <1>6, <1>7, <1>11, PodsMove
<1>13. wanted' \subseteq SUBSET P!AllGroups /\ settled' \in BOOLEAN
  BY Zenon, <1>6 DEF DirIInv, DirTypeOK
<1>14. DirTypeOK'
  BY Zenon, <1>5, <1>6, <1>7, <1>10, <1>13, TypeMove
<1> QED
  BY Zenon, <1>10, <1>12, <1>14 DEF DirIInv

\* AddUserToGroup adds a group that the request wants.
LEMMA AddGroupInv ==
    ASSUME DirIInv, NEW m \in Admins, NEW g \in P!AllGroups, AddUserToGroup(m, g)
    PROVE  DirIInv'
<1>0. PICK a \in AdminRecs : a = admin[m]
  BY Zenon DEF DirIInv
<1>1. /\ a.at = "change" /\ g \in a.add /\ a.want \in wanted /\ Does(a)
      /\ a = [at |-> "change", want |-> a.want, drop |-> a.drop, add |-> a.add, then |-> a.then]
      /\ a.want \subseteq Known /\ a.drop \subseteq P!AllGroups /\ a.add \subseteq P!AllGroups
      /\ a.then \in {"release", "end"}
  BY Zenon, <1>0, AdminShapes DEF AddUserToGroup, DirIInv, GroupsInv
<1>2. PICK r : r = [at |-> "change", want |-> a.want, drop |-> a.drop, add |-> a.add \ {g}, then |-> a.then]
  BY Zenon
<1>3. r \in AdminRecs
  BY Zenon, <1>1, <1>2 DEF AdminRecs
<1>4. Go(m, r)
  <2>1. Go(m, [a EXCEPT !.add = @ \ {g}])
    BY Zenon, <1>0 DEF AddUserToGroup
  <2>2. [a EXCEPT !.add = @ \ {g}] = r
    BY <1>1, <1>2
  <2> QED
    BY Zenon, <2>1, <2>2
<1>5. /\ kc'.groups = kc.groups \cup {g} /\ kc'.enabled = kc.enabled
      /\ kc' \in [exists : BOOLEAN, enabled : BOOLEAN, groups : SUBSET P!AllGroups]
  BY Zenon DEF AddUserToGroup, DirIInv, DirTypeOK
<1>6. UNCHANGED <<introspect, jwt, userPods, ask, wanted, settled, loose>>
  BY Zenon DEF AddUserToGroup
<1>8. ~None(g) /\ \A x : (All(x)' <=> All(x)) /\ (None(x)' <=> None(x))
  BY Zenon, <1>1, <1>6 DEF All, None, Does
<1>9. Does(r)'
  BY Zenon, <1>1, <1>2, <1>5, <1>8 DEF Does
<1>10. admin' \in [Admins -> AdminRecs] /\ GroupsInv'
  BY Zenon, <1>1, <1>2, <1>3, <1>4, <1>5, <1>6, <1>8, <1>9, AdminMove
<1>11. WillRelease(admin[m]) => WillRelease(r)
  BY Zenon, <1>0, <1>1, <1>2 DEF WillRelease
<1>12. Entitled \subseteq Entitled'
  BY Zenon, <1>5, EntitledGrows
<1>13. PodsInv'
  BY Zenon, <1>3, <1>4, <1>6, <1>11, <1>12, PodsMove
<1>14. wanted' \subseteq SUBSET P!AllGroups /\ settled' \in BOOLEAN /\ loose' \in BOOLEAN
  BY Zenon, <1>6 DEF DirIInv, DirTypeOK
<1>15. DirTypeOK'
  BY Zenon, <1>5, <1>6, <1>10, <1>14, TypeMove
<1> QED
  BY Zenon, <1>10, <1>13, <1>15 DEF DirIInv

\* SetGroups returns when its list is empty: what all requests agree on is done.
LEMMA ReturnsInv == ASSUME DirIInv, NEW m \in Admins, SetGroupsReturns(m) PROVE DirIInv'
<1>0. PICK a \in AdminRecs : a = admin[m]
  BY Zenon DEF DirIInv
<1>1. a.at = "change" /\ a.drop = {} /\ a.add = {} /\ Does(a) /\ a.then \in {"release", "end"}
  BY Zenon, <1>0, AdminShapes DEF SetGroupsReturns, DirIInv, GroupsInv
<1>2. PICK r : r = IF a.then = "end" THEN Finished ELSE [at |-> "release"]
  BY Zenon
<1>3. r \in AdminRecs /\ r.at \notin {"read", "change"} /\ (WillRelease(a) => WillRelease(r))
  BY Zenon, <1>1, <1>2 DEF AdminRecs, Finished, WillRelease
<1>4. Go(m, r)
  BY Zenon, <1>0, <1>2 DEF SetGroupsReturns
<1>5. UNCHANGED <<kc, introspect, jwt, userPods, ask, wanted, loose>> /\ settled' \in BOOLEAN
  BY Zenon DEF SetGroupsReturns
<1>6. Agreed
  BY Zenon, <1>1 DEF Does, Agreed
<1>7. Agreed'
  BY Zenon, <1>5, <1>6 DEF Agreed, All, None
<1>8. admin' \in [Admins -> AdminRecs] /\ GroupsInv'
  BY Zenon, <1>3, <1>4, <1>5, <1>7, AdminMove
<1>9. Entitled' = Entitled
  BY Zenon, <1>5 DEF Entitled, Granted
<1>10. PodsInv'
  BY Zenon, <1>0, <1>3, <1>4, <1>5, <1>9, PodsMove
<1>11. wanted' \subseteq SUBSET P!AllGroups /\ loose' \in BOOLEAN
       /\ kc' \in [exists : BOOLEAN, enabled : BOOLEAN, groups : SUBSET P!AllGroups]
  BY Zenon, <1>5 DEF DirIInv, DirTypeOK
<1>12. DirTypeOK'
  BY Zenon, <1>5, <1>8, <1>11, TypeMove
<1> QED
  BY Zenon, <1>8, <1>10, <1>12 DEF DirIInv

\* LogoutAllSessions: an error of it is ignored when the user was disabled.
LEMMA LogoutInv == ASSUME DirIInv, NEW m \in Admins, Logout(m) PROVE DirIInv'
<1>0. PICK a \in AdminRecs : a = admin[m]
  BY Zenon DEF DirIInv
<1>1. a.at = "logout"
  BY Zenon, <1>0 DEF Logout
<1>2. PICK r \in {Finished, [at |-> "release"]} :
          Go(m, r) /\ (~a.must => r = [at |-> "release"])
  BY Zenon, <1>0 DEF Logout
<1>3. r \in AdminRecs /\ r.at \notin {"read", "change"}
  BY <1>2 DEF AdminRecs, Finished
<1>4. WillRelease(admin[m]) => WillRelease(r)
  BY <1>0, <1>1, <1>2 DEF WillRelease
<1>5. UNCHANGED <<kc, introspect, userPods, ask, wanted, settled, loose>>
  BY Zenon DEF Logout
<1>6. admin' \in [Admins -> AdminRecs] /\ GroupsInv'
  BY Zenon, <1>2, <1>3, <1>5, AdminMove
<1>7. Entitled' = Entitled
  BY Zenon, <1>5 DEF Entitled, Granted
<1>8. PodsInv'
  BY Zenon, <1>2, <1>3, <1>4, <1>5, <1>7, PodsMove
<1>9. jwt' \in [groups : SUBSET P!AllGroups, live : BOOLEAN, held : BOOLEAN] /\ (jwt'.live => jwt'.held)
  <2>1. jwt \in [groups : SUBSET P!AllGroups, live : BOOLEAN, held : BOOLEAN] /\ (jwt.live => jwt.held)
    BY Zenon DEF DirIInv, DirTypeOK
  <2>2. CASE jwt' = jwt
    BY Zenon, <2>1, <2>2
  <2>3. CASE jwt' = [jwt EXCEPT !.live = FALSE]
    BY Zenon, <2>1, <2>3
  <2> QED
    BY Zenon, <2>2, <2>3 DEF Logout
<1>10. \A n \in Admins : admin'[n].at \in {"free", "read", "change", "logout", "release", "ended"}
  BY Zenon, <1>6, AdminShapes
<1>11. /\ kc' \in [exists : BOOLEAN, enabled : BOOLEAN, groups : SUBSET P!AllGroups] /\ introspect' \in BOOLEAN
       /\ userPods' \subseteq Doc.servers /\ ask' \in [DReqs -> Doc.servers \cup {"none"}]
       /\ wanted' \subseteq SUBSET P!AllGroups /\ settled' \in BOOLEAN /\ loose' \in BOOLEAN
  BY Zenon, <1>5 DEF DirIInv, DirTypeOK
<1>12. DirTypeOK'
  BY Zenon, <1>9, <1>10, <1>11 DEF DirTypeOK
<1> QED
  BY Zenon, <1>6, <1>8, <1>12 DEF DirIInv

\* ReleaseAll leaves no pod, or the exception of a release that failed.
LEMMA ReleaseAllInv == ASSUME DirIInv, NEW m \in Admins, ReleaseAll(m) PROVE DirIInv'
<1>1. Finished \in AdminRecs /\ Finished.at = "ended" /\ Go(m, Finished)
  BY Zenon DEF AdminRecs, Finished, ReleaseAll
<1>2. UNCHANGED <<kc, introspect, jwt, ask, wanted, settled>>
  BY Zenon DEF ReleaseAll
<1>3. admin' \in [Admins -> AdminRecs] /\ GroupsInv'
  BY Zenon, <1>1, <1>2, AdminMove
<1>4. (userPods' = {} \/ loose') /\ userPods' \subseteq userPods
  BY Zenon DEF ReleaseAll
<1>5. loose' \in BOOLEAN
  BY Zenon DEF ReleaseAll
<1>6. PodsInv'
  BY Zenon, <1>4 DEF PodsInv
<1>7. \A n \in Admins : admin'[n].at \in {"free", "read", "change", "logout", "release", "ended"}
  BY Zenon, <1>3, AdminShapes
<1>8. /\ kc' \in [exists : BOOLEAN, enabled : BOOLEAN, groups : SUBSET P!AllGroups] /\ introspect' \in BOOLEAN
      /\ jwt' \in [groups : SUBSET P!AllGroups, live : BOOLEAN, held : BOOLEAN] /\ (jwt'.live => jwt'.held)
      /\ userPods' \subseteq Doc.servers /\ ask' \in [DReqs -> Doc.servers \cup {"none"}]
      /\ wanted' \subseteq SUBSET P!AllGroups /\ settled' \in BOOLEAN
  BY Zenon, <1>2, <1>4 DEF DirIInv, DirTypeOK
<1>9. DirTypeOK'
  BY Zenon, <1>5, <1>7, <1>8 DEF DirTypeOK
<1> QED
  BY Zenon, <1>3, <1>6, <1>9 DEF DirIInv

\* A step of the user or of a pod: nothing of the administration changes.
LEMMA UserMove ==
    ASSUME DirIInv, UNCHANGED <<kc, introspect, admin, wanted, settled>>,
           jwt' \in [groups : SUBSET P!AllGroups, live : BOOLEAN, held : BOOLEAN], jwt'.live => jwt'.held,
           userPods' \subseteq Doc.servers, ask' \in [DReqs -> Doc.servers \cup {"none"}], loose' \in BOOLEAN,
           ~loose' => (userPods' \subseteq userPods \cup Entitled /\ ~loose) \/ userPods' = {}
    PROVE  DirIInv'
<1>1. admin' \in [Admins -> AdminRecs]
  BY Zenon DEF DirIInv
<1>2. GroupsInv'
  BY Zenon DEF DirIInv, GroupsInv, Does, Agreed, All, None
<1>3. Entitled' = Entitled
  BY Zenon DEF Entitled, Granted
<1>4. PodsInv'
  <2>1. CASE loose' \/ userPods' = {}
    BY Zenon, <2>1 DEF PodsInv
  <2>2. CASE ~loose' /\ userPods' # {}
    <3>1. userPods' \subseteq userPods \cup Entitled /\ ~loose
      BY Zenon, <2>2
    <3>2. CASE userPods \subseteq Entitled
      BY Zenon, <1>3, <3>1, <3>2 DEF PodsInv
    <3>3. CASE ~(userPods \subseteq Entitled)
      BY Zenon, <3>1, <3>3 DEF DirIInv, PodsInv, WillRelease
    <3> QED
      BY Zenon, <3>2, <3>3
  <2> QED
    BY Zenon, <2>1, <2>2
<1>5. \A n \in Admins : admin'[n].at \in {"free", "read", "change", "logout", "release", "ended"}
  BY Zenon, <1>1, AdminShapes
<1>6. /\ kc' \in [exists : BOOLEAN, enabled : BOOLEAN, groups : SUBSET P!AllGroups] /\ introspect' \in BOOLEAN
      /\ wanted' \subseteq SUBSET P!AllGroups /\ settled' \in BOOLEAN
  BY Zenon DEF DirIInv, DirTypeOK
<1>7. DirTypeOK'
  BY Zenon, <1>5, <1>6 DEF DirTypeOK
<1> QED
  BY Zenon, <1>1, <1>2, <1>4, <1>7 DEF DirIInv

\* Steps of the user and of their pods.
LEMMA UserInv ==
    ASSUME DirIInv,
           \/ Login \/ JwtExpires
           \/ \E r \in DReqs : UserGetsPod(r) \/ \E t \in Doc.servers : UserAsks(r, t)
           \/ \E t \in Doc.servers : PodEnds(t)
    PROVE  DirIInv'
<1>0. /\ kc \in [exists : BOOLEAN, enabled : BOOLEAN, groups : SUBSET P!AllGroups]
      /\ jwt \in [groups : SUBSET P!AllGroups, live : BOOLEAN, held : BOOLEAN] /\ (jwt.live => jwt.held)
      /\ userPods \subseteq Doc.servers /\ ask \in [DReqs -> Doc.servers \cup {"none"}] /\ loose \in BOOLEAN
  BY Zenon DEF DirIInv, DirTypeOK
<1>1. CASE Login
  <2>1. jwt' \in [groups : SUBSET P!AllGroups, live : BOOLEAN, held : BOOLEAN] /\ (jwt'.live => jwt'.held)
    BY Zenon, <1>0, <1>1 DEF Login
  <2> QED
    BY Zenon, <1>0, <1>1, <2>1, UserMove DEF Login
<1>2. CASE JwtExpires
  <2>1. jwt' \in [groups : SUBSET P!AllGroups, live : BOOLEAN, held : BOOLEAN] /\ (jwt'.live => jwt'.held)
    BY Zenon, <1>2 DEF JwtExpires, NoJwt
  <2> QED
    BY Zenon, <1>0, <1>2, <2>1, UserMove DEF JwtExpires
<1>3. ASSUME NEW r \in DReqs, NEW t \in Doc.servers, UserAsks(r, t) PROVE DirIInv'
  <2>1. ask' \in [DReqs -> Doc.servers \cup {"none"}]
    BY Zenon, <1>0, <1>3 DEF UserAsks
  <2> QED
    BY Zenon, <1>0, <1>3, <2>1, UserMove DEF UserAsks
<1>4. ASSUME NEW r \in DReqs, UserGetsPod(r) PROVE DirIInv'
  <2>1. ask' \in [DReqs -> Doc.servers \cup {"none"}] /\ ask[r] \in Doc.servers
    BY Zenon, <1>0, <1>4 DEF UserGetsPod
  <2>2. userPods' = userPods \cup {ask[r]}
    BY Zenon, <1>4 DEF UserGetsPod
  <2>3. loose' \in BOOLEAN /\ (~loose' => ~loose /\ ask[r] \in Entitled)
    BY Zenon, <1>4 DEF UserGetsPod
  <2>4. UNCHANGED <<kc, introspect, jwt, admin, wanted, settled>>
    BY Zenon, <1>4 DEF UserGetsPod
  <2> QED
    BY Zenon, <1>0, <2>1, <2>2, <2>3, <2>4, UserMove
<1>5. ASSUME NEW t \in Doc.servers, PodEnds(t) PROVE DirIInv'
  <2>1. userPods' \subseteq userPods /\ UNCHANGED <<kc, introspect, jwt, ask, admin, wanted, settled>>
    BY Zenon, <1>5 DEF PodEnds
  <2>2. loose' \in BOOLEAN /\ (~loose' => ~loose \/ userPods' = {})
    BY Zenon, <1>5 DEF PodEnds
  <2> QED
    BY Zenon, <1>0, <2>1, <2>2, UserMove
<1> QED
  BY Zenon, <1>1, <1>2, <1>3, <1>4, <1>5

\* Every step preserves the invariant.
LEMMA DirStepInv == DirIInv /\ [DirNext]_dirVars => DirIInv'
<1> SUFFICES ASSUME DirIInv, [DirNext]_dirVars PROVE DirIInv'
  BY Zenon
<1>1. CASE UNCHANGED dirVars
  BY Zenon, <1>1, UserMove DEF dirVars, DirIInv, DirTypeOK
<1>2. ASSUME NEW m \in Admins,
             \/ \E groups \in SUBSET {"dev", "ops"} : setGroups(m, groups) \/ createUser(m, groups)
             \/ ReadGroups(m) \/ Fails(m) \/ SetGroupsReturns(m)
             \/ \E g \in P!AllGroups : DeleteUserFromGroup(m, g) \/ AddUserToGroup(m, g)
             \/ \E enabled \in BOOLEAN : patchUser(m, enabled)
             \/ killSessions(m) \/ Logout(m) \/ ReleaseAll(m)
      PROVE  DirIInv'
  <2>1. \A groups \in SUBSET {"dev", "ops"} : groups \in SUBSET Known
    BY Zenon DEF Known
  <2> QED
    BY Zenon, <1>2, <2>1, SetGroupsInv, CreateUserInv, ReadGroupsInv, FailsInv, ReturnsInv, DeleteGroupInv, AddGroupInv,
       PatchUserInv, KillSessionsInv, LogoutInv, ReleaseAllInv
<1> QED
  BY Zenon, <1>1, <1>2, UserInv DEF DirNext

\* At first no request has run and the user has no pod.
LEMMA DirInitInv == DirInit => DirIInv
<1> SUFFICES ASSUME DirInit PROVE DirIInv
  BY Zenon
<1>1. admin \in [Admins -> AdminRecs] /\ \A m \in Admins : admin[m].at = "free"
  BY Zenon DEF DirInit, AdminRecs, Free
<1>2. GroupsInv
  BY Zenon, <1>1 DEF DirInit, GroupsInv
<1>3. PodsInv
  BY Zenon DEF DirInit, PodsInv
<1>4. kc \in [exists : BOOLEAN, enabled : BOOLEAN, groups : SUBSET P!AllGroups]
  <2>1. {} \in SUBSET P!AllGroups /\ {"dev", "extra"} \in SUBSET P!AllGroups
    BY Zenon DEF P!AllGroups
  <2>2. CASE kc = [exists |-> FALSE, enabled |-> FALSE, groups |-> {}]
    BY Zenon, <2>1, <2>2
  <2>3. CASE kc = [exists |-> TRUE, enabled |-> TRUE, groups |-> {"dev", "extra"}]
    BY Zenon, <2>1, <2>3
  <2> QED
    BY Zenon, <2>2, <2>3 DEF DirInit
<1>5. jwt \in [groups : SUBSET P!AllGroups, live : BOOLEAN, held : BOOLEAN] /\ (jwt.live => jwt.held)
  BY Zenon DEF DirInit, NoJwt
<1>6. introspect \in BOOLEAN /\ settled \in BOOLEAN /\ loose \in BOOLEAN
  BY Zenon DEF DirInit
<1>7. userPods \subseteq Doc.servers /\ ask \in [DReqs -> Doc.servers \cup {"none"}] /\ wanted \subseteq SUBSET P!AllGroups
  BY Zenon DEF DirInit
<1>8. DirTypeOK
  BY Zenon, <1>1, <1>4, <1>5, <1>6, <1>7 DEF DirTypeOK
<1> QED
  BY Zenon, <1>1, <1>2, <1>3, <1>8 DEF DirIInv

\* However many admin requests overlap and however many of them fail, the groups they agree on
\* are the user's when all have ended and one has succeeded.
THEOREM AgreedGroupsHold == DirSpec => []GroupsAgree
<1>1. DirIInv => GroupsAgree
  BY Zenon DEF DirIInv, GroupsInv, Agreed, All, None, GroupsAgree
<1> QED
  BY <1>1, DirInitInv, DirStepInv, PTL DEF DirSpec

\* A pod that the directory no longer grants is there only while a request is on its way to
\* release it, or after one of the exceptions.
THEOREM PodsAreGranted == DirSpec => []PodsFollowDirectory
<1>1. DirIInv => PodsFollowDirectory
  <2> SUFFICES ASSUME DirIInv, Quiet, ~loose PROVE userPods \subseteq Entitled
    BY Zenon DEF PodsFollowDirectory
  <2>0. \A m \in Admins : admin[m] = Free \/ admin[m] = Finished
    BY Zenon DEF Quiet, QuietBut
  <2>1. \A m \in Admins : ~WillRelease(admin[m])
    <3>1. ASSUME NEW r, r = Free \/ r = Finished PROVE ~WillRelease(r)
      BY <3>1 DEF Free, Finished, WillRelease
    <3> QED
      BY Zenon, <2>0, <3>1
  <2> QED
    BY Zenon, <2>1 DEF DirIInv, PodsInv
<1> QED
  BY <1>1, DirInitInv, DirStepInv, PTL DEF DirSpec

-----------------------------------------------------------------------------
(***************************************************************************)
(* Config, for any number of edits.                                        *)
(***************************************************************************)

Fields == DOMAIN Base

\* A document: every field has a value.
IsFile(c) == c = [f \in Fields |-> c[f]]

\* The fields by name.
LEMMA FieldNames ==
    Fields = {"idType", "introspection", "issuer", "tokens", "keycloakAdmin", "broker", "clientSecret", "data",
              "admin", "adminGuard", "runtime", "redis", "routing", "store", "enforcer", "proxy",
              "allowInsecure", "podAuth", "mtls", "transport", "command", "http", "tokenMode", "tokenEnv",
              "staticRef", "audience", "secretItem", "sources", "egress", "ports", "digest", "groups", "limits"}
  BY Zenon DEF Fields, Base

\* What each group of defaults sets, and that it leaves the other fields.
LEMMA IdentityDefaults ==
    ASSUME NEW c, IsFile(c), NEW d, d = DefaultIdentity(c)
    PROVE  /\ IsFile(d)
           /\ d.idType = Or(c.idType, IF c.introspection THEN "bearer_introspect" ELSE "bearer_jwt")
           /\ d.broker = Or(c.broker, "none")
           /\ \A f \in Fields \ {"idType", "broker"} : d[f] = c[f]
<1>1. {"idType", "broker"} \subseteq Fields
  BY Zenon, FieldNames
<1> QED
  BY Zenon, <1>1 DEF IsFile, DefaultIdentity

LEMMA GatewayDefaults ==
    ASSUME NEW c, IsFile(c), NEW d, d = DefaultGateway(c)
    PROVE  /\ IsFile(d)
           /\ d.data = Or(c.data, "any:1") /\ d.admin = Or(c.admin, "loopback:2")
           /\ d.runtime = Or(c.runtime, "kube")
           /\ d.routing = Or(c.routing, IF c.redis THEN "redis" ELSE "memory")
           /\ d.store = Or(c.store, d.routing) /\ d.limits = Or(c.limits, "default")
           /\ \A f \in Fields \ {"data", "admin", "runtime", "routing", "store", "limits"} : d[f] = c[f]
<1>1. {"data", "admin", "runtime", "routing", "store", "limits"} \subseteq Fields
  BY Zenon, FieldNames
<1> QED
  BY Zenon, <1>1 DEF IsFile, DefaultGateway

LEMMA NetworkDefaults ==
    ASSUME NEW c, IsFile(c), NEW d, d = DefaultNetwork(c)
    PROVE  /\ IsFile(d)
           /\ d.enforcer = Or(c.enforcer, "cilium") /\ d.podAuth = Or(c.podAuth, "shared-secret")
           /\ d.mtls = (c.mtls \/ c.podAuth = "mtls")
           /\ \A f \in Fields \ {"enforcer", "podAuth", "mtls"} : d[f] = c[f]
<1>1. {"enforcer", "podAuth", "mtls"} \subseteq Fields
  BY Zenon, FieldNames
<1> QED
  BY Zenon, <1>1 DEF IsFile, DefaultNetwork

LEMMA ServerDefaults ==
    ASSUME NEW c, IsFile(c), NEW d, d = DefaultServer(c)
    PROVE  /\ IsFile(d)
           /\ d.http = (c.http \/ c.transport # "stdio")
           /\ d.ports = IF c.egress THEN Or(c.ports, "443") ELSE c.ports
           /\ d.sources = IF c.secretItem # "none" THEN Or(c.sources, "header,store,sealed") ELSE c.sources
           /\ \A f \in Fields \ {"http", "ports", "sources"} : d[f] = c[f]
<1>1. {"http", "ports", "sources"} \subseteq Fields
  BY Zenon, FieldNames
<1> QED
  BY Zenon, <1>1 DEF IsFile, DefaultServer

\* The fields that have a default.
Given == {"idType", "broker", "data", "admin", "runtime", "routing", "store", "limits", "enforcer",
          "podAuth", "mtls", "http", "ports", "sources"}

\* What ApplyDefaults makes of a document c.
DefaultsOf(c, d) ==
    /\ d.idType = Or(c.idType, IF c.introspection THEN "bearer_introspect" ELSE "bearer_jwt")
    /\ d.broker = Or(c.broker, "none")
    /\ d.data = Or(c.data, "any:1") /\ d.admin = Or(c.admin, "loopback:2")
    /\ d.runtime = Or(c.runtime, "kube")
    /\ d.routing = Or(c.routing, IF c.redis THEN "redis" ELSE "memory")
    /\ d.store = Or(c.store, d.routing) /\ d.limits = Or(c.limits, "default")
    /\ d.enforcer = Or(c.enforcer, "cilium") /\ d.podAuth = Or(c.podAuth, "shared-secret")
    /\ d.mtls = (c.mtls \/ c.podAuth = "mtls")
    /\ d.http = (c.http \/ c.transport # "stdio")
    /\ d.ports = (IF c.egress THEN Or(c.ports, "443") ELSE c.ports)
    /\ d.sources = (IF c.secretItem # "none" THEN Or(c.sources, "header,store,sealed") ELSE c.sources)
    /\ \A f \in Fields \ Given : d[f] = c[f]

\* ApplyDefaults field by field: no default depends on a value another one gave, but the store's
\* on the routing.
LEMMA DefaultValues ==
    ASSUME NEW c, IsFile(c), NEW d, d = ApplyDefaults(c)
    PROVE  IsFile(d) /\ DefaultsOf(c, d)
<1>1. PICK c1 : c1 = DefaultIdentity(c)
  BY Zenon
<1>2. PICK c2 : c2 = DefaultGateway(c1)
  BY Zenon
<1>3. PICK c3 : c3 = DefaultNetwork(c2)
  BY Zenon
<1>4. d = DefaultServer(c3)
  BY Zenon, <1>1, <1>2, <1>3 DEF ApplyDefaults
<1>5. /\ IsFile(c1)
      /\ c1.idType = Or(c.idType, IF c.introspection THEN "bearer_introspect" ELSE "bearer_jwt")
      /\ c1.broker = Or(c.broker, "none")
      /\ \A f \in Fields \ {"idType", "broker"} : c1[f] = c[f]
  BY Zenon, <1>1, IdentityDefaults
<1>6. /\ IsFile(c2) /\ c2.data = Or(c1.data, "any:1") /\ c2.admin = Or(c1.admin, "loopback:2")
      /\ c2.runtime = Or(c1.runtime, "kube")
      /\ c2.routing = Or(c1.routing, IF c1.redis THEN "redis" ELSE "memory")
      /\ c2.store = Or(c1.store, c2.routing) /\ c2.limits = Or(c1.limits, "default")
      /\ \A f \in Fields \ {"data", "admin", "runtime", "routing", "store", "limits"} : c2[f] = c1[f]
  <2>1. IsFile(c1)
    BY Zenon, <1>5
  <2> QED
    BY ZenonT(40), <1>2, <2>1, GatewayDefaults
<1>7. /\ IsFile(c3) /\ c3.enforcer = Or(c2.enforcer, "cilium") /\ c3.podAuth = Or(c2.podAuth, "shared-secret")
      /\ c3.mtls = (c2.mtls \/ c2.podAuth = "mtls")
      /\ \A f \in Fields \ {"enforcer", "podAuth", "mtls"} : c3[f] = c2[f]
  <2>1. IsFile(c2)
    BY Zenon, <1>6
  <2> QED
    BY Zenon, <1>3, <2>1, NetworkDefaults
<1>8. IsFile(d) /\ \A f \in Fields \ {"http", "ports", "sources"} : d[f] = c3[f]
  BY ZenonT(40), <1>4, <1>7, ServerDefaults
<1>9. /\ d.http = (c3.http \/ c3.transport # "stdio")
      /\ d.ports = IF c3.egress THEN Or(c3.ports, "443") ELSE c3.ports
      /\ d.sources = IF c3.secretItem # "none" THEN Or(c3.sources, "header,store,sealed") ELSE c3.sources
  <2>1. IsFile(c3)
    BY Zenon, <1>7
  <2>2. d.http = (c3.http \/ c3.transport # "stdio")
    BY Zenon, <1>4, <2>1, ServerDefaults
  <2>3. d.ports = IF c3.egress THEN Or(c3.ports, "443") ELSE c3.ports
    BY Zenon, <1>4, <2>1, ServerDefaults
  <2>4. d.sources = IF c3.secretItem # "none" THEN Or(c3.sources, "header,store,sealed") ELSE c3.sources
    BY Zenon, <1>4, <2>1, ServerDefaults
  <2> QED
    BY Zenon, <2>2, <2>3, <2>4
<1>10. \A f \in Fields \ Given : d[f] = c[f]
  BY ZenonT(40), <1>5, <1>6, <1>7, <1>8 DEF Given
<1>11. /\ d.idType = c1.idType /\ d.broker = c1.broker
  <2>1. {"idType", "broker"} \subseteq Fields
    BY Zenon, FieldNames
  <2> QED
    BY Zenon, <1>6, <1>7, <1>8, <2>1
<1>12. /\ d.data = c2.data /\ d.admin = c2.admin /\ d.runtime = c2.runtime /\ d.routing = c2.routing
       /\ d.store = c2.store /\ d.limits = c2.limits
       /\ c1.data = c.data /\ c1.admin = c.admin /\ c1.runtime = c.runtime /\ c1.routing = c.routing
       /\ c1.store = c.store /\ c1.limits = c.limits /\ c1.redis = c.redis
  <2>1. {"data", "admin", "runtime", "routing", "store", "limits", "redis"} \subseteq Fields
    BY Zenon, FieldNames
  <2> QED
    BY Zenon, <1>5, <1>7, <1>8, <2>1
<1>13. /\ d.enforcer = c3.enforcer /\ d.podAuth = c3.podAuth /\ d.mtls = c3.mtls
       /\ c2.enforcer = c.enforcer /\ c2.podAuth = c.podAuth /\ c2.mtls = c.mtls
  <2>1. {"enforcer", "podAuth", "mtls"} \subseteq Fields
    BY Zenon, FieldNames
  <2> QED
    BY Zenon, <1>5, <1>6, <1>8, <2>1
<1>14. /\ c3.http = c.http /\ c3.transport = c.transport /\ c3.egress = c.egress /\ c3.ports = c.ports
       /\ c3.secretItem = c.secretItem /\ c3.sources = c.sources
  <2>1. {"http", "transport", "egress", "ports", "secretItem", "sources"} \subseteq Fields
    BY Zenon, FieldNames
  <2> QED
    BY Zenon, <1>5, <1>6, <1>7, <2>1
<1>15. d.http = (c.http \/ c.transport # "stdio") /\ d.mtls = (c.mtls \/ c.podAuth = "mtls")
  BY Zenon, <1>7, <1>9, <1>13, <1>14
<1>16. /\ d.ports = (IF c.egress THEN Or(c.ports, "443") ELSE c.ports)
       /\ d.sources = (IF c.secretItem # "none" THEN Or(c.sources, "header,store,sealed") ELSE c.sources)
  BY Zenon, <1>9, <1>14
<1>17. /\ d.idType = Or(c.idType, IF c.introspection THEN "bearer_introspect" ELSE "bearer_jwt")
       /\ d.broker = Or(c.broker, "none")
  BY Zenon, <1>5, <1>11
<1>18. /\ d.data = Or(c.data, "any:1") /\ d.admin = Or(c.admin, "loopback:2")
       /\ d.runtime = Or(c.runtime, "kube")
       /\ d.routing = Or(c.routing, IF c.redis THEN "redis" ELSE "memory")
       /\ d.store = Or(c.store, d.routing) /\ d.limits = Or(c.limits, "default")
  BY Zenon, <1>6, <1>12
<1>19. d.enforcer = Or(c.enforcer, "cilium") /\ d.podAuth = Or(c.podAuth, "shared-secret")
  BY Zenon, <1>7, <1>13
<1> QED
  BY Zenon, <1>8, <1>10, <1>15, <1>16, <1>17, <1>18, <1>19 DEF DefaultsOf

\* What ApplyDefaults leaves: nothing that has a default is missing.
Defaulted(d) ==
    /\ IsFile(d) /\ d.mtls \in BOOLEAN /\ d.http \in BOOLEAN
    /\ "" \notin {d.idType, d.broker, d.data, d.admin, d.runtime, d.routing, d.store, d.limits,
                  d.enforcer, d.podAuth}
    /\ (d.podAuth = "mtls" => d.mtls) /\ (d.transport # "stdio" => d.http)
    /\ (d.egress => d.ports # "") /\ (d.secretItem # "none" => d.sources # "")

\* ApplyDefaults gives every value it has a default for.
LEMMA DefaultsGiven ==
    ASSUME NEW c, IsFile(c), NEW d, d = ApplyDefaults(c)
    PROVE  Defaulted(d)
<1>1. IsFile(d) /\ DefaultsOf(c, d)
  BY Zenon, DefaultValues
<1>2. d.transport = c.transport /\ d.egress = c.egress /\ d.secretItem = c.secretItem
  <2>1. {"transport", "egress", "secretItem"} \subseteq Fields \ Given
    BY Zenon, FieldNames DEF Given
  <2> QED
    BY Zenon, <1>1, <2>1 DEF DefaultsOf
<1>3. d.http = (c.http \/ c.transport # "stdio") /\ d.mtls = (c.mtls \/ c.podAuth = "mtls")
  BY Zenon, <1>1 DEF DefaultsOf
<1>4. d.podAuth = "mtls" => c.podAuth = "mtls"
  BY Zenon, <1>1 DEF DefaultsOf, Or
<1>5. d.http \in BOOLEAN /\ (d.transport # "stdio" => d.http)
  BY Zenon, <1>2, <1>3
<1>6. d.mtls \in BOOLEAN /\ (d.podAuth = "mtls" => d.mtls)
  BY Zenon, <1>3, <1>4
<1>7. "" \notin {d.idType, d.broker, d.data, d.admin, d.runtime, d.routing, d.store, d.limits,
                 d.enforcer, d.podAuth}
  BY ZenonT(40), <1>1 DEF DefaultsOf, Or
<1>8. (d.egress => d.ports # "") /\ (d.secretItem # "none" => d.sources # "")
  BY Zenon, <1>1, <1>2 DEF DefaultsOf, Or
<1> QED
  BY Zenon, <1>1, <1>5, <1>6, <1>7, <1>8 DEF Defaulted

\* Defaults applied to a document that has them change nothing.
LEMMA DefaultsIdempotent ==
    ASSUME NEW d, Defaulted(d)
    PROVE  ApplyDefaults(d) = d
<1>1. DefaultIdentity(d) = d
  BY Zenon DEF Defaulted, DefaultIdentity, Or, IsFile
<1>2. DefaultGateway(d) = d
  BY Zenon DEF Defaulted, DefaultGateway, Or, IsFile
<1>3. DefaultNetwork(d) = d
  <2>1. (d.mtls \/ d.podAuth = "mtls") = d.mtls
    BY Zenon DEF Defaulted
  <2>2. PICK m : m = (d.mtls \/ d.podAuth = "mtls")
    BY Zenon
  <2>3. DefaultNetwork(d) = [d EXCEPT !.enforcer = d.enforcer, !.podAuth = d.podAuth, !.mtls = m]
    BY Zenon, <2>2 DEF Defaulted, DefaultNetwork, Or
  <2>4. m = d.mtls
    BY Zenon, <2>1, <2>2
  <2> QED
    BY Zenon, <2>3, <2>4 DEF Defaulted, IsFile
<1>4. DefaultServer(d) = d
  <2>1. (d.http \/ d.transport # "stdio") = d.http
    BY Zenon DEF Defaulted
  <2>2. PICK h : h = (d.http \/ d.transport # "stdio")
    BY Zenon
  <2>3. DefaultServer(d) = [d EXCEPT !.http = h, !.ports = d.ports, !.sources = d.sources]
    BY Zenon, <2>2 DEF Defaulted, DefaultServer, Or
  <2>4. h = d.http
    BY Zenon, <2>1, <2>2
  <2> QED
    BY Zenon, <2>3, <2>4 DEF Defaulted, IsFile
<1> QED
  BY Zenon, <1>1, <1>2, <1>3, <1>4 DEF ApplyDefaults

\* The switches, and the values the schema allows of the other fields.
Switches == {"introspection", "issuer", "tokens", "keycloakAdmin", "clientSecret", "adminGuard", "redis",
             "proxy", "allowInsecure", "mtls", "http", "tokenEnv", "staticRef", "audience", "egress", "digest"}

Allowed == [
    idType |-> {"", "bearer_jwt", "bearer_introspect", "none", "static"},
    broker |-> {"", "none", "exchange", "refresh-token"},
    data |-> {"", "loopback:1", "loopback:2", "any:1"}, admin |-> {"", "loopback:1", "loopback:2", "any:1"},
    runtime |-> {"", "kube", "local"}, routing |-> {"", "redis", "memory"}, store |-> {"", "redis", "memory"},
    limits |-> {"", "given"}, enforcer |-> {"", "cilium", "proxy", "none"},
    podAuth |-> {"", "shared-secret", "mtls"}, transport |-> {"stdio", "http"},
    command |-> {"", "absolute", "relative"}, tokenMode |-> {"none", "static", "env", "file", "header"},
    secretItem |-> {"none", "env", "header", "nowhere"}, sources |-> {"", "given"}, ports |-> {"", "given"},
    groups |-> {"known", "unknown"}]

Typed(c) == (\A f \in Switches : c[f] \in BOOLEAN) /\ (\A f \in DOMAIN Allowed : c[f] \in Allowed[f])

\* A field is in one section: what a section allows is what Allowed has.
SectionOk(s) ==
    /\ s.flags \subseteq Switches /\ DOMAIN s.choices \subseteq DOMAIN Allowed
    /\ \A f \in DOMAIN s.choices : Allowed[f] = s.choices[f]

\* The names in Allowed, which no switch has.
LEMMA ChoiceNames ==
    /\ DOMAIN Allowed = {"idType", "broker", "data", "admin", "runtime", "routing", "store", "limits", "enforcer",
                         "podAuth", "transport", "command", "tokenMode", "secretItem", "sources", "ports", "groups"}
    /\ Switches \cap DOMAIN Allowed = {} /\ Fields = Switches \cup DOMAIN Allowed
<1>1. DOMAIN Allowed = {"idType", "broker", "data", "admin", "runtime", "routing", "store", "limits", "enforcer",
                        "podAuth", "transport", "command", "tokenMode", "secretItem", "sources", "ports", "groups"}
  BY Zenon DEF Allowed
<1> QED
  BY <1>1, FieldNames DEF Switches

\* Allowed, field by field.
LEMMA AllowedValues ==
    /\ Allowed["idType"] = {"", "bearer_jwt", "bearer_introspect", "none", "static"}
    /\ Allowed["broker"] = {"", "none", "exchange", "refresh-token"}
    /\ Allowed["data"] = {"", "loopback:1", "loopback:2", "any:1"}
    /\ Allowed["admin"] = {"", "loopback:1", "loopback:2", "any:1"}
    /\ Allowed["runtime"] = {"", "kube", "local"} /\ Allowed["routing"] = {"", "redis", "memory"}
    /\ Allowed["store"] = {"", "redis", "memory"} /\ Allowed["limits"] = {"", "given"}
    /\ Allowed["enforcer"] = {"", "cilium", "proxy", "none"}
    /\ Allowed["podAuth"] = {"", "shared-secret", "mtls"} /\ Allowed["transport"] = {"stdio", "http"}
    /\ Allowed["command"] = {"", "absolute", "relative"}
    /\ Allowed["tokenMode"] = {"none", "static", "env", "file", "header"}
    /\ Allowed["secretItem"] = {"none", "env", "header", "nowhere"} /\ Allowed["sources"] = {"", "given"}
    /\ Allowed["ports"] = {"", "given"} /\ Allowed["groups"] = {"known", "unknown"}
  BY Zenon DEF Allowed

\* The sections of the schema allow what Allowed does.
LEMMA SectionsOk == \A s \in Sections : SectionOk(s)
<1> USE ChoiceNames DEF Switches
<1>1. SectionOk(IdentityDoc)
  <2>1. DOMAIN IdentityDoc.choices = {"idType", "broker"}
    BY Zenon DEF IdentityDoc
  <2>2. IdentityDoc.choices["idType"] = Allowed["idType"] /\ IdentityDoc.choices["broker"] = Allowed["broker"]
    BY Zenon DEF IdentityDoc, Allowed
  <2>3. IdentityDoc.flags \subseteq Switches
    BY Zenon DEF IdentityDoc
  <2> QED
    BY Zenon, <2>1, <2>2, <2>3 DEF SectionOk
<1>2. SectionOk(GatewayDoc)
  <2>1. DOMAIN GatewayDoc.choices = {"data", "admin", "runtime", "routing", "store", "limits"}
    BY Zenon DEF GatewayDoc
  <2>2. /\ GatewayDoc.choices["data"] = Allowed["data"] /\ GatewayDoc.choices["admin"] = Allowed["admin"]
        /\ GatewayDoc.choices["runtime"] = Allowed["runtime"] /\ GatewayDoc.choices["routing"] = Allowed["routing"]
        /\ GatewayDoc.choices["store"] = Allowed["store"] /\ GatewayDoc.choices["limits"] = Allowed["limits"]
    BY Zenon DEF GatewayDoc, Allowed
  <2>3. GatewayDoc.flags \subseteq Switches
    BY Zenon DEF GatewayDoc
  <2> QED
    BY Zenon, <2>1, <2>2, <2>3 DEF SectionOk
<1>3. SectionOk(NetworkDoc)
  <2>1. DOMAIN NetworkDoc.choices = {"enforcer", "podAuth"}
    BY Zenon DEF NetworkDoc
  <2>2. NetworkDoc.choices["enforcer"] = Allowed["enforcer"] /\ NetworkDoc.choices["podAuth"] = Allowed["podAuth"]
    BY Zenon DEF NetworkDoc, Allowed
  <2>3. NetworkDoc.flags \subseteq Switches
    BY Zenon DEF NetworkDoc
  <2> QED
    BY Zenon, <2>1, <2>2, <2>3 DEF SectionOk
<1>4. SectionOk(ServerDoc)
  <2>1. DOMAIN ServerDoc.choices =
          {"transport", "command", "tokenMode", "secretItem", "sources", "ports", "groups"}
    BY Zenon DEF ServerDoc
  <2>2. /\ ServerDoc.choices["transport"] = Allowed["transport"] /\ ServerDoc.choices["command"] = Allowed["command"]
        /\ ServerDoc.choices["tokenMode"] = Allowed["tokenMode"]
        /\ ServerDoc.choices["secretItem"] = Allowed["secretItem"]
        /\ ServerDoc.choices["sources"] = Allowed["sources"] /\ ServerDoc.choices["ports"] = Allowed["ports"]
        /\ ServerDoc.choices["groups"] = Allowed["groups"]
    BY Zenon DEF ServerDoc, Allowed
  <2>3. ServerDoc.flags \subseteq Switches
    BY Zenon DEF ServerDoc
  <2> QED
    BY Zenon, <2>1, <2>2, <2>3 DEF SectionOk
<1> QED
  BY Zenon, <1>1, <1>2, <1>3, <1>4 DEF Sections

\* The values of the fields that rules compare.
LEMMA TypedFields ==
    ASSUME NEW c, Typed(c)
    PROVE  /\ c.idType \in {"", "bearer_jwt", "bearer_introspect", "none", "static"}
           /\ c.broker \in {"", "none", "exchange", "refresh-token"}
           /\ c.data \in {"", "loopback:1", "loopback:2", "any:1"}
           /\ c.admin \in {"", "loopback:1", "loopback:2", "any:1"}
           /\ c.runtime \in {"", "kube", "local"}
           /\ c.routing \in {"", "redis", "memory"} /\ c.store \in {"", "redis", "memory"}
           /\ c.enforcer \in {"", "cilium", "proxy", "none"} /\ c.podAuth \in {"", "shared-secret", "mtls"}
           /\ c.transport \in {"stdio", "http"}
<1>1. \A f \in DOMAIN Allowed : c[f] \in Allowed[f]
  BY Zenon DEF Typed
<1> QED
  BY ZenonT(40), <1>1, ChoiceNames DEF Allowed

\* What Validate refuses, rule by rule.
LEMMA NothingWrong ==
    ASSUME NEW d, Validate(d) = {}
    PROVE  /\ d.data # d.admin /\ (isLoopback(d.admin) \/ d.adminGuard)
           /\ ~(d.runtime = "kube" /\ d.routing = "memory") /\ ~(d.routing = "redis" /\ ~d.redis)
           /\ (Dev(d) \/ d.issuer) /\ ~(Dev(d) /\ d.broker \in {"exchange", "refresh-token"})
           /\ ~(Dev(d) /\ d.keycloakAdmin) /\ ~(d.podAuth = "mtls" /\ d.runtime # "kube")
           /\ (Dev(d) => isLoopback(d.data) \/ d.allowInsecure)
           /\ ~(d.store = "memory" /\ d.runtime = "kube") /\ (d.broker = "exchange" => d.clientSecret)
           /\ ~(d.tokenMode = "header" /\ d.transport = "stdio")
           /\ (PerUser(d.tokenMode) /\ d.broker = "exchange" => d.audience)
           /\ ~(PerUser(d.tokenMode) /\ d.broker = "none")
           /\ ~(d.secretItem = "header" /\ d.transport = "stdio")
<1>1. GlobalErrors(d) = {} /\ ServerErrors(d) = {}
  BY Zenon DEF Validate
<1>2. /\ d.data # d.admin /\ (isLoopback(d.admin) \/ d.adminGuard)
      /\ ~(d.runtime = "kube" /\ d.routing = "memory") /\ ~(d.routing = "redis" /\ ~d.redis)
      /\ (Dev(d) \/ d.issuer) /\ ~(Dev(d) /\ d.broker \in {"exchange", "refresh-token"})
  BY Zenon, <1>1 DEF GlobalErrors
<1>3. /\ ~(Dev(d) /\ d.keycloakAdmin) /\ ~(d.podAuth = "mtls" /\ d.runtime # "kube")
      /\ (Dev(d) => isLoopback(d.data) \/ d.allowInsecure)
      /\ ~(d.store = "memory" /\ d.runtime = "kube") /\ (d.broker = "exchange" => d.clientSecret)
  BY Zenon, <1>1 DEF GlobalErrors
<1>4. /\ ~(d.tokenMode = "header" /\ d.transport = "stdio")
      /\ (PerUser(d.tokenMode) /\ d.broker = "exchange" => d.audience)
      /\ ~(PerUser(d.tokenMode) /\ d.broker = "none")
      /\ ~(d.secretItem = "header" /\ d.transport = "stdio")
  BY Zenon, <1>1 DEF ServerErrors
<1> QED
  BY Zenon, <1>2, <1>3, <1>4

\* What the schema allows of a configuration with its defaults.
LiveTyped(d) ==
    /\ \A f \in Switches : d[f] \in BOOLEAN
    /\ \A f \in {"idType", "broker", "data", "admin", "runtime", "routing", "store", "enforcer", "podAuth"} :
         d[f] \in Allowed[f] \ {""}

\* Defaults are values the schema allows.
LEMMA DefaultsTyped ==
    ASSUME NEW c, IsFile(c), Typed(c), NEW d, d = ApplyDefaults(c)
    PROVE  /\ LiveTyped(d)
           /\ d.idType \in {"bearer_jwt", "bearer_introspect", "none", "static"}
           /\ d.broker \in {"none", "exchange", "refresh-token"}
           /\ d.runtime \in {"kube", "local"} /\ d.routing \in {"redis", "memory"}
           /\ d.store \in {"redis", "memory"} /\ d.transport \in {"stdio", "http"}
<1>1. IsFile(d) /\ DefaultsOf(c, d)
  BY Zenon, DefaultValues
<1>2. /\ d.idType \in {"bearer_jwt", "bearer_introspect", "none", "static"}
      /\ d.broker \in {"none", "exchange", "refresh-token"}
      /\ d.data \in {"loopback:1", "loopback:2", "any:1"}
      /\ d.admin \in {"loopback:1", "loopback:2", "any:1"}
      /\ d.runtime \in {"kube", "local"} /\ d.routing \in {"redis", "memory"}
      /\ d.enforcer \in {"cilium", "proxy", "none"} /\ d.podAuth \in {"shared-secret", "mtls"}
  BY ZenonT(40), <1>1, TypedFields DEF DefaultsOf, Or
<1>3. d.store \in {"redis", "memory"}
  BY Zenon, <1>1, <1>2, TypedFields DEF DefaultsOf, Or
<1>4. d.transport \in {"stdio", "http"}
  <2>1. "transport" \in Fields \ Given
    BY Zenon, FieldNames DEF Given
  <2> QED
    BY Zenon, <1>1, <2>1, TypedFields DEF DefaultsOf
<1>5. ASSUME NEW f \in Switches PROVE d[f] \in BOOLEAN
  <2>1. CASE f = "mtls"
    BY Zenon, <2>1, DefaultsGiven DEF Defaulted
  <2>2. CASE f = "http"
    BY Zenon, <2>2, DefaultsGiven DEF Defaulted
  <2>3. CASE f \notin {"mtls", "http"}
    <3>1. f \in Fields \ Given
      BY Zenon, <2>3, ChoiceNames DEF Given, Switches
    <3>2. d[f] = c[f]
      BY Zenon, <1>1, <3>1 DEF DefaultsOf
    <3> QED
      BY Zenon, <3>2 DEF Typed
  <2> QED
    BY Zenon, <2>1, <2>2, <2>3
<1>6. \A f \in {"idType", "broker", "data", "admin", "runtime", "routing", "store", "enforcer", "podAuth"} :
         d[f] \in Allowed[f] \ {""}
  <2>1. d.idType \in Allowed["idType"] \ {""} /\ d.broker \in Allowed["broker"] \ {""}
    BY Zenon, <1>2 DEF Allowed
  <2>2. d.data \in Allowed["data"] \ {""} /\ d.admin \in Allowed["admin"] \ {""}
    BY Zenon, <1>2 DEF Allowed
  <2>3. d.runtime \in Allowed["runtime"] \ {""} /\ d.routing \in Allowed["routing"] \ {""}
    BY Zenon, <1>2 DEF Allowed
  <2>4. d.store \in Allowed["store"] \ {""}
    BY Zenon, <1>3 DEF Allowed
  <2>5. d.enforcer \in Allowed["enforcer"] \ {""} /\ d.podAuth \in Allowed["podAuth"] \ {""}
    BY Zenon, <1>2 DEF Allowed
  <2> QED
    BY Zenon, <2>1, <2>2, <2>3, <2>4, <2>5
<1> QED
  BY Zenon, <1>2, <1>3, <1>4, <1>5, <1>6 DEF LiveTyped

\* What Parse accepts is coherent: the rules of Validate, with the defaults, are enough.
LEMMA AcceptedIsCoherent ==
    ASSUME NEW c, IsFile(c), Typed(c), Accepted(c)
    PROVE  Coherent(ApplyDefaults(c))
<1>1. PICK d : d = ApplyDefaults(c)
  BY Zenon
<1>2. Validate(d) = {}
  BY Zenon, <1>1 DEF Accepted
<1>3. Defaulted(d) /\ ApplyDefaults(d) = d
  BY Zenon, <1>1, DefaultsGiven, DefaultsIdempotent
<1>4. /\ d.idType \in {"bearer_jwt", "bearer_introspect", "none", "static"}
      /\ d.broker \in {"none", "exchange", "refresh-token"}
      /\ d.runtime \in {"kube", "local"} /\ d.routing \in {"redis", "memory"}
      /\ d.store \in {"redis", "memory"} /\ d.transport \in {"stdio", "http"}
  BY Zenon, <1>1, DefaultsTyped
<1>5. d.runtime = "kube" => d.routing = "redis" /\ d.store = "redis" /\ d.redis
  BY Zenon, <1>2, <1>4, NothingWrong
<1>6. d.tokenMode \in {"env", "file", "header"} =>
        /\ d.idType \in {"bearer_jwt", "bearer_introspect"} /\ d.issuer
        /\ d.broker = "refresh-token" \/ (d.broker = "exchange" /\ d.clientSecret /\ d.audience)
  BY Zenon, <1>2, <1>4, NothingWrong DEF PerUser, Dev
<1>7. d.tokenMode = "header" \/ d.secretItem = "header" => d.http /\ d.transport = "http"
  BY Zenon, <1>2, <1>3, <1>4, NothingWrong DEF Defaulted
<1>8. d.podAuth = "mtls" => d.redis /\ d.mtls
  BY Zenon, <1>2, <1>3, <1>5, NothingWrong DEF Defaulted
<1>9. ~isLoopback(d.data) /\ d.idType \in {"none", "static"} => d.allowInsecure /\ ~d.keycloakAdmin
  BY Zenon, <1>2, NothingWrong DEF Dev
<1>10. d.keycloakAdmin => d.issuer /\ (isLoopback(d.admin) \/ d.adminGuard) /\ d.admin # d.data
  BY Zenon, <1>2, NothingWrong
<1> QED
  BY Zenon, <1>1, <1>3, <1>5, <1>6, <1>7, <1>8, <1>9, <1>10 DEF Coherent

\* Enough for a configuration to break no rule.
Faultless(d) ==
    /\ d.data # d.admin /\ isLoopback(d.admin) /\ ~(d.runtime = "kube" /\ d.routing = "memory")
    /\ (d.routing = "redis" => d.redis) /\ (d.enforcer = "none" => d.allowInsecure) /\ d.enforcer # "proxy"
    /\ d.issuer /\ (Dev(d) => ~(d.broker \in {"exchange", "refresh-token"})) /\ d.idType # "static"
    /\ (Dev(d) => ~d.keycloakAdmin) /\ d.podAuth # "mtls" /\ (Dev(d) => isLoopback(d.data))
    /\ (d.runtime = "kube" => d.store # "memory") /\ d.clientSecret /\ d.digest /\ d.command = "absolute"
    /\ d.tokenMode \in {"none", "env"} /\ d.tokenEnv /\ d.audience
    /\ (d.tokenMode = "env" => d.broker = "exchange")
    /\ d.secretItem = "none" /\ d.egress /\ d.groups = "known"

\* Such a configuration is accepted.
LEMMA FaultlessIsAccepted == ASSUME NEW d, Faultless(d) PROVE Validate(d) = {}
<1>1. ASSUME NEW e \in GlobalErrors(d) PROVE FALSE
  <2>1. CASE e \in {"sameListener", "adminOpen", "memoryRouting", "noRedis", "noEnforcer", "proxy", "issuer"}
    BY Zenon, <1>1, <2>1 DEF GlobalErrors, Faultless
  <2>2. CASE e \in {"devBroker", "tokens", "devAdmin", "mtls", "devOpen", "memoryStore", "clientSecret"}
    BY Zenon, <1>1, <2>2 DEF GlobalErrors, Faultless
  <2> QED
    BY Zenon, <1>1, <2>1, <2>2 DEF GlobalErrors
<1>2. ServerErrors(d) = {}
  BY ZenonT(40) DEF ServerErrors, PerUser, Faultless
<1> QED
  BY Zenon, <1>1, <1>2 DEF Validate

\* The file a gateway on a cluster may start with is a document, and is accepted.
LEMMA BaseFile == IsFile(Base) /\ Typed(Base) /\ Accepted(Base)
<1>1. IsFile(Base)
  BY Zenon DEF IsFile, Fields, Base
<1>2. /\ Base.idType = "" /\ Base.broker = "exchange" /\ Base.data = "" /\ Base.admin = ""
      /\ Base.runtime = "" /\ Base.routing = "" /\ Base.store = "" /\ Base.limits = ""
      /\ Base.enforcer = "" /\ Base.podAuth = "" /\ Base.transport = "stdio" /\ Base.command = "absolute"
      /\ Base.tokenMode = "env" /\ Base.secretItem = "none" /\ Base.sources = "" /\ Base.ports = ""
      /\ Base.groups = "known"
  BY Zenon DEF Base
<1>3. /\ Base.introspection = FALSE /\ Base.issuer = TRUE /\ Base.tokens = FALSE
      /\ Base.keycloakAdmin = TRUE /\ Base.clientSecret = TRUE /\ Base.adminGuard = FALSE
      /\ Base.redis = TRUE /\ Base.proxy = FALSE /\ Base.allowInsecure = FALSE /\ Base.mtls = FALSE
      /\ Base.http = FALSE /\ Base.tokenEnv = TRUE /\ Base.staticRef = FALSE /\ Base.audience = TRUE
      /\ Base.egress = TRUE /\ Base.digest = TRUE
  BY Zenon DEF Base
<1>4. Typed(Base)
  <2>1. \A f \in Switches : Base[f] \in BOOLEAN
    BY Zenon, <1>3 DEF Switches
  <2>2. /\ Base["idType"] \in Allowed["idType"] /\ Base["broker"] \in Allowed["broker"]
        /\ Base["data"] \in Allowed["data"] /\ Base["admin"] \in Allowed["admin"]
        /\ Base["runtime"] \in Allowed["runtime"] /\ Base["routing"] \in Allowed["routing"]
    BY Zenon, <1>2, AllowedValues
  <2>3. /\ Base["store"] \in Allowed["store"] /\ Base["limits"] \in Allowed["limits"]
        /\ Base["enforcer"] \in Allowed["enforcer"] /\ Base["podAuth"] \in Allowed["podAuth"]
        /\ Base["transport"] \in Allowed["transport"] /\ Base["command"] \in Allowed["command"]
    BY Zenon, <1>2, AllowedValues
  <2>4. /\ Base["tokenMode"] \in Allowed["tokenMode"] /\ Base["secretItem"] \in Allowed["secretItem"]
        /\ Base["sources"] \in Allowed["sources"] /\ Base["ports"] \in Allowed["ports"]
        /\ Base["groups"] \in Allowed["groups"]
    BY Zenon, <1>2, AllowedValues
  <2>5. \A f \in DOMAIN Allowed : Base[f] \in Allowed[f]
    BY Zenon, <2>2, <2>3, <2>4, ChoiceNames
  <2> QED
    BY Zenon, <2>1, <2>5 DEF Typed
<1>5. Accepted(Base)
  <2>1. PICK d : d = ApplyDefaults(Base)
    BY Zenon
  <2>2. DefaultsOf(Base, d)
    BY Zenon, <1>1, <2>1, DefaultValues
  <2>3. /\ d.idType = "bearer_jwt" /\ d.broker = "exchange" /\ d.data = "any:1" /\ d.admin = "loopback:2"
        /\ d.runtime = "kube" /\ d.routing = "redis" /\ d.store = "redis"
        /\ d.enforcer = "cilium" /\ d.podAuth = "shared-secret"
    BY ZenonT(40), <1>2, <1>3, <2>2 DEF DefaultsOf, Or
  <2>4. \A f \in Fields \ Given : d[f] = Base[f]
    BY Zenon, <2>2 DEF DefaultsOf
  <2>5. /\ d.issuer = Base.issuer /\ d.keycloakAdmin = Base.keycloakAdmin /\ d.clientSecret = Base.clientSecret
        /\ d.redis = Base.redis /\ d.allowInsecure = Base.allowInsecure /\ d.digest = Base.digest
        /\ d.tokenEnv = Base.tokenEnv /\ d.audience = Base.audience /\ d.egress = Base.egress
        /\ d.command = Base.command /\ d.tokenMode = Base.tokenMode /\ d.secretItem = Base.secretItem
        /\ d.groups = Base.groups
    BY Zenon, <2>4, FieldNames DEF Given
  <2>6. d.issuer /\ d.clientSecret /\ d.redis /\ d.digest /\ d.tokenEnv /\ d.audience /\ d.egress
    BY Zenon, <1>3, <2>5
  <2>7. d.command = "absolute" /\ d.tokenMode = Base.tokenMode /\ d.secretItem = "none" /\ d.groups = "known"
    BY Zenon, <1>2, <2>5
  <2>8. Faultless(d)
    BY Zenon, <1>2, <2>3, <2>6, <2>7 DEF Faultless, isLoopback, Dev
  <2>9. Validate(d) = {}
    BY Zenon, <2>8, FaultlessIsAccepted
  <2> QED
    BY Zenon, <2>1, <2>9 DEF Accepted
<1> QED
  BY Zenon, <1>1, <1>4, <1>5

\* The same of the file for development.
LEMMA LocalBaseFile == IsFile(LocalBase) /\ Typed(LocalBase) /\ Accepted(LocalBase)
<1>1. IsFile(LocalBase)
  <2>1. PICK c : c = Base
    BY Zenon
  <2>2. IsFile(c)
    BY Zenon, <2>1, BaseFile
  <2>3. PICK e : e = [c EXCEPT !.idType = "none", !.keycloakAdmin = FALSE, !.broker = "", !.data = "loopback:1",
                               !.runtime = "local"]
    BY Zenon
  <2>4. IsFile(e)
    BY ZenonT(40), <2>2, <2>3, FieldNames DEF IsFile
  <2>5. LocalBase = [e EXCEPT !.redis = FALSE, !.enforcer = "none", !.allowInsecure = TRUE,
                              !.tokenMode = "none", !.transport = "http"]
    BY Zenon, <2>1, <2>3 DEF LocalBase
  <2> QED
    BY ZenonT(40), <2>4, <2>5, FieldNames DEF IsFile
<1>2. /\ LocalBase.idType = "none" /\ LocalBase.broker = "" /\ LocalBase.data = "loopback:1"
      /\ LocalBase.admin = "" /\ LocalBase.runtime = "local" /\ LocalBase.routing = ""
      /\ LocalBase.store = "" /\ LocalBase.limits = "" /\ LocalBase.enforcer = "none"
      /\ LocalBase.podAuth = "" /\ LocalBase.transport = "http" /\ LocalBase.command = "absolute"
      /\ LocalBase.tokenMode = "none" /\ LocalBase.secretItem = "none" /\ LocalBase.sources = ""
      /\ LocalBase.ports = "" /\ LocalBase.groups = "known"
  BY DEF Base, LocalBase
<1>3. /\ LocalBase.introspection = FALSE /\ LocalBase.issuer = TRUE /\ LocalBase.tokens = FALSE
      /\ LocalBase.keycloakAdmin = FALSE /\ LocalBase.clientSecret = TRUE /\ LocalBase.adminGuard = FALSE
      /\ LocalBase.redis = FALSE /\ LocalBase.proxy = FALSE /\ LocalBase.allowInsecure = TRUE
      /\ LocalBase.mtls = FALSE /\ LocalBase.http = FALSE /\ LocalBase.tokenEnv = TRUE
      /\ LocalBase.staticRef = FALSE /\ LocalBase.audience = TRUE /\ LocalBase.egress = TRUE
      /\ LocalBase.digest = TRUE
  BY DEF Base, LocalBase
<1>4. Typed(LocalBase)
  <2>1. \A f \in Switches : LocalBase[f] \in BOOLEAN
    BY Zenon, <1>3 DEF Switches
  <2>2. /\ LocalBase["idType"] \in Allowed["idType"] /\ LocalBase["broker"] \in Allowed["broker"]
        /\ LocalBase["data"] \in Allowed["data"] /\ LocalBase["admin"] \in Allowed["admin"]
        /\ LocalBase["runtime"] \in Allowed["runtime"] /\ LocalBase["routing"] \in Allowed["routing"]
    BY Zenon, <1>2, AllowedValues
  <2>3. /\ LocalBase["store"] \in Allowed["store"] /\ LocalBase["limits"] \in Allowed["limits"]
        /\ LocalBase["enforcer"] \in Allowed["enforcer"] /\ LocalBase["podAuth"] \in Allowed["podAuth"]
        /\ LocalBase["transport"] \in Allowed["transport"] /\ LocalBase["command"] \in Allowed["command"]
    BY Zenon, <1>2, AllowedValues
  <2>4. /\ LocalBase["tokenMode"] \in Allowed["tokenMode"] /\ LocalBase["secretItem"] \in Allowed["secretItem"]
        /\ LocalBase["sources"] \in Allowed["sources"] /\ LocalBase["ports"] \in Allowed["ports"]
        /\ LocalBase["groups"] \in Allowed["groups"]
    BY ZenonT(40), <1>2, AllowedValues
  <2>5. \A f \in DOMAIN Allowed : LocalBase[f] \in Allowed[f]
    BY Zenon, <2>2, <2>3, <2>4, ChoiceNames
  <2> QED
    BY Zenon, <2>1, <2>5 DEF Typed
<1>5. Accepted(LocalBase)
  <2>1. PICK d : d = ApplyDefaults(LocalBase)
    BY Zenon
  <2>2. DefaultsOf(LocalBase, d)
    BY Zenon, <1>1, <2>1, DefaultValues
  <2>3. /\ d.idType = "none" /\ d.broker = "none" /\ d.data = "loopback:1" /\ d.admin = "loopback:2"
        /\ d.runtime = "local" /\ d.routing = "memory" /\ d.store = "memory"
        /\ d.enforcer = "none" /\ d.podAuth = "shared-secret"
    BY ZenonT(40), <1>2, <1>3, <2>2 DEF DefaultsOf, Or
  <2>4. \A f \in Fields \ Given : d[f] = LocalBase[f]
    BY Zenon, <2>2 DEF DefaultsOf
  <2>5. /\ d.issuer = LocalBase.issuer /\ d.keycloakAdmin = LocalBase.keycloakAdmin /\ d.clientSecret = LocalBase.clientSecret
        /\ d.redis = LocalBase.redis /\ d.allowInsecure = LocalBase.allowInsecure /\ d.digest = LocalBase.digest
        /\ d.tokenEnv = LocalBase.tokenEnv /\ d.audience = LocalBase.audience /\ d.egress = LocalBase.egress
        /\ d.command = LocalBase.command /\ d.tokenMode = LocalBase.tokenMode /\ d.secretItem = LocalBase.secretItem
        /\ d.groups = LocalBase.groups
    BY Zenon, <2>4, FieldNames DEF Given
  <2>6. d.issuer /\ ~d.keycloakAdmin /\ d.clientSecret /\ d.allowInsecure /\ d.digest /\ d.tokenEnv /\ d.audience /\ d.egress
    BY Zenon, <1>3, <2>5
  <2>7. d.command = "absolute" /\ d.tokenMode = LocalBase.tokenMode /\ d.secretItem = "none" /\ d.groups = "known"
    BY Zenon, <1>2, <2>5
  <2>8. Faultless(d)
    BY Zenon, <1>2, <2>3, <2>6, <2>7 DEF Faultless, isLoopback, Dev
  <2>9. Validate(d) = {}
    BY Zenon, <2>8, FaultlessIsAccepted
  <2> QED
    BY Zenon, <2>1, <2>9 DEF Accepted
<1> QED
  BY Zenon, <1>1, <1>4, <1>5

ConfigIInv ==
    /\ IsFile(file) /\ Typed(file) /\ edits \in 0 .. MaxEdits
    /\ LiveTyped(live) /\ LiveConfigCoherent

\* An edit is of one field, to a value of its section.
LEMMA EditInv ==
    ASSUME ConfigIInv, NEW f \in Fields, NEW v, EditFile(f, v),
           f \in Switches => v \in BOOLEAN, f \in DOMAIN Allowed => v \in Allowed[f]
    PROVE  ConfigIInv'
<1>1. file' = [file EXCEPT ![f] = v] /\ edits' = edits + 1 /\ edits < MaxEdits /\ live' = live
  BY Zenon DEF EditFile
<1>2. edits' \in 0 .. MaxEdits
  BY <1>1, ConfigAssumption DEF ConfigIInv
<1>3. IsFile(file') /\ \A x \in Fields : file'[x] = IF x = f THEN v ELSE file[x]
  BY Zenon, <1>1 DEF ConfigIInv, IsFile
<1>4. Typed(file')
  BY Zenon, <1>3, ChoiceNames DEF ConfigIInv, Typed
<1>5. LiveTyped(live') /\ LiveConfigCoherent'
  BY Zenon, <1>1 DEF ConfigIInv, LiveConfigCoherent
<1> QED
  BY Zenon, <1>2, <1>3, <1>4, <1>5 DEF ConfigIInv

\* Every edit and every reload preserves the invariant.
LEMMA ConfigStepInv == ConfigIInv /\ [ConfigNext]_configVars => ConfigIInv'
<1> SUFFICES ASSUME ConfigIInv, [ConfigNext]_configVars PROVE ConfigIInv'
  BY Zenon
<1>1. CASE UNCHANGED configVars
  BY Zenon, <1>1 DEF configVars, ConfigIInv, LiveConfigCoherent
<1>2. ASSUME NEW s \in Sections, NEW f \in s.flags, EditFile(f, ~file[f]) PROVE ConfigIInv'
  <2>1. f \in Switches /\ f \in Fields /\ f \notin DOMAIN Allowed
    BY Zenon, SectionsOk, ChoiceNames DEF SectionOk
  <2>2. (~file[f]) \in BOOLEAN
    BY Zenon
  <2> QED
    BY Zenon, <1>2, <2>1, <2>2, EditInv
<1>3. ASSUME NEW s \in Sections, NEW f \in DOMAIN s.choices, NEW v \in s.choices[f], EditFile(f, v) PROVE ConfigIInv'
  <2>1. f \in DOMAIN Allowed /\ f \in Fields /\ f \notin Switches /\ v \in Allowed[f]
    BY Zenon, SectionsOk, ChoiceNames DEF SectionOk
  <2> QED
    BY Zenon, <1>3, <2>1, EditInv
<1>4. CASE reload
  <2>1. file' = file /\ edits' = edits
    BY Zenon, <1>4 DEF reload
  <2>2. CASE Accepted(file)
    <3>1. PICK d : d = ApplyDefaults(file)
      BY Zenon
    <3>2. live' = d
      BY Zenon, <1>4, <2>2, <3>1 DEF reload
    <3>3. IsFile(file) /\ Typed(file)
      BY Zenon DEF ConfigIInv
    <3>4. LiveTyped(d)
      BY Zenon, <3>1, <3>3, DefaultsTyped
    <3>5. Coherent(d)
      BY Zenon, <2>2, <3>1, <3>3, AcceptedIsCoherent
    <3> QED
      BY Zenon, <2>1, <3>2, <3>4, <3>5 DEF ConfigIInv, LiveConfigCoherent
  <2>3. CASE ~Accepted(file)
    <3>1. live' = live
      BY Zenon, <1>4, <2>3 DEF reload
    <3> QED
      BY Zenon, <2>1, <3>1 DEF ConfigIInv, LiveConfigCoherent
  <2> QED
    BY Zenon, <2>2, <2>3
<1> QED
  BY Zenon, <1>1, <1>2, <1>3, <1>4 DEF ConfigNext

\* The configuration the process starts with is one Parse accepts.
LEMMA ConfigInitInv == ConfigInit => ConfigIInv
<1> SUFFICES ASSUME ConfigInit PROVE ConfigIInv
  BY Zenon
<1>1. IsFile(file) /\ Typed(file) /\ Accepted(file)
  BY Zenon, BaseFile, LocalBaseFile DEF ConfigInit
<1>2. PICK d : d = ApplyDefaults(file)
  BY Zenon
<1>3. LiveTyped(d) /\ Coherent(d)
  BY Zenon, <1>1, <1>2, DefaultsTyped, AcceptedIsCoherent
<1>4. live = d
  BY Zenon, <1>2 DEF ConfigInit
<1>5. edits \in 0 .. MaxEdits
  BY ConfigAssumption DEF ConfigInit
<1> QED
  BY Zenon, <1>1, <1>3, <1>4, <1>5 DEF ConfigIInv, LiveConfigCoherent

\* Whatever the sequence of edits and reloads, the configuration in use is one whose parts fit
\* together: Validate and ApplyDefaults leave no gap between their rules.
THEOREM LiveConfigFits == ConfigSpec => []LiveConfigCoherent
<1>1. ConfigIInv => LiveConfigCoherent
  BY Zenon DEF ConfigIInv
<1> QED
  BY <1>1, ConfigInitInv, ConfigStepInv, PTL DEF ConfigSpec

-----------------------------------------------------------------------------
(***************************************************************************)
(* ConfigSync.  While a Sync that read nothing stale runs, the servers it  *)
(* has done have the loaded hash; when it prunes, what the file does not   *)
(* want is gone or still to be pruned.                                     *)
(***************************************************************************)

SyncRecs ==
    [at : {"rest"}, outcome : {"ok", "error"}] \cup [at : {"upsert", "prune"}, todo : SUBSET Names]

Upserted ==
    /\ sync.todo \subseteq Servers(loaded)
    /\ ~stale => \A n \in Servers(loaded) \ sync.todo : objs[n] = loaded

Pruning ==
    /\ sync.todo \cap Servers(loaded) = {}
    /\ ~stale => /\ \A n \in Servers(loaded) : objs[n] = loaded
                 /\ \A n \in Names \ Servers(loaded) : objs[n] = 0 \/ n \in sync.todo

SyncIInv ==
    /\ loaded \in Hashes /\ reloads \in 0 .. MaxReloads /\ stale \in BOOLEAN
    /\ objs \in [Names -> 0 .. MaxHash] /\ cached \in [Names -> 0 .. MaxHash]
    /\ sync \in SyncRecs
    /\ sync.at = "upsert" => Upserted
    /\ sync.at = "prune" => Pruning
    /\ SyncExact
    /\ \A n \in Names : objs[n] # 0 => n \in Servers(objs[n])

USE SyncAssumption

\* The servers of a file are names.
LEMMA ServersNamed == \A h : Servers(h) \subseteq Names
BY Zenon DEF Servers, Names

\* Where Sync is.
LEMMA SyncPlaces ==
    ASSUME NEW r \in SyncRecs
    PROVE  /\ r.at \in {"rest", "upsert", "prune"}
           /\ r.at # "rest" => r.todo \subseteq Names
           /\ r.at = "rest" => r.outcome \in {"ok", "error"}
BY Zenon DEF SyncRecs

\* Sync begins with all servers to do.
LEMMA SyncStarts ==
    ASSUME NEW h \in Hashes
    PROVE  Start(h) \in SyncRecs /\ Start(h).at = "upsert" /\ Start(h).todo = Servers(h)
BY Zenon, ServersNamed DEF Start, SyncRecs

\* The invariant holds when the controller starts, over what it finds.
LEMMA SyncInitInv == SyncInit => SyncIInv
<1> SUFFICES ASSUME SyncInit PROVE SyncIInv
  BY Zenon
<1>1. sync \in SyncRecs /\ sync.at = "upsert" /\ sync.todo = Servers(loaded) /\ stale = FALSE
  BY Zenon, SyncStarts DEF SyncInit
<1>2. objs \in [Names -> 0 .. MaxHash] /\ \A n \in Names : objs[n] # 0 => n \in Servers(objs[n])
  BY DEF SyncInit, Render
<1>3. sync # Resting("ok")
  BY <1>1 DEF Resting
<1>4. Upserted
  BY Zenon, <1>1 DEF Upserted
<1>5. loaded \in Hashes /\ reloads \in 0 .. MaxReloads /\ cached = objs
  BY DEF SyncInit
<1>6. stale \in BOOLEAN
  BY Zenon, <1>1
<1> QED
  BY Zenon, <1>1, <1>2, <1>3, <1>4, <1>5, <1>6 DEF SyncIInv, SyncExact

\* Every step of a Sync, and what happens beside it, preserves the invariant.
LEMMA SyncStepInv == SyncIInv /\ [SyncNext]_syncVars => SyncIInv'
<1> SUFFICES ASSUME SyncIInv, [SyncNext]_syncVars PROVE SyncIInv'
  BY Zenon
<1>r. Resting("error") \in SyncRecs /\ Resting("error").at = "rest" /\ Resting("error") # Resting("ok")
      /\ Resting("ok") \in SyncRecs /\ Resting("ok").at = "rest"
  BY Zenon DEF Resting, SyncRecs
<1>1. ASSUME NEW h \in Hashes, SyncReload(h) PROVE SyncIInv'
  <2>1. /\ loaded' = h /\ reloads' \in 0 .. MaxReloads /\ sync' = Start(h) /\ stale' = FALSE
        /\ UNCHANGED <<objs, cached>>
    BY <1>1 DEF SyncReload, SyncIInv
  <2> QED
    BY Zenon, <1>r, <2>1, SyncStarts DEF SyncIInv, Upserted, SyncExact
<1>2. CASE Restart
  <2>1. /\ reloads' \in 0 .. MaxReloads /\ sync' = Start(loaded) /\ stale' = FALSE /\ cached' = objs
        /\ UNCHANGED <<loaded, objs>>
    BY <1>2 DEF Restart, SyncIInv
  <2> QED
    BY Zenon, <1>r, <2>1, SyncStarts DEF SyncIInv, Upserted, SyncExact
<1>3. ASSUME NEW n \in Names, Upsert(n) PROVE SyncIInv'
  <2>1. /\ sync.at = "upsert" /\ n \in sync.todo /\ sync.todo \subseteq Servers(loaded)
        /\ UNCHANGED <<loaded, reloads, cached>> /\ n \in Servers(loaded)
        /\ loaded \in 1 .. MaxHash /\ loaded # 0
    BY <1>3 DEF Upsert, SyncIInv, Upserted, Hashes
  <2>2. stale' \in BOOLEAN /\ (~stale' => ~stale /\ cached[n] = objs[n])
    BY Zenon, <1>3 DEF Upsert, SyncIInv
  <2>3. CASE sync' = Resting("error") /\ UNCHANGED objs
    BY Zenon, <1>r, <2>1, <2>2, <2>3 DEF SyncIInv, SyncExact
  <2>4. CASE sync' = [sync EXCEPT !.todo = @ \ {n}] /\ (IF cached[n] = loaded THEN UNCHANGED objs
                                                         ELSE objs' = [objs EXCEPT ![n] = loaded])
    <3>1. PICK d : d = sync
      BY Zenon
    <3>2. d \in SyncRecs /\ d.at = "upsert"
      BY Zenon, <2>1, <3>1 DEF SyncIInv
    <3>3. sync' \in SyncRecs /\ sync'.at = "upsert" /\ sync'.todo = sync.todo \ {n}
      BY Zenon, <2>4, <3>1, <3>2 DEF SyncRecs
    <3>4. /\ objs' \in [Names -> 0 .. MaxHash]
          /\ \A m \in Names : m # n => objs'[m] = objs[m]
          /\ objs'[n] \in {objs[n], loaded}
          /\ ~stale' => objs'[n] = loaded
      BY <2>1, <2>2, <2>4 DEF SyncIInv
    <3>5. Upserted'
      BY Zenon, <2>1, <2>2, <3>3, <3>4, ServersNamed DEF SyncIInv, Upserted
    <3>6. \A m \in Names : objs'[m] # 0 => m \in Servers(objs'[m])
      BY Zenon, <2>1, <3>4 DEF SyncIInv
    <3>7. sync' # Resting("ok")
      BY Zenon, <1>r, <3>3
    <3> QED
      BY Zenon, <2>1, <2>2, <3>3, <3>4, <3>5, <3>6, <3>7 DEF SyncIInv, SyncExact
  <2> QED
    BY Zenon, <1>3, <2>3, <2>4 DEF Upsert
<1>4. CASE SyncList
  <2>1. /\ sync.at = "upsert" /\ sync.todo = {} /\ UNCHANGED <<loaded, reloads, objs, cached>>
        /\ stale' \in BOOLEAN
        /\ ~stale' => ~stale /\ \A n \in Names : cached[n] = 0 <=> objs[n] = 0
    BY Zenon, <1>4 DEF SyncList, SyncIInv
  <2>2. sync' = [at |-> "prune", todo |-> Leftovers]
    BY Zenon, <1>4 DEF SyncList
  <2>3. sync' \in SyncRecs /\ sync'.at = "prune" /\ sync'.todo = Leftovers
    BY Zenon, <2>2 DEF SyncRecs, Leftovers
  <2>4. Pruning'
    <3>1. Leftovers \cap Servers(loaded) = {}
      BY Zenon DEF Leftovers
    <3>2. ~stale' => \A n \in Servers(loaded) : objs[n] = loaded
      BY Zenon, <2>1 DEF SyncIInv, Upserted
    <3>3. ~stale' => \A n \in Names \ Servers(loaded) : objs[n] = 0 \/ n \in Leftovers
      BY Zenon, <2>1 DEF Leftovers
    <3> QED
      BY Zenon, <2>1, <2>3, <3>1, <3>2, <3>3 DEF Pruning
  <2>5. sync' # Resting("ok")
    BY Zenon, <1>r, <2>3
  <2> QED
    BY Zenon, <2>1, <2>3, <2>4, <2>5 DEF SyncIInv, SyncExact
<1>5. ASSUME NEW n \in Names, Prune(n) PROVE SyncIInv'
  <2>1. /\ sync.at = "prune" /\ n \in sync.todo /\ UNCHANGED <<loaded, reloads, cached, stale>>
        /\ n \notin Servers(loaded)
    BY Zenon, <1>5 DEF Prune, SyncIInv, Pruning
  <2>2. CASE sync' = Resting("error") /\ UNCHANGED objs
    BY Zenon, <1>r, <2>1, <2>2 DEF SyncIInv, SyncExact
  <2>3. CASE sync' = [sync EXCEPT !.todo = @ \ {n}] /\ objs' = [objs EXCEPT ![n] = 0]
    <3>1. PICK d : d = sync
      BY Zenon
    <3>2. d \in SyncRecs /\ d.at = "prune"
      BY Zenon, <2>1, <3>1 DEF SyncIInv
    <3>3. sync' \in SyncRecs /\ sync'.at = "prune" /\ sync'.todo = sync.todo \ {n}
      BY Zenon, <2>3, <3>1, <3>2 DEF SyncRecs
    <3>4. /\ objs' \in [Names -> 0 .. MaxHash] /\ objs'[n] = 0
          /\ \A m \in Names : m # n => objs'[m] = objs[m]
      BY <2>1, <2>3 DEF SyncIInv
    <3>5. Pruning'
      BY Zenon, <2>1, <3>3, <3>4, ServersNamed DEF SyncIInv, Pruning
    <3>6. \A m \in Names : objs'[m] # 0 => m \in Servers(objs'[m])
      BY Zenon, <3>4 DEF SyncIInv
    <3>7. sync' # Resting("ok")
      BY Zenon, <1>r, <3>3
    <3> QED
      BY Zenon, <2>1, <3>3, <3>4, <3>5, <3>6, <3>7 DEF SyncIInv, SyncExact
  <2> QED
    BY Zenon, <1>5, <2>2, <2>3 DEF Prune
<1>6. ASSUME NEW n \in Names, CacheCatchesUp(n) PROVE SyncIInv'
  <2>1. cached' \in [Names -> 0 .. MaxHash] /\ UNCHANGED <<loaded, reloads, objs, sync, stale>>
    BY Zenon, <1>6 DEF CacheCatchesUp, SyncIInv
  <2> QED
    BY Zenon, <2>1 DEF SyncIInv, Upserted, Pruning, SyncExact
<1>7. CASE SyncReturns
  <2>1. /\ sync.at = "prune" /\ sync.todo = {} /\ sync' = Resting("ok")
        /\ UNCHANGED <<loaded, reloads, objs, cached, stale>>
    BY Zenon, <1>7 DEF SyncReturns
  <2>2. ~stale => objs = Render(loaded)
    <3> SUFFICES ASSUME ~stale PROVE objs = Render(loaded)
      BY Zenon
    <3>1. \A n \in Names : objs[n] = IF n \in Servers(loaded) THEN loaded ELSE 0
      BY Zenon, <2>1 DEF SyncIInv, Pruning
    <3>2. objs \in [Names -> 0 .. MaxHash]
      BY Zenon DEF SyncIInv
    <3> QED
      BY Zenon, <3>1, <3>2 DEF Render
  <2> QED
    BY Zenon, <1>r, <2>1, <2>2 DEF SyncIInv, SyncExact
<1>8. CASE SyncFails
  BY Zenon, <1>8, <1>r DEF SyncFails, SyncIInv, SyncExact
<1>9. CASE UNCHANGED syncVars
  BY Zenon, <1>9 DEF syncVars, SyncIInv, Upserted, Pruning, SyncExact
<1> QED
  BY Zenon, <1>1, <1>2, <1>3, <1>4, <1>5, <1>6, <1>7, <1>8, <1>9 DEF SyncNext

\* A Sync that returns no error leaves exactly the ServerTypes of the loaded file, whatever
\* earlier ones left half done, unless it read objects the cache had not caught up with.
THEOREM SyncLeavesTheFile == SyncSpec => []SyncExact
<1>1. SyncIInv => SyncExact
  BY Zenon DEF SyncIInv
<1> QED
  BY <1>1, SyncInitInv, SyncStepInv, PTL DEF SyncSpec

HIDE SyncAssumption

-----------------------------------------------------------------------------
(***************************************************************************)
(* Egress.  OnReady takes an address over on the word of the controller's  *)
(* cache, which may show a pod that is gone and whose address another pod  *)
(* has.  CacheInv says why it does not take it from a session that is      *)
(* Ready: the cache is one earlier state, in which no two pods had an      *)
(* address in common, a session gets a second pod only once the cache      *)
(* shows that the first is gone, and a Ready session's pod is in the       *)
(* cache.                                                                  *)
(***************************************************************************)

ListTypeOK ==
    /\ addr \in [Sess -> Ips \cup {NoIp}] /\ podsSeen \in [Sess -> Ips \cup {NoIp}]
    /\ phase \in [Sess -> {"starting", "ready", "ending", "gone"}]
    /\ lag \subseteq Sess /\ \A s \in lag : phase[s] = "ready"
    /\ cm \in Lists

\* Two pods have two addresses.
Apart(a) == \A s, t \in Sess : s # t /\ a[s] # NoIp => a[s] # a[t]

CacheInv ==
    /\ Apart(addr) /\ Apart(podsSeen)
    /\ \A s \in Sess : podsSeen[s] # NoIp => addr[s] \in {NoIp, podsSeen[s]}
    /\ \A s \in Sess \ missed : phase[s] = "ready" /\ addr[s] # NoIp => podsSeen[s] = addr[s]

EgressIInv == ListTypeOK /\ CacheInv /\ ListFollowsPods

USE EgressAssumption

\* Steps of pods and of the watches leave the list alone; a pod that starts gives its session an
\* address only while the session is not Ready, or is recorded as missed.
LEMMA ClusterInv ==
    ASSUME EgressIInv, NEW s \in Sess, PodStarts(s) \/ PodGone(s) \/ SeePods \/ SeeSession(s)
    PROVE  EgressIInv'
<1> USE DEF EgressIInv, ListTypeOK, CacheInv, Apart, ListFollowsPods, Lists
<1>1. CASE PodStarts(s)
  BY <1>1 DEF PodStarts, Seen
<1>2. CASE PodGone(s)
  BY ZenonT(40), <1>2 DEF PodGone
<1>3. CASE SeePods
  BY Zenon, <1>3 DEF SeePods
<1>4. CASE SeeSession(s)
  BY Zenon, <1>4 DEF SeeSession
<1> QED
  BY Zenon, <1>1, <1>2, <1>3, <1>4

\* Publishing an entry takes no address from another session that is Ready.
LEMMA PublishInv ==
    ASSUME EgressIInv, NEW s \in Sess, OnReady(s) \/ OnReadyUnreported(s)
    PROVE  EgressIInv'
<1> USE DEF EgressIInv, ListTypeOK, Lists
<1>1. podsSeen[s] \in Ips /\ phase[s] \in {"starting", "ready"}
  BY Zenon DEF OnReady, OnReadyUnreported, Seen
<1>2. cm' = [cm EXCEPT ![podsSeen[s]] = s] /\ UNCHANGED <<addr, podsSeen, missed>>
  BY Zenon DEF OnReady, OnReadyUnreported
<1>3. \/ phase' = [phase EXCEPT ![s] = "ready"] /\ lag' = lag \cup {s}
      \/ UNCHANGED <<phase, lag>>
  BY Zenon DEF OnReady, OnReadyUnreported
<1>4. ListTypeOK'
  BY <1>1, <1>2, <1>3
<1>5. CacheInv'
  BY Zenon, <1>1, <1>2, <1>3 DEF CacheInv, Apart
<1>6. ListFollowsPods'
  <2>1. ASSUME NEW t \in Sess, t \notin missed, phase'[t] = "ready", addr[t] # NoIp
        PROVE  cm'[addr[t]] = t
    <3>1. podsSeen[t] = addr[t]
      BY Zenon, <1>5, <1>2, <2>1 DEF CacheInv
    <3>2. CASE t = s
      BY Zenon, <1>1, <1>2, <3>1, <3>2
    <3>3. CASE t # s
      <4>1. addr[t] # podsSeen[s] /\ addr[t] \in Ips
        BY <1>1, <2>1, <3>1, <3>3 DEF CacheInv, Apart
      <4>2. cm[addr[t]] = t
        BY Zenon, <1>3, <2>1, <3>3 DEF ListFollowsPods
      <4> QED
        BY Zenon, <1>1, <1>2, <4>1, <4>2
    <3> QED
      BY Zenon, <3>2, <3>3
  <2>2. ASSUME NEW t \in Sess, NEW ip \in Ips, phase'[t] = "gone" PROVE cm'[ip] # t
    BY ZenonT(40), <1>1, <1>2, <1>3, <2>2 DEF ListFollowsPods
  <2> QED
    BY Zenon, <1>2, <2>1, <2>2 DEF ListFollowsPods
<1> QED
  BY Zenon, <1>4, <1>5, <1>6

\* A session that is not Ready, ends, or is cleaned up keeps the entries of the others.
LEMMA EndingInv ==
    ASSUME EgressIInv, NEW s \in Sess, NotReady(s) \/ SessionEnds(s) \/ OnCleanup(s)
    PROVE  EgressIInv'
<1> USE DEF EgressIInv, ListTypeOK, CacheInv, ListFollowsPods, Lists
<1>1. CASE NotReady(s)
  BY Zenon, <1>1 DEF NotReady, Seen
<1>2. CASE SessionEnds(s)
  BY ZenonT(40), <1>2 DEF SessionEnds
<1>3. CASE OnCleanup(s)
  BY <1>3 DEF OnCleanup, Cleaned
<1> QED
  BY Zenon, <1>1, <1>2, <1>3

\* The invariant is inductive; the proxy's own steps do not touch what it is about.
LEMMA EgressNextInv == EgressIInv /\ [EgressNext]_egressVars => EgressIInv'
<1> SUFFICES ASSUME EgressIInv, [EgressNext]_egressVars PROVE EgressIInv'
  BY Zenon
<1>1. ASSUME UNCHANGED <<addr, podsSeen, phase, lag, missed, cm>> PROVE EgressIInv'
  BY Zenon, <1>1 DEF EgressIInv, ListTypeOK, CacheInv, Apart, ListFollowsPods, Lists
<1>2. ASSUME NEW s \in Sess, NEW host \in Dests, NEW ips \in Resolutions, ServeHTTP(s, host, ips)
      PROVE  EgressIInv'
  BY Zenon, <1>1, <1>2 DEF ServeHTTP
<1>3. CASE LoadAllowlist \/ UNCHANGED egressVars
  BY Zenon, <1>1, <1>3 DEF LoadAllowlist, egressVars
<1>4. CASE SeePods
  <2>1. CASE Sess = {}
    BY Zenon, <1>4, <2>1 DEF SeePods, EgressIInv, ListTypeOK, CacheInv, Apart, ListFollowsPods, Lists
  <2> QED
    BY Zenon, <1>4, <2>1, ClusterInv
<1> QED
  BY Zenon, <1>2, <1>3, <1>4, ClusterInv, PublishInv, EndingInv DEF EgressNext

\* The pod of a Ready session is the one its address stands for in the published list, and a
\* session that is gone has left no entry, for any number of sessions that share the addresses.
THEOREM PublishedListIsCurrent == EgressSpec => []ListFollowsPods
<1>1. EgressInit => EgressIInv
  BY ZenonT(40) DEF EgressInit, EmptyList, EgressIInv, ListTypeOK, CacheInv, Apart, ListFollowsPods, Lists
<1>2. EgressIInv => ListFollowsPods
  BY Zenon DEF EgressIInv
<1> QED
  BY <1>1, <1>2, EgressNextInv, PTL DEF EgressSpec

\* A rule that matches a host is the host itself, or a wildcard for its first label.
LEMMA MatchesOneLabel ==
    ASSUME NEW s \in Sess, NEW rule \in HostRules(s), NEW host \in Dests, Matches(rule, host)
    PROVE  rule = host \/ (rule[1] = "*" /\ Len(host) = Len(rule) /\ Tail(rule) = Tail(host))
<1>1. rule \in {<<"*", "corp">>, <<"api", "net">>}
  BY Zenon DEF HostRules
<1>2. CASE rule = <<"api", "net">>
  BY Zenon, <1>2 DEF Matches
<1>3. CASE rule = <<"*", "corp">>
  <2>1. rule = host \/ Tail(host) = Tail(rule)
    BY Zenon DEF Matches
  <2>2. Tail(rule) = <<"corp">> /\ Len(rule) = 2 /\ rule[1] = "*" /\ Len(<<"corp">>) = 1
    BY <1>3
  <2>3. CASE host = <<"a", "corp">>
    BY Zenon, <2>1, <2>2, <2>3
  <2>4. CASE host = <<"b", "a", "corp">>
    <3>1. Len(Tail(host)) = 2
      BY <2>4
    <3> QED
      BY <2>1, <2>2, <3>1
  <2>5. CASE host = <<"corp">>
    <3>1. Tail(host) = << >>
      BY <2>5
    <3>2. Tail(host) # <<"corp">>
      BY <3>1
    <3> QED
      BY Zenon, <2>1, <2>2, <3>2
  <2>6. CASE host = <<"api", "net">>
    <3>1. Tail(host) = <<"net">>
      BY <2>6
    <3> QED
      BY Zenon, <2>1, <2>2, <2>6, <3>1
  <2> QED
    BY Zenon, <2>3, <2>4, <2>5, <2>6 DEF Dests
<1> QED
  BY Zenon, <1>1, <1>2, <1>3

\* Once its session is Ready and the proxy has the current list, a pod is connected only to what
\* its own server type declares (Allowlist.Allows, ServeHTTP).
THEOREM TunnelsAreDeclared == EgressSpec => []TunnelsDeclared
<1>1. EgressInit => EgressIInv /\ TunnelsDeclared
  BY DEF EgressInit, EmptyList, EgressIInv, ListTypeOK, CacheInv, Apart, ListFollowsPods, Lists,
         TunnelsDeclared, NoTunnel
<1>2. EgressIInv /\ TunnelsDeclared /\ [EgressNext]_egressVars => TunnelsDeclared'
  <2> SUFFICES ASSUME EgressIInv, TunnelsDeclared, [EgressNext]_egressVars PROVE TunnelsDeclared'
    BY Zenon
  <2>1. CASE UNCHANGED tunnel
    BY Zenon, <2>1 DEF TunnelsDeclared
  <2>2. ASSUME NEW s \in Sess, NEW host \in Dests, NEW ips \in Resolutions, ServeHTTP(s, host, ips)
        PROVE  TunnelsDeclared'
    <3>1. /\ tunnel' = [of |-> s, host |-> host, target |-> Target(ips),
                        current |-> allow = cm /\ phase[s] = "ready" /\ s \notin missed]
          /\ addr[s] # NoIp /\ Allows(allow, addr[s], host)
      BY Zenon, <2>2 DEF ServeHTTP
    <3>2. ASSUME tunnel'.current
          PROVE  \E rule \in HostRules(s) :
                     rule = host \/ (rule[1] = "*" /\ Len(host) = Len(rule) /\ Tail(rule) = Tail(host))
      <4>1. allow = cm /\ phase[s] = "ready" /\ s \notin missed
        BY Zenon, <3>1, <3>2
      <4>2. cm[addr[s]] = s
        BY Zenon, <3>1, <4>1 DEF EgressIInv, ListFollowsPods
      <4>3. PICK rule \in HostRules(s) : Matches(rule, host)
        BY Zenon, <3>1, <4>1, <4>2 DEF Allows
      <4> QED
        BY Zenon, <4>3, MatchesOneLabel
    <3>3. tunnel'.of = s /\ tunnel'.host = host
      BY Zenon, <3>1
    <3> QED
      BY Zenon, <3>2, <3>3 DEF TunnelsDeclared
  <2> QED
    BY Zenon, <2>1, <2>2 DEF EgressNext, PodStarts, PodGone, OnReady, OnReadyUnreported, SeeSession, NotReady,
                      SessionEnds, OnCleanup, SeePods, LoadAllowlist, egressVars
<1> QED
  BY <1>1, <1>2, EgressNextInv, PTL DEF EgressSpec

HIDE EgressAssumption

-----------------------------------------------------------------------------
(***************************************************************************)
(* Policy.  What Grants and ToolRule give grows with the groups of the     *)
(* caller, for every configuration, not only those of Docs.                *)
(***************************************************************************)

LOCAL INSTANCE NaturalsInduction
LOCAL INSTANCE WellFoundedInduction

\* The least element of a nonempty set of numbers.
LEMMA LeastIndex ==
    ASSUME NEW S, S \subseteq Nat, S # {}
    PROVE  \E n \in S : \A y \in S : n <= y
<1>1. PICK R : R = {ss \in Nat \X Nat : ss[1] < ss[2]}
  BY Zenon
<1>2. IsWellFoundedOn(R, Nat)
  BY Zenon, <1>1, NatLessThanWellFounded DEF OpToRel
<1>3. PICK n \in S : \A y \in S : ~(<<y, n>> \in R)
  BY Zenon, <1>2, WFMin
<1>4. ASSUME NEW y \in S, y < n PROVE FALSE
  <2>1. <<y, n>> \in R
    BY Zenon, <1>1, <1>4
  <2> QED
    BY Zenon, <1>3, <2>1
<1> QED
  BY <1>4

\* A nonempty set of numbers with an upper bound has a largest one: podsPerUser is defined.
LEMMA MaxOf ==
    ASSUME NEW N \in Nat, NEW S, S \subseteq 0 .. N, S # {}
    PROVE  Max(S) \in S /\ \A y \in S : y <= Max(S)
<1>1. PICK D : D = {N - y : y \in S}
  BY Zenon
<1>2. D \subseteq Nat /\ D # {}
  <2>1. \A y \in S : N - y \in Nat
    OBVIOUS
  <2>2. PICK y \in S : TRUE
    BY Zenon
  <2>3. N - y \in D
    BY Zenon, <1>1
  <2> QED
    BY Zenon, <1>1, <2>1, <2>3
<1>3. PICK d \in D : \A y \in D : d <= y
  BY Zenon, <1>2, LeastIndex
<1>4. PICK x \in S : d = N - x
  BY Zenon, <1>1, <1>3
<1>5. \A y \in S : N - y \in D
  BY Zenon, <1>1
<1>6. \A y \in S : x >= y
  BY <1>3, <1>4, <1>5
<1>7. Max(S) \in S /\ \A y \in S : Max(S) >= y
  BY Zenon, <1>6 DEF Max
<1> QED
  BY Zenon, <1>7

\* What the schema says of a configuration: caps are numbers, up to some largest one, and
\* every group has its settings.
IsDoc(doc, N) ==
    /\ doc.podsPerUser \in 0 .. N
    /\ \A g \in DOMAIN doc.groups : doc.groups[g].podsPerUser \in 0 .. N /\ doc.groups[g].admin \in BOOLEAN

\* The cap of more groups is at least that of fewer.
LEMMA CapGrows ==
    ASSUME NEW doc, NEW N \in Nat, IsDoc(doc, N),
           NEW M \in SUBSET DOMAIN doc.groups, NEW L \in SUBSET M
    PROVE  /\ PodsPerUser(doc, L) \in 0 .. N /\ PodsPerUser(doc, M) \in 0 .. N
           /\ doc.podsPerUser <= PodsPerUser(doc, L)
           /\ PodsPerUser(doc, L) <= PodsPerUser(doc, M)
<1>1. PICK A : A = {doc.podsPerUser} \cup {doc.groups[g].podsPerUser : g \in L}
  BY Zenon
<1>2. PICK B : B = {doc.podsPerUser} \cup {doc.groups[g].podsPerUser : g \in M}
  BY Zenon
<1>3. A \subseteq B /\ B \subseteq 0 .. N /\ A # {} /\ doc.podsPerUser \in A
  BY Zenon, <1>1, <1>2 DEF IsDoc
<1>4. Max(A) \in A /\ \A y \in A : y <= Max(A)
  BY Zenon, <1>3, MaxOf
<1>5. Max(B) \in B /\ \A y \in B : y <= Max(B)
  BY Zenon, <1>3, MaxOf
<1>6. PodsPerUser(doc, L) = Max(A) /\ PodsPerUser(doc, M) = Max(B)
  BY Zenon, <1>1, <1>2 DEF PodsPerUser
<1> QED
  BY Zenon, <1>3, <1>4, <1>5, <1>6

\* A caller q with the groups of p and more, of the same scope and client, may use what p may,
\* under every configuration.
LEMMA GrantsMonotone ==
    ASSUME NEW doc, NEW N \in Nat, IsDoc(doc, N), NEW p, NEW q,
           p.groups \subseteq q.groups, p.adminScope = q.adminScope, p.client = q.client
    PROVE  /\ Grants(doc, p).types \subseteq Grants(doc, q).types
           /\ Grants(doc, p).groups \subseteq Grants(doc, q).groups
           /\ Grants(doc, p).admin => Grants(doc, q).admin
           /\ Grants(doc, p).podsPerUser <= Grants(doc, q).podsPerUser
           /\ (GroupsOf(doc, p) = GroupsOf(doc, q)) => Grants(doc, p) = Grants(doc, q)
<1>1. PICK L : L = GroupsOf(doc, p)
  BY Zenon
<1>2. PICK M : M = GroupsOf(doc, q)
  BY Zenon
<1>3. L \subseteq M /\ M \subseteq DOMAIN doc.groups
  BY Zenon, <1>1, <1>2 DEF GroupsOf
<1>4. PodsPerUser(doc, L) <= PodsPerUser(doc, M)
  BY Zenon, <1>3, CapGrows
<1>5. /\ Grants(doc, p).types = UNION {TypesOf(doc, g) : g \in L}
      /\ Grants(doc, q).types = UNION {TypesOf(doc, g) : g \in M}
      /\ Grants(doc, p).groups = L /\ Grants(doc, q).groups = M
      /\ Grants(doc, p).podsPerUser = PodsPerUser(doc, L) /\ Grants(doc, q).podsPerUser = PodsPerUser(doc, M)
  BY Zenon, <1>1, <1>2 DEF Grants
<1>6. /\ Grants(doc, p).admin = (p.adminScope \/ \E g \in L : doc.groups[g].admin)
      /\ Grants(doc, q).admin = (q.adminScope \/ \E g \in M : doc.groups[g].admin)
  BY Zenon, <1>1, <1>2 DEF Grants
<1>7. Grants(doc, p).admin => Grants(doc, q).admin
  BY Zenon, <1>3, <1>6
<1>8. (L = M) => Grants(doc, p) = Grants(doc, q)
  BY Zenon, <1>1, <1>2 DEF Grants
<1> QED
  BY ZenonT(40), <1>1, <1>2, <1>3, <1>4, <1>5, <1>7, <1>8

\* Who sees a tool sees it, under the same name, with more groups.
LEMMA RuleMonotone ==
    ASSUME NEW t, NEW before, NEW after, before.groups \subseteq after.groups,
           before.admin => after.admin, NEW tool, ToolRule(t, before, tool).visible
    PROVE  ToolRule(t, after, tool) = ToolRule(t, before, tool)
<1>1. MaySee(t, before, tool) => MaySee(t, after, tool)
  BY Zenon DEF MaySee
<1>2. ~Hidden.visible
  BY Zenon DEF Hidden
<1> QED
  BY Zenon, <1>1, <1>2 DEF ToolRule

PolicyIInv ==
    /\ authz \in Docs /\ rules \in Rules
    /\ who \in [groups : SUBSET AllGroups, adminScope : BOOLEAN, client : {"", "cli"}]

\* The configurations of Docs are configurations.
LEMMA DocsAreDocs == \A doc \in Docs : IsDoc(doc, 2) /\ DOMAIN doc.groups = {"dev", "ops"}
  BY DEF Docs, IsDoc

\* Callers come with one group more and nothing else changes.
LEMMA PolicyStepInv == PolicyIInv /\ [PolicyNext]_policyVars => PolicyIInv'
<1> SUFFICES ASSUME PolicyIInv, [PolicyNext]_policyVars PROVE PolicyIInv'
  BY Zenon
<1>1. CASE UNCHANGED policyVars
  BY Zenon, <1>1 DEF PolicyIInv, policyVars
<1>2. ASSUME NEW g \in AllGroups, Join(g) PROVE PolicyIInv'
  <2>1. authz' = authz /\ rules' = rules /\ who' = [who EXCEPT !.groups = @ \cup {g}]
    BY Zenon, <1>2 DEF Join
  <2>2. who' \in [groups : SUBSET AllGroups, adminScope : BOOLEAN, client : {"", "cli"}]
    BY Zenon, <2>1 DEF PolicyIInv
  <2> QED
    BY Zenon, <2>1, <2>2 DEF PolicyIInv
<1> QED
  BY Zenon, <1>1, <1>2 DEF PolicyNext

\* A step of the caller, under every configuration: nothing is taken away.
LEMMA JoinGrows ==
    ASSUME PolicyIInv, NEW g \in AllGroups, Join(g)
    PROVE  LET before == Grants(authz, who)
               after == Grants(authz, who') IN
           /\ before.types \subseteq after.types
           /\ before.admin => after.admin
           /\ before.podsPerUser <= after.podsPerUser
           /\ \A tool \in {"read", "write"} :
                ToolRule(rules, before, tool).visible => ToolRule(rules, after, tool) = ToolRule(rules, before, tool)
           /\ who'.groups \ who.groups = {"extra"} => after = before
<1>1. IsDoc(authz, 2) /\ DOMAIN authz.groups = {"dev", "ops"}
  BY Zenon, DocsAreDocs DEF PolicyIInv
<1>2. /\ who'.groups = who.groups \cup {g} /\ who'.adminScope = who.adminScope
      /\ who'.client = who.client /\ g \notin who.groups
  BY Zenon DEF PolicyIInv, Join
<1>3. who.groups \subseteq who'.groups
  BY Zenon, <1>2
<1>4. PICK before : before = Grants(authz, who)
  BY Zenon
<1>5. PICK after : after = Grants(authz, who')
  BY Zenon
<1>6. /\ before.types \subseteq after.types /\ before.groups \subseteq after.groups
      /\ (before.admin => after.admin) /\ before.podsPerUser <= after.podsPerUser
      /\ (GroupsOf(authz, who) = GroupsOf(authz, who')) => before = after
  BY ZenonT(40), <1>1, <1>2, <1>3, <1>4, <1>5, GrantsMonotone
<1>7. ASSUME who'.groups \ who.groups = {"extra"} PROVE before = after
  <2>1. GroupsOf(authz, who) = GroupsOf(authz, who')
    BY Zenon, <1>1, <1>2, <1>7 DEF GroupsOf
  <2> QED
    BY Zenon, <1>6, <2>1
<1>8. \A tool \in {"read", "write"} :
        ToolRule(rules, before, tool).visible => ToolRule(rules, after, tool) = ToolRule(rules, before, tool)
  BY ZenonT(40), <1>6, RuleMonotone
<1>9. /\ before.types \subseteq after.types
      /\ before.admin => after.admin
      /\ before.podsPerUser <= after.podsPerUser
      /\ who'.groups \ who.groups = {"extra"} => after = before
  BY Zenon, <1>6, <1>7
<1> QED
  BY ZenonT(40), <1>4, <1>5, <1>8, <1>9

\* A caller with one group more may do what they could before (Grants, ToolRule), and a group the
\* configuration does not name changes nothing, in every step.
THEOREM MoreGroupsMoreGrants == PolicySpec => GrantsGrow
<1>1. PolicyInit => PolicyIInv
  BY Zenon DEF PolicyInit, PolicyIInv
<1>2. ASSUME PolicyIInv, PolicyNext
      PROVE  LET before == Grants(authz, who)
                 after == Grants(authz, who') IN
             /\ before.types \subseteq after.types
             /\ before.admin => after.admin
             /\ before.podsPerUser <= after.podsPerUser
             /\ \A tool \in {"read", "write"} :
                  ToolRule(rules, before, tool).visible => ToolRule(rules, after, tool) = ToolRule(rules, before, tool)
             /\ who'.groups \ who.groups = {"extra"} => after = before
  BY Zenon, <1>2, JoinGrows DEF PolicyNext
<1> QED
  BY <1>1, <1>2, PolicyStepInv, PTL DEF PolicySpec, GrantsGrow

-----------------------------------------------------------------------------
(***************************************************************************)
(* The state of every part is well formed.                                 *)
(***************************************************************************)

\* The proxy dials an address of the answer that is not denied, however many the name has.
LEMMA TargetIsChecked ==
    ASSUME NEW ips, Len(ips) \in Nat, Target(ips) # "none"
    PROVE  \E i \in 1 .. Len(ips) : Target(ips) = ips[i] /\ ips[i] # "denied"
<1>1. PICK good : good = {i \in 1 .. Len(ips) : ips[i] # "denied"}
  BY Zenon
<1>2. good # {} /\ good \subseteq Nat
  BY <1>1 DEF Target
<1>3. PICK n : n = CHOOSE i \in good : \A j \in good : i <= j
  BY Zenon
<1>4. n \in good
  BY Zenon, <1>2, <1>3, LeastIndex
<1>5. Target(ips) = ips[n]
  BY Zenon, <1>1, <1>2, <1>3 DEF Target
<1> QED
  BY Zenon, <1>1, <1>4, <1>5

\* Of the answers of the resolver it is the public one.
LEMMA TargetIsPublic ==
    ASSUME NEW ips \in Resolutions, Target(ips) # "none"
    PROVE  Target(ips) = "public"
<1>1. Len(ips) \in Nat /\ \A i \in 1 .. Len(ips) : ips[i] \in {"public", "denied"}
  <2>1. CASE ips = <<"public">>
    BY <2>1
  <2>2. CASE ips = <<"denied", "public">>
    BY <2>2
  <2>3. CASE ips = <<"denied">>
    BY <2>3
  <2> QED
    BY Zenon, <2>1, <2>2, <2>3 DEF Resolutions
<1> QED
  BY Zenon, <1>1, TargetIsChecked

TunnelTyped ==
    tunnel # NoTunnel => tunnel.of \in Sess /\ tunnel.host \in Dests /\ tunnel.target = "public"

\* The proxy's list is one of the lists, and a tunnel leads to a checked address.
LEMMA EgressTypeStep ==
    EgressIInv /\ EgressTypeOK /\ [EgressNext]_egressVars => EgressTypeOK'
<1> SUFFICES ASSUME EgressIInv, EgressTypeOK, [EgressNext]_egressVars PROVE EgressTypeOK'
  BY Zenon
<1>1. ListTypeOK'
  BY Zenon, EgressNextInv DEF EgressIInv
<1>2. allow' \in Lists
  BY Zenon DEF EgressTypeOK, EgressNext, PodStarts, PodGone, OnReady, OnReadyUnreported, SeeSession, NotReady,
         SessionEnds, OnCleanup, ServeHTTP, SeePods, LoadAllowlist, egressVars
<1>3. missed' \subseteq Sess
  BY SMTT(30) DEF EgressTypeOK, EgressNext, PodStarts, PodGone, OnReady, OnReadyUnreported, SeeSession, NotReady,
         SessionEnds, OnCleanup, ServeHTTP, SeePods, LoadAllowlist, egressVars
<1>4. TunnelTyped'
  <2>1. CASE UNCHANGED tunnel
    BY Zenon, <2>1 DEF EgressTypeOK, TunnelTyped
  <2>2. ASSUME NEW s \in Sess, NEW host \in Dests, NEW ips \in Resolutions, ServeHTTP(s, host, ips)
        PROVE  TunnelTyped'
    <3>1. tunnel'.of = s /\ tunnel'.host = host /\ tunnel'.target = Target(ips) /\ Target(ips) # "none"
      BY Zenon, <2>2 DEF ServeHTTP
    <3> QED
      BY Zenon, <3>1, TargetIsPublic DEF TunnelTyped
  <2> QED
    BY Zenon, <2>1, <2>2 DEF EgressNext, PodStarts, PodGone, OnReady, OnReadyUnreported, SeeSession, NotReady,
                      SessionEnds, OnCleanup, SeePods, LoadAllowlist, egressVars
<1> QED
  BY Zenon, <1>1, <1>2, <1>3, <1>4 DEF ListTypeOK, EgressTypeOK, TunnelTyped

\* What Grants returns is well formed.
LEMMA PolicyTyped == PolicyIInv => PolicyTypeOK
<1> SUFFICES ASSUME PolicyIInv PROVE PolicyTypeOK
  BY Zenon
<1>1. PICK doc \in Docs : doc = authz
  BY Zenon DEF PolicyIInv
<1>2. PICK L : L = GroupsOf(authz, who)
  BY Zenon
<1>3. IsDoc(doc, 2) /\ DOMAIN doc.groups = {"dev", "ops"} /\ doc.podsPerUser = 1
  BY Zenon, DocsAreDocs DEF Docs
<1>4. L \subseteq DOMAIN doc.groups
  BY Zenon, <1>1, <1>2 DEF GroupsOf
<1>5. PodsPerUser(doc, L) \in 0 .. 2 /\ 1 <= PodsPerUser(doc, L)
  BY ZenonT(40), <1>3, <1>4, CapGrows
<1>6. PICK grants : grants = Grants(authz, who)
  BY Zenon
<1>7. /\ grants.types = UNION {TypesOf(doc, g) : g \in L} /\ grants.groups = L
      /\ grants.podsPerUser = PodsPerUser(doc, L)
  BY Zenon, <1>1, <1>2, <1>6 DEF Grants
<1>8. grants.admin \in BOOLEAN /\ grants.lazy \in BOOLEAN
  BY Zenon, <1>6 DEF Grants
<1>9. grants.types \subseteq doc.servers
  BY Zenon, <1>7 DEF TypesOf
<1>10. grants.podsPerUser \in Nat \ {0}
  BY SMTT(30), <1>5, <1>7
<1>11. authz \in Docs /\ rules \in Rules /\ who.groups \subseteq AllGroups
  BY Zenon DEF PolicyIInv
<1> QED
  BY ZenonT(40), <1>1, <1>4, <1>6, <1>7, <1>8, <1>9, <1>10, <1>11 DEF PolicyTypeOK

\* The same of the configuration, with its defaults.
LEMMA ConfigTyped == ConfigIInv => ConfigTypeOK
<1> SUFFICES ASSUME ConfigIInv PROVE ConfigTypeOK
  BY Zenon
<1>1. ASSUME NEW s \in Sections, NEW f \in s.flags PROVE file[f] \in BOOLEAN /\ live[f] \in BOOLEAN
  BY Zenon, SectionsOk DEF SectionOk, ConfigIInv, Typed, LiveTyped
<1>2. ASSUME NEW s \in Sections, NEW f \in DOMAIN s.choices
      PROVE  /\ file[f] \in s.choices[f]
             /\ f \in {"idType", "broker", "data", "admin", "runtime", "routing", "store", "enforcer", "podAuth"} =>
                  live[f] \in s.choices[f] \ {""}
  BY Zenon, SectionsOk DEF SectionOk, ConfigIInv, Typed, LiveTyped
<1> QED
  BY Zenon, <1>1, <1>2 DEF ConfigTypeOK, ConfigIInv

\* Every part's state stays well formed, for every value of the constants.
THEOREM ControlTypeCorrect == ControlSpec => []ControlTypeOK
<1> DEFINE Inv == /\ ConfigIInv /\ SyncIInv /\ PolicyIInv /\ DirIInv /\ EgressIInv /\ EgressTypeOK
<1>1. ControlInit => Inv
  <2> SUFFICES ASSUME ControlInit PROVE Inv
    BY Zenon
  <2>1. ConfigInit /\ SyncInit /\ DirInit /\ EgressInit
    BY Zenon DEF ControlInit
  <2>2. EgressIInv /\ EgressTypeOK
    BY Zenon, <2>1 DEF EgressInit, EmptyList, EgressIInv, ListTypeOK, CacheInv, Apart, ListFollowsPods, Lists, EgressTypeOK
  <2>3. PolicyIInv
    <3>1. CASE part = "policy"
      BY Zenon, <3>1 DEF ControlInit, PolicyInit, PolicyIInv
    <3>2. CASE part # "policy"
      <4>1. \E d : d \in Docs
        <5>1. PICK gs : gs = [g \in {"dev", "ops"} |-> [types |-> {}, admin |-> FALSE, podsPerUser |-> 0, lazy |-> FALSE]]
          BY Zenon
        <5>2. [groups |-> gs, servers |-> {"git", "jira"}, podsPerUser |-> 1, always |-> {}, lazy |-> FALSE,
               lazyForGroups |-> {"ops"}, lazyForClients |-> {"cli"}] \in Docs
          BY Zenon, <5>1 DEF Docs
        <5> QED
          BY Zenon, <5>2
      <4>2. \E t : t \in Rules
        <5>1. PICK gs : gs = [t \in {"write"} |-> {"ops"}]
          BY Zenon
        <5>2. [expose |-> "", names |-> {"read"}, groups |-> gs, rename |-> [t \in {"read"} |-> "fetch"]] \in Rules
          BY Zenon, <5>1 DEF Rules
        <5> QED
          BY Zenon, <5>2
      <4>3. authz \in Docs /\ rules \in Rules
        BY Zenon, <3>2, <4>1, <4>2 DEF ControlInit
      <4>4. who \in [groups : SUBSET AllGroups, adminScope : BOOLEAN, client : {"", "cli"}]
        <5>1. who = [groups |-> {}, adminScope |-> FALSE, client |-> ""]
          BY Zenon, <3>2 DEF ControlInit
        <5> QED
          BY Zenon, <5>1
      <4> QED
        BY Zenon, <4>3, <4>4 DEF PolicyIInv
    <3> QED
      BY Zenon, <3>1, <3>2
  <2> QED
    BY ZenonT(40), <2>1, <2>2, <2>3, ConfigInitInv, SyncInitInv, DirInitInv
<1>2. Inv /\ [ControlNext]_controlVars => Inv'
  <2> SUFFICES ASSUME Inv, [ControlNext]_controlVars PROVE Inv'
    BY Zenon
  <2>1. /\ [ConfigNext]_configVars /\ [SyncNext]_syncVars /\ [PolicyNext]_policyVars
        /\ [DirNext]_dirVars /\ [EgressNext]_egressVars
    BY Zenon DEF ControlNext, controlVars, Unless
  <2> QED
    BY ZenonT(40), <2>1, ConfigStepInv, SyncStepInv, PolicyStepInv, DirStepInv, EgressNextInv, EgressTypeStep
<1>3. Inv => ControlTypeOK
  <2>1. SyncIInv => SyncTypeOK
    BY Zenon, SyncPlaces DEF SyncIInv, SyncTypeOK, SyncRecs
  <2> QED
    BY Zenon, <2>1, ConfigTyped, PolicyTyped DEF ControlTypeOK, DirIInv
<1> QED
  BY <1>1, <1>2, <1>3, PTL DEF ControlSpec
=============================================================================
