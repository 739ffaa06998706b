------------------------------- MODULE Policy -------------------------------
(***************************************************************************)
(* The access policy, adapters/policy/groups: what a caller may use        *)
(* (Grants) and which tools of a server they see (ToolRule).  Both are     *)
(* functions of the configuration and of the groups and scopes of the      *)
(* caller's token; lists that NewGrants sorts are sets.                    *)
(***************************************************************************)
EXTENDS Naturals, FiniteSetsExt

VARIABLES authz, \* the configuration's authorization and gateway.tools
          rules, \* the tools section of a server
          who    \* the principal: groups, scope, client name

policyVars == <<authz, rules, who>>

\* The cap: the gateway's, or a higher one of a group.
PodsPerUser(doc, mine) == Max({doc.podsPerUser} \cup {doc.groups[g].podsPerUser : g \in mine})

\* Configured groups the caller is in, or that everybody is in (always_groups).
GroupsOf(doc, p) == {g \in DOMAIN doc.groups : g \in p.groups \cup doc.always}

\* A group's server types that the configuration has; "*" stands for all of them.
TypesOf(doc, g) ==
    IF "*" \in doc.groups[g].types THEN doc.servers ELSE doc.groups[g].types \cap doc.servers

Grants(doc, p) ==
    LET mine == GroupsOf(doc, p) IN
    [types       |-> UNION {TypesOf(doc, g) : g \in mine},
     groups      |-> mine,
     admin       |-> p.adminScope \/ \E g \in mine : doc.groups[g].admin,
     podsPerUser |-> PodsPerUser(doc, mine),
     lazy        |-> \/ doc.lazy \/ \E g \in mine : doc.groups[g].lazy \/ g \in doc.lazyForGroups
                     \/ p.client \in doc.lazyForClients]

\* Mutant: every group of the caller must be one of the tool's.
MaySeeOnly(t, grants, tool) ==
    tool \in DOMAIN t.groups => grants.admin \/ grants.groups \subseteq t.groups[tool]

\* A tool that names groups is for their members and for administrators.
MaySee(t, grants, tool) ==
    tool \in DOMAIN t.groups => grants.admin \/ t.groups[tool] \cap grants.groups # {}

Hidden == [visible |-> FALSE, name |-> ""]

\* tools: {expose, groups, rename} of a server.
ToolRule(t, grants, tool) ==
    IF \/ t.expose = "allow" /\ tool \notin t.names
       \/ t.expose = "deny" /\ tool \in t.names
       \/ ~MaySee(t, grants, tool)
    THEN Hidden
    ELSE [visible |-> TRUE, name |-> IF tool \in DOMAIN t.rename THEN t.rename[tool] ELSE tool]

-----------------------------------------------------------------------------

\* Configurations of two groups and two servers, and of a third that a group names and that is
\* gone; and the tool rules of a server.
Docs ==
    [groups : [{"dev", "ops"} ->
                 [types : {{}, {"git"}, {"gone", "jira"}, {"*"}}, admin : BOOLEAN, podsPerUser : {0, 2}, lazy : {FALSE}]],
     servers : {{"git", "jira"}}, podsPerUser : {1}, always : {{}, {"dev"}},
     lazy : {FALSE}, lazyForGroups : {{"ops"}}, lazyForClients : {{"cli"}}]

Rules ==
    [expose : {"", "allow", "deny"}, names : {{"read"}},
     groups : {[t \in {"read"} |-> {"dev", "ops"}], [t \in {"write"} |-> {"ops"}]},
     rename : {[t \in {"read"} |-> "fetch"]}]

AllGroups == {"dev", "ops", "extra"}

PolicyInit ==
    /\ authz \in Docs /\ rules \in Rules
    /\ who \in [groups : {{}}, adminScope : BOOLEAN, client : {"", "cli"}]

\* The caller comes with a token of one group more.
Join(g) ==
    /\ g \notin who.groups /\ who' = [who EXCEPT !.groups = @ \cup {g}]
    /\ UNCHANGED <<authz, rules>>

PolicyNext == \E g \in AllGroups : Join(g)

PolicySpec == PolicyInit /\ [][PolicyNext]_policyVars

-----------------------------------------------------------------------------

PolicyTypeOK ==
    LET grants == Grants(authz, who) IN
    /\ authz \in Docs /\ rules \in Rules /\ who.groups \subseteq AllGroups
    /\ grants.types \subseteq authz.servers /\ grants.groups \subseteq DOMAIN authz.groups
    /\ grants.podsPerUser \in Nat \ {0} /\ grants.admin \in BOOLEAN /\ grants.lazy \in BOOLEAN

\* What a caller may do they may do with one group more: the server types, the administration,
\* the cap and the tools of Grants and ToolRule only grow, whatever the configuration, and a
\* group the configuration does not name changes nothing.
GrantsGrow ==
    [][LET before == Grants(authz, who)
           after == Grants(authz, who') IN
       /\ before.types \subseteq after.types
       /\ before.admin => after.admin
       /\ before.podsPerUser <= after.podsPerUser
       /\ \A tool \in {"read", "write"} :
            ToolRule(rules, before, tool).visible => ToolRule(rules, after, tool) = ToolRule(rules, before, tool)
       /\ who'.groups \ who.groups = {"extra"} => after = before]_policyVars
=============================================================================
