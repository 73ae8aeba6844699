----------------------------- MODULE Governance -----------------------------
(***************************************************************************)
(* The built-in policy: governance.Visible and Authorize, the claim        *)
(* expansion and the WHERE clause planner.Build derives from a decision,   *)
(* and the discovery listings of serving.Service.  They are functions of   *)
(* the model's governance spec and of the caller, so the state is that     *)
(* pair: a published spec, and an identity the directory and the identity  *)
(* provider change one role, group or claim at a time.                     *)
(*                                                                         *)
(* A glob is the set of metrics it matches; a row filter the set of rows   *)
(* it admits once the claims it names are written into it.                 *)
(***************************************************************************)
EXTENDS FiniteSets

CONSTANTS
    Group, Role,    \* labels a token carries; both name policies
    Metric, Field,
    IsDimension,    \* fields declared as dimensions; filters may name any field
    Uses,           \* [Metric -> SUBSET Field] fields inside its expression
    Pattern,        \* allowMetrics globs
    Malformed,      \* globs that do not compile; validation does not look
    Matches,        \* [Pattern -> SUBSET Metric]
    RowFilter,
    Claim, ClaimValue, Absent,
    Names,          \* [RowFilter -> SUBSET Claim] placeholders in the predicate
    Row,
    Admits,         \* [RowFilter -> [Claims -> SUBSET Row]]
    NoSpec,         \* the model carries no governance spec
    NoRole          \* no defaultRole

Name == Group \cup Role
Claims == [Claim -> ClaimValue \cup {Absent}]
Policy == [allowMetrics : SUBSET Pattern, denyFields : SUBSET Field, rowFilters : SUBSET RowFilter]

(* What validation lets through: the default role is a defined one          *)
Specs == UNION {[roles : [D -> Policy], defaultRole : D \cup {NoRole}] : D \in SUBSET Name}
Identities == [groups : SUBSET Group, roles : SUBSET Role, claims : Claims]

(* A request: its metrics, and the fields of its dimensions and filters     *)
Requests == [metrics : SUBSET Metric \ {{}}, dimensions : SUBSET Field, filters : SUBSET Field]

ASSUME GovernanceAssumption ==
    /\ Absent \notin ClaimValue /\ NoRole \notin Name /\ NoSpec \notin Specs
    /\ Malformed \subseteq Pattern /\ IsDimension \subseteq Field
    /\ Uses \in [Metric -> SUBSET Field] /\ Matches \in [Pattern -> SUBSET Metric]
    /\ Names \in [RowFilter -> SUBSET Claim] /\ Admits \in [RowFilter -> [Claims -> SUBSET Row]]

VARIABLES
    g,      \* the published model's governance spec, or NoSpec
    id      \* the caller

vars == <<g, id>>

-----------------------------------------------------------------------------
PolicyRoles(i) == i.groups \cup i.roles

(* The labels whose policies count                                          *)
Wanted(s, i) ==
    IF PolicyRoles(i) = {} /\ s.defaultRole # NoRole THEN {s.defaultRole} ELSE PolicyRoles(i)

(* Visible, on a spec: labels without a policy, or whose policy allows no   *)
(* metrics, are dropped.  Nobody left, or a glob of any of them that does   *)
(* not compile, is an error: then nobody grants anything.                   *)
Compiles(s, i) == \A r \in Wanted(s, i) \cap DOMAIN s.roles :
    s.roles[r].allowMetrics \cap Malformed = {}
Visible(s, i) ==
    {r \in Wanted(s, i) \cap DOMAIN s.roles : s.roles[r].allowMetrics # {} /\ Compiles(s, i)}

PermitsMetric(s, r, m) == \E p \in s.roles[r].allowMetrics : m \in Matches[p]
PermitsField(s, r, f) == f \notin s.roles[r].denyFields

(* Every field a request reads, the ones inside its metrics included        *)
RefsOf(q) == q.dimensions \cup q.filters \cup UNION {Uses[m] : m \in q.metrics}

(* authorizing: the roles that permit the whole request on their own        *)
AuthorizingPooled(s, i, q) ==
    IF /\ \A m \in q.metrics : \E r \in Visible(s, i) : PermitsMetric(s, r, m)
       /\ \A f \in RefsOf(q) : \E r \in Visible(s, i) : PermitsField(s, r, f)
    THEN Visible(s, i) ELSE {}
Authorizing(s, i, q) == {r \in Visible(s, i) :
    /\ \A m \in q.metrics : PermitsMetric(s, r, m)
    /\ \A f \in RefsOf(q) : PermitsField(s, r, f)}

(* Authorize: the row filters of the roles that granted the request, one    *)
(* group a role, or none at all when one of them has none                   *)
RowFilterGroupsOfVisible(s, i, q) ==
    IF \E r \in Visible(s, i) : s.roles[r].rowFilters = {}
    THEN {} ELSE {s.roles[r].rowFilters : r \in Authorizing(s, i, q)}
RowFilterGroups(s, i, q) ==
    IF \E r \in Authorizing(s, i, q) : s.roles[r].rowFilters = {}
    THEN {} ELSE {s.roles[r].rowFilters : r \in Authorizing(s, i, q)}

(* ExpandClaims over the decision's filters: one claim the caller does not  *)
(* carry refuses the whole request                                          *)
Expands(groups, claims) ==
    \A f \in UNION groups : \A c \in Names[f] : claims[c] # Absent

(* whereClauses: filters of a role conjoined, roles disjoined               *)
Selected(groups, claims) ==
    {x \in Row : groups = {} \/ \E grp \in groups : \A f \in grp : x \in Admits[f][claims]}

(* A requested dimension is one the model declares; a filter need not be     *)
Resolves(q) == q.dimensions \subseteq IsDimension

(* planner.Build as far as policy goes: refused, or the rows it reads       *)
Refused == [ok |-> FALSE, rows |-> {}]
Build(s, i, q) ==
    CASE ~Resolves(q) -> Refused
      [] Resolves(q) /\ s = NoSpec -> [ok |-> TRUE, rows |-> Row]
      [] /\ Resolves(q) /\ s # NoSpec
         /\ \/ Authorizing(s, i, q) = {}
            \/ ~Expands(RowFilterGroups(s, i, q), i.claims) -> Refused
      [] OTHER -> [ok |-> TRUE, rows |-> Selected(RowFilterGroups(s, i, q), i.claims)]

(* Visibility.Metric and Field: within reach of some role                   *)
MetricVisible(s, i, m) == s = NoSpec \/ \E r \in Visible(s, i) : PermitsMetric(s, r, m)
FieldVisible(s, i, f) == s = NoSpec \/ \E r \in Visible(s, i) : PermitsField(s, r, f)

ListMetrics(s, i) == {m \in Metric : MetricVisible(s, i, m)}
ListDimensionsOfEvery(s, i) ==
    {f \in IsDimension : s = NoSpec \/ \A r \in Visible(s, i) : PermitsField(s, r, f)}
ListDimensions(s, i) == {f \in IsDimension : FieldVisible(s, i, f)}

-----------------------------------------------------------------------------
Init ==
    /\ g \in Specs \cup {NoSpec}
    /\ id = [groups |-> {}, roles |-> {}, claims |-> [c \in Claim |-> Absent]]

JoinGroup(x) ==
    /\ x \notin id.groups /\ id' = [id EXCEPT !.groups = @ \cup {x}] /\ UNCHANGED g
LeaveGroup(x) ==
    /\ x \in id.groups /\ id' = [id EXCEPT !.groups = @ \ {x}] /\ UNCHANGED g
GainRole(r) ==
    /\ r \notin id.roles /\ id' = [id EXCEPT !.roles = @ \cup {r}] /\ UNCHANGED g
LoseRole(r) ==
    /\ r \in id.roles /\ id' = [id EXCEPT !.roles = @ \ {r}] /\ UNCHANGED g
SetClaim(c, v) ==
    /\ id.claims[c] # v /\ id' = [id EXCEPT !.claims[c] = v] /\ UNCHANGED g

Next ==
    \/ \E x \in Group : JoinGroup(x) \/ LeaveGroup(x)
    \/ \E r \in Role : GainRole(r) \/ LoseRole(r)
    \/ \E c \in Claim, v \in ClaimValue \cup {Absent} : SetClaim(c, v)

Spec == Init /\ [][Next]_vars

-----------------------------------------------------------------------------
(* The spec and the caller keep their types.                                 *)
TypeOK == g \in Specs \cup {NoSpec} /\ id \in Identities

(* The same caller with one label only                                      *)
Only(i, r) == [groups |-> {r} \cap Group, roles |-> {r} \ Group, claims |-> i.claims]
CarriesAll(i) == \A c \in Claim : i.claims[c] # Absent

(* Roles are evaluated whole and never pooled: a request that is granted is   *)
(* granted by some single role, and reads exactly the rows those roles would   *)
(* each show on their own; and only a missing claim, or a glob that does not   *)
(* compile, can refuse what a role held grants (Visibility, Authorize,         *)
(* whereClauses).                                                              *)
NoPooling == g # NoSpec => \A q \in Requests :
    LET alone == {r \in Wanted(g, id) : Build(g, Only(id, r), q).ok}
        whole == Build(g, id, q)
    IN  /\ whole.ok => alone # {} /\ whole.rows = UNION {Build(g, Only(id, r), q).rows : r \in alone}
        /\ ~whole.ok /\ alone # {} => ~CarriesAll(id) \/ ~Compiles(g, id)

(* Discovery hides nothing a caller may ask for by name: of any request the    *)
(* policy grants, the metrics and the dimensions are all listed to the caller,   *)
(* and so are the filtered fields that are declared dimensions (ListMetrics,     *)
(* ListDimensions).  Filters on other modelled fields are granted unlisted.      *)
QueryableIsListed == \A q \in Requests : Build(g, id, q).ok =>
    /\ q.metrics \subseteq ListMetrics(g, id)
    /\ q.dimensions \cup (q.filters \cap IsDimension) \subseteq ListDimensions(g, id)

(* A label that, by itself, can run no query, and breaks none                *)
GrantsNothing(s, i, r) ==
    Compiles(s, Only(i, r)) /\ \A q \in Requests : Authorizing(s, Only(i, r), q) = {}
Gained == PolicyRoles(id)' \ PolicyRoles(id)

(* "A role that grants nothing would otherwise cancel another role's           *)
(* denyFields and row filters just by being present": gaining, beside roles    *)
(* already held, one that can run no query changes the outcome of no request.  *)
InertStep ==
    (/\ g # NoSpec /\ PolicyRoles(id) # {} /\ id.claims' = id.claims
     /\ PolicyRoles(id) \subseteq PolicyRoles(id')
     /\ \A r \in Gained : GrantsNothing(g, id, r))
    => \A q \in Requests : Build(g, id, q)' = Build(g, id, q)
EmptyRoleIsInert == [][InertStep]_vars
=============================================================================
