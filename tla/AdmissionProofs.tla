--------------------------- MODULE AdmissionProofs --------------------------
(***************************************************************************)
(* Proofs about what admits a request: a slot of the Limiter, for any      *)
(* number of requests and slots, and the built-in policy of Governance, for *)
(* every spec, identity and request.  The two share no state.              *)
(***************************************************************************)
EXTENDS Governance, Limiter, FiniteSetTheorems, TLAPS

-----------------------------------------------------------------------------
(* The policy.  The argument rests on one fact: a role is judged from its   *)
(* own policy alone, so the roles that authorize a request for a caller are *)
(* the ones that would authorize it for a caller holding only them          *)
(* (AloneAuthorizes).                                                       *)

(* A spec maps each role it defines to a policy of its own.                 *)
LEMMA SpecType ==
    ASSUME NEW s \in Specs
    PROVE  /\ DOMAIN s.roles \subseteq Name
           /\ s.defaultRole \in DOMAIN s.roles \cup {NoRole}
           /\ \A r \in DOMAIN s.roles : s.roles[r] \in Policy
<1>1. PICK D \in SUBSET Name : s \in [roles : [D -> Policy], defaultRole : D \cup {NoRole}]
  BY DEF Specs
<1> QED
  BY <1>1

(* A caller reduced to one of its labels wants exactly that label's policy. *)
LEMMA OnlyWants ==
    ASSUME NEW s, NEW i, NEW r
    PROVE  Wanted(s, Only(i, r)) = {r} /\ Only(i, r).claims = i.claims
<1>1. PolicyRoles(Only(i, r)) = {r}
  BY DEF PolicyRoles, Only
<1> QED
  BY <1>1 DEF Wanted, Only

(* A role is judged from its own policy alone, if every policy of the       *)
(* caller compiles (authorizing).                                           *)
LEMMA AloneAuthorizes ==
    ASSUME NEW s, NEW i, NEW q, NEW r \in Wanted(s, i), Compiles(s, i)
    PROVE  Authorizing(s, Only(i, r), q) = {r} \cap Authorizing(s, i, q)
<1>1. Wanted(s, Only(i, r)) = {r}
  BY OnlyWants
<1>2. Compiles(s, Only(i, r))
  BY <1>1 DEF Compiles
<1>3. Visible(s, Only(i, r)) = {r} \cap Visible(s, i)
  BY <1>1, <1>2 DEF Visible
<1> QED
  BY <1>3 DEF Authorizing

(* With no policy that compiles, nothing is authorized.                     *)
LEMMA BrokenAuthorizesNothing ==
    ASSUME NEW s, NEW i, NEW q, ~Compiles(s, i)
    PROVE  Authorizing(s, i, q) = {}
BY DEF Authorizing, Visible

(* The filter groups of a caller with one authorizing label.                *)
LEMMA AloneGroups ==
    ASSUME NEW s, NEW i, NEW q, NEW r, Authorizing(s, i, q) = {r}
    PROVE  RowFilterGroups(s, i, q) = IF s.roles[r].rowFilters = {} THEN {} ELSE {s.roles[r].rowFilters}
BY DEF RowFilterGroups

(* What Build decides on a governed model.                                  *)
LEMMA BuildCases ==
    ASSUME NEW s, NEW i, NEW q, s # NoSpec
    PROVE  /\ Build(s, i, q).ok <=>
                Resolves(q) /\ Authorizing(s, i, q) # {} /\ Expands(RowFilterGroups(s, i, q), i.claims)
           /\ Build(s, i, q).ok =>
                Build(s, i, q).rows = Selected(RowFilterGroups(s, i, q), i.claims)
           /\ Build(s, i, q).ok \in BOOLEAN
BY DEF Build, Refused

(* A request granted is granted by roles each on its own, and reads exactly *)
(* the rows they would show (Authorize, whereClauses).                      *)
LEMMA GrantedAlone ==
    ASSUME NEW s, NEW i, NEW q, s # NoSpec, Build(s, i, q).ok
    PROVE  LET alone == {r \in Wanted(s, i) : Build(s, Only(i, r), q).ok}
           IN  alone # {} /\ Build(s, i, q).rows = UNION {Build(s, Only(i, r), q).rows : r \in alone}
<1> DEFINE A == Authorizing(s, i, q)
           RF(r) == s.roles[r].rowFilters
           G(r) == IF RF(r) = {} THEN {} ELSE {RF(r)}
           alone == {r \in Wanted(s, i) : Build(s, Only(i, r), q).ok}
           single(r) == Build(s, Only(i, r), q)
<1>1. Resolves(q) /\ A # {} /\ Expands(RowFilterGroups(s, i, q), i.claims)
       /\ Build(s, i, q).rows = Selected(RowFilterGroups(s, i, q), i.claims)
  BY BuildCases
<1>2. Compiles(s, i)
  BY <1>1, BrokenAuthorizesNothing
<1>3. A \subseteq Wanted(s, i)
  BY DEF Authorizing, Visible
<1>4. \A r \in Wanted(s, i) : Authorizing(s, Only(i, r), q) = {r} \cap A
  BY <1>2, AloneAuthorizes
<1>5. \A r \in A : RowFilterGroups(s, Only(i, r), q) = G(r)
  <2> TAKE r \in A
  <2>1. Authorizing(s, Only(i, r), q) = {r}
    BY <1>3, <1>4
  <2> QED
    BY <2>1, AloneGroups
<1>6. \A r \in A : single(r).ok <=> Expands(G(r), i.claims)
  <2> TAKE r \in A
  <2>1. Authorizing(s, Only(i, r), q) # {}
    BY <1>3, <1>4
  <2>2. RowFilterGroups(s, Only(i, r), q) = G(r) /\ Only(i, r).claims = i.claims
    BY <1>5, OnlyWants
  <2> HIDE DEF G
  <2> QED
    BY <2>1, <2>2, BuildCases
<1>7. \A r \in Wanted(s, i) \ A : ~single(r).ok
  BY <1>4, BuildCases
<1>8. \A r \in alone : r \in A /\ single(r).rows = Selected(G(r), i.claims)
  <2> TAKE r \in alone
  <2>1. r \in A
    BY <1>7
  <2>2. RowFilterGroups(s, Only(i, r), q) = G(r) /\ Only(i, r).claims = i.claims
    BY <2>1, <1>5, OnlyWants
  <2> HIDE DEF G
  <2> QED
    BY <2>1, <2>2, BuildCases
<1>9. CASE \E r \in A : RF(r) = {}
  <2>1. PICK r \in A : RF(r) = {}
    BY <1>9
  <2>2. RowFilterGroups(s, i, q) = {}
    BY <1>9 DEF RowFilterGroups
  <2>3. r \in alone /\ single(r).rows = Row
    BY <2>1, <1>3, <1>6, <1>8 DEF Expands, Selected
  <2>4. \A x \in alone : single(x).rows \subseteq Row
    BY <1>8 DEF Selected
  <2>5. Build(s, i, q).rows = Row
    BY <1>1, <2>2 DEF Selected
  <2> QED
    BY <2>3, <2>4, <2>5
<1>10. CASE \A r \in A : RF(r) # {}
  <2>1. RowFilterGroups(s, i, q) = {RF(r) : r \in A}
    BY <1>10 DEF RowFilterGroups
  <2>2. \A r \in A : Expands(G(r), i.claims)
    BY <1>1, <2>1 DEF Expands
  <2>3. alone = A
    BY <2>2, <1>3, <1>6, <1>7
  <2>4. \A r \in A : single(r).rows = {x \in Row : \A f \in RF(r) : x \in Admits[f][i.claims]}
    <3> TAKE r \in A
    <3>1. single(r).rows = Selected({RF(r)}, i.claims)
      BY <1>8, <1>10, <2>3
    <3> QED
      BY <3>1 DEF Selected
  <2>5. Build(s, i, q).rows = {x \in Row : \E r \in A : \A f \in RF(r) : x \in Admits[f][i.claims]}
    <3>1. Build(s, i, q).rows = Selected({RF(r) : r \in A}, i.claims) /\ {RF(r) : r \in A} # {}
      BY <1>1, <2>1
    <3> QED
      BY <3>1 DEF Selected
  <2>6. Build(s, i, q).rows = UNION {single(r).rows : r \in A}
    BY <2>4, <2>5
  <2> QED
    BY <2>3, <2>6, <1>1
<1> QED
  BY <1>9, <1>10

(* What a role held grants is refused only for a missing claim or a glob    *)
(* that does not compile (ExpandClaims, Visible).                           *)
LEMMA RefusedForClaims ==
    ASSUME NEW s \in Specs, s # NoSpec, NEW i, NEW q, NEW r \in Wanted(s, i),
           Build(s, Only(i, r), q).ok, ~Build(s, i, q).ok, Compiles(s, i)
    PROVE  ~CarriesAll(i)
<1>1. r \in Authorizing(s, i, q)
  BY AloneAuthorizes, BuildCases
<1>2. ~Expands(RowFilterGroups(s, i, q), i.claims)
  BY <1>1, BuildCases
<1>3. PICK f \in UNION RowFilterGroups(s, i, q) : \E c \in Names[f] : i.claims[c] = Absent
  BY <1>2 DEF Expands
<1>4. Authorizing(s, i, q) \subseteq DOMAIN s.roles
  BY DEF Authorizing, Visible
<1>5. f \in RowFilter
  BY <1>3, <1>4, SpecType DEF RowFilterGroups, Policy
<1>6. Names[f] \subseteq Claim
  BY <1>5, GovernanceAssumption
<1> QED
  BY <1>3, <1>6 DEF CarriesAll

(* The spec and the caller keep their types.                                *)
THEOREM PolicyTypeCorrect == Spec => []TypeOK
<1>1. Init => TypeOK
  BY DEF Init, TypeOK, Identities, Claims
<1>2. TypeOK /\ [Next]_vars => TypeOK'
  BY DEF TypeOK, Next, vars, Identities, Claims, JoinGroup, LeaveGroup, GainRole, LoseRole, SetClaim
<1> QED
  BY <1>1, <1>2, PTL DEF Spec

(* Authorization never pools roles, whatever the spec and the caller: the   *)
(* property NoPooling of Authorize and whereClauses.                        *)
THEOREM RolesNeverPool == Spec => []NoPooling
<1>1. TypeOK => NoPooling
  <2> SUFFICES ASSUME TypeOK, g # NoSpec, NEW q \in Requests
      PROVE LET alone == {r \in Wanted(g, id) : Build(g, Only(id, r), q).ok}
                whole == Build(g, id, q)
            IN  /\ whole.ok => alone # {} /\ whole.rows = UNION {Build(g, Only(id, r), q).rows : r \in alone}
                /\ ~whole.ok /\ alone # {} => ~CarriesAll(id) \/ ~Compiles(g, id)
    BY DEF NoPooling
  <2>1. g \in Specs
    BY DEF TypeOK
  <2> QED
    BY <2>1, GrantedAlone, RefusedForClaims
<1> QED
  BY <1>1, PolicyTypeCorrect, PTL

(* Discovery lists the metrics and dimensions a granted request names, and  *)
(* the declared dimensions among the fields it filters on: the property     *)
(* QueryableIsListed of ListMetrics and ListDimensions.                     *)
THEOREM DiscoveryCovers == Spec => []QueryableIsListed
<1>1. QueryableIsListed
  <2> SUFFICES ASSUME NEW q \in Requests, Build(g, id, q).ok
      PROVE  /\ q.metrics \subseteq ListMetrics(g, id)
             /\ q.dimensions \cup (q.filters \cap IsDimension) \subseteq ListDimensions(g, id)
    BY DEF QueryableIsListed
  <2>1. q.metrics \subseteq Metric
    BY DEF Requests
  <2>2. q.dimensions \subseteq IsDimension
    BY DEF Build, Refused, Resolves
  <2>3. CASE g = NoSpec
    BY <2>1, <2>2, <2>3 DEF ListMetrics, ListDimensions, MetricVisible, FieldVisible
  <2>4. CASE g # NoSpec
    <3>1. PICK r \in Authorizing(g, id, q) : TRUE
      BY <2>4, BuildCases
    <3>2. r \in Visible(g, id) /\ (\A m \in q.metrics : PermitsMetric(g, r, m))
           /\ (\A f \in q.dimensions \cup q.filters : PermitsField(g, r, f))
      BY <3>1 DEF Authorizing, RefsOf
    <3> QED
      BY <2>1, <2>2, <2>4, <3>2 DEF ListMetrics, ListDimensions, MetricVisible, FieldVisible
  <2> QED
    BY <2>3, <2>4
<1> QED
  BY <1>1, PTL

(* Labels that can run no query on their own change no decision.            *)
LEMMA InertLabels ==
    ASSUME NEW s, NEW i, NEW j, NEW q \in Requests,
           PolicyRoles(i) # {}, PolicyRoles(i) \subseteq PolicyRoles(j), j.claims = i.claims,
           \A r \in PolicyRoles(j) \ PolicyRoles(i) : GrantsNothing(s, i, r)
    PROVE  Build(s, j, q) = Build(s, i, q)
<1>1. Wanted(s, i) = PolicyRoles(i) /\ Wanted(s, j) = PolicyRoles(j)
  BY DEF Wanted
<1>2. \A r \in PolicyRoles(j) \ PolicyRoles(i) :
        Compiles(s, Only(i, r)) /\ Authorizing(s, Only(i, r), q) = {} /\ Wanted(s, Only(i, r)) = {r}
  BY OnlyWants DEF GrantsNothing
<1>3. Compiles(s, j) <=> Compiles(s, i)
  BY <1>1, <1>2 DEF Compiles
<1>4. CASE ~Compiles(s, i)
  <2>1. Authorizing(s, i, q) = {} /\ Authorizing(s, j, q) = {}
    BY <1>3, <1>4, BrokenAuthorizesNothing
  <2> QED
    BY <2>1 DEF Build
<1>5. CASE Compiles(s, i)
  <2>1. \A r \in Authorizing(s, j, q) : r \in PolicyRoles(i)
    <3> SUFFICES ASSUME NEW r \in Authorizing(s, j, q), r \notin PolicyRoles(i)
        PROVE FALSE
      OBVIOUS
    <3>1. r \in PolicyRoles(j)
      BY <1>1 DEF Authorizing, Visible
    <3>2. Visible(s, Only(i, r)) = {r} \cap Visible(s, j)
      BY <1>1, <1>2, <1>3, <1>5, <3>1 DEF Visible
    <3>3. r \in Authorizing(s, Only(i, r), q)
      BY <3>2 DEF Authorizing
    <3> QED
      BY <1>2, <3>1, <3>3
  <2>2. Visible(s, i) = Visible(s, j) \cap PolicyRoles(i)
    BY <1>1, <1>3 DEF Visible
  <2>3. Authorizing(s, j, q) = Authorizing(s, i, q)
    BY <2>1, <2>2 DEF Authorizing
  <2>4. RowFilterGroups(s, j, q) = RowFilterGroups(s, i, q)
    BY <2>3 DEF RowFilterGroups
  <2> QED
    BY <2>3, <2>4 DEF Build
<1> QED
  BY <1>4, <1>5

(* A role that can run no query changes no outcome by being present: the    *)
(* property EmptyRoleIsInert of Visible and Authorize.                      *)
THEOREM EmptyRolesInert == Spec => EmptyRoleIsInert
<1>1. [Next]_vars => [InertStep]_vars
  <2> SUFFICES ASSUME Next, g # NoSpec, PolicyRoles(id) # {}, id.claims' = id.claims,
                      PolicyRoles(id) \subseteq PolicyRoles(id'),
                      \A r \in Gained : GrantsNothing(g, id, r), NEW q \in Requests
      PROVE Build(g, id, q)' = Build(g, id, q)
    BY DEF InertStep
  <2>1. g' = g
    BY DEF Next, JoinGroup, LeaveGroup, GainRole, LoseRole, SetClaim
  <2>2. \A r \in PolicyRoles(id') \ PolicyRoles(id) : GrantsNothing(g, id, r)
    BY DEF Gained
  <2>3. Build(g, id', q) = Build(g, id, q)
    BY <2>2, InertLabels
  <2> QED
    BY <2>1, <2>3
<1> QED
  BY <1>1, PTL DEF Spec, EmptyRoleIsInert

-----------------------------------------------------------------------------
(* The limiter.                                                             *)

(* Whatever holds a result and is not a REST handler left behind holds a     *)
(* slot: an MCP request keeps its connection until its work is gone.          *)
JobsInv == \A r \in Req :
    /\ r \notin Rest /\ conn[r] \in {"none", "waiting"} => job[r] = "none"
    /\ conn[r] = "waiting" => job[r] = "none"

SlotsInv == LimiterTypeOK /\ SlotsMatchHandlers /\ JobsInv

USE DEF Conn, Job

(* Holders after a step that moves one request in or out of them             *)
LEMMA HoldersFinite == ASSUME LimiterTypeOK PROVE IsFiniteSet(Holders)
  BY LimiterAssumption, FS_Subset, Holders \subseteq Req DEF Holders

LEMMA HolderGained ==
  ASSUME LimiterTypeOK, SlotsMatchHandlers, NEW r \in Req, conn[r] \notin {"serving", "writing"},
         NEW c \in {"serving", "writing"}, conn' = [conn EXCEPT ![r] = c], slots' = slots + 1
  PROVE  SlotsMatchHandlers'
  <1>1. r \notin Holders
    BY DEF Holders
  <1>2. Holders' = Holders \cup {r}
    BY DEF Holders, LimiterTypeOK
  <1>3. Cardinality(Holders \cup {r}) = Cardinality(Holders) + 1
    BY <1>1, HoldersFinite, FS_AddElement
  <1> QED
    BY <1>2, <1>3 DEF SlotsMatchHandlers

LEMMA HolderLost ==
  ASSUME LimiterTypeOK, SlotsMatchHandlers, NEW r \in Req, conn[r] \in {"serving", "writing"},
         conn' = [conn EXCEPT ![r] = "none"], slots' = slots - 1
  PROVE  SlotsMatchHandlers' /\ slots > 0
  <1>1. r \in Holders
    BY DEF Holders
  <1>2. Holders' = Holders \ {r}
    BY DEF Holders, LimiterTypeOK
  <1>3. Cardinality(Holders \ {r}) = Cardinality(Holders) - 1
    BY <1>1, HoldersFinite, FS_RemoveElement
  <1>4. Cardinality(Holders \ {r}) \in Nat
    BY HoldersFinite, FS_RemoveElement, FS_CardinalityType
  <1>5. slots \in Nat
    BY LimiterAssumption DEF LimiterTypeOK
  <1> QED
    BY <1>2, <1>3, <1>4, <1>5 DEF SlotsMatchHandlers

LEMMA HoldersKept ==
  ASSUME SlotsMatchHandlers, slots' = slots, Holders' = Holders
  PROVE  SlotsMatchHandlers'
  BY DEF SlotsMatchHandlers

LEMMA InitSlots == LimiterInit => SlotsInv
  <1> SUFFICES ASSUME LimiterInit PROVE SlotsInv
    OBVIOUS
  <1>1. Holders = {}
    BY DEF LimiterInit, Holders
  <1>2. SlotsMatchHandlers
    BY <1>1, FS_EmptySet DEF LimiterInit, SlotsMatchHandlers
  <1> QED
    BY <1>2, LimiterAssumption DEF LimiterInit, SlotsInv, LimiterTypeOK, JobsInv

LEMMA NextSlots == SlotsInv /\ [LimiterNext]_limiterVars => SlotsInv'
  <1> SUFFICES ASSUME SlotsInv, [LimiterNext]_limiterVars PROVE SlotsInv'
    OBVIOUS
  <1> USE LimiterAssumption
  <1>0. CASE UNCHANGED limiterVars
    BY <1>0, HoldersKept DEF SlotsInv, LimiterTypeOK, JobsInv, limiterVars, Holders
  <1>r. CASE LimiterNext
    <2> PICK r \in Req : LimiterStep(r)
      BY <1>r DEF LimiterNext
    <2>1. CASE Arrive(r)
      <3>1. Holders' = Holders
        BY <2>1 DEF Arrive, Holders, SlotsInv, LimiterTypeOK
      <3> QED
        BY <2>1, <3>1, HoldersKept DEF Arrive, SlotsInv, LimiterTypeOK, JobsInv
    <2>2. CASE TakeSlot(r)
      <3>1. SlotsMatchHandlers'
        BY <2>2, HolderGained DEF TakeSlot, Acquire, SlotsInv
      <3> QED
        BY <2>2, <3>1 DEF TakeSlot, Acquire, SlotsInv, LimiterTypeOK, JobsInv
    <2>3. CASE GiveUp(r) \/ Reject(r)
      <3>1. Holders' = Holders
        BY <2>3 DEF GiveUp, Reject, Holders, SlotsInv, LimiterTypeOK
      <3> QED
        BY <2>3, <3>1, HoldersKept DEF GiveUp, Reject, SlotsInv, LimiterTypeOK, JobsInv
    <2>4. CASE Compute(r) \/ AbandonedEnds(r)
      <3>1. Holders' = Holders
        BY <2>4 DEF Compute, AbandonedEnds, Holders
      <3> QED
        BY <2>4, <3>1, HoldersKept DEF Compute, AbandonedEnds, SlotsInv, LimiterTypeOK, JobsInv
    <2>5. CASE Fail(r) \/ StartWriting(r)
      <3>1. Holders' = Holders
        BY <2>5 DEF Fail, StartWriting, Holders, SlotsInv, LimiterTypeOK
      <3> QED
        BY <2>5, <3>1, HoldersKept DEF Fail, StartWriting, SlotsInv, LimiterTypeOK, JobsInv
    <2>6. CASE Written(r) \/ Deadline(r)
      <3>1. SlotsMatchHandlers' /\ slots > 0
        BY <2>6, HolderLost DEF Written, Deadline, Release, SlotsInv
      <3> QED
        BY <2>6, <3>1 DEF Written, Deadline, Release, SlotsInv, LimiterTypeOK, JobsInv
    <2> QED
      BY <2>1, <2>2, <2>3, <2>4, <2>5, <2>6 DEF LimiterStep
  <1> QED
    BY <1>0, <1>r

LEMMA SlotsInvHolds == LimiterSpec => []SlotsInv
  BY InitSlots, NextSlots, PTL DEF LimiterSpec

(* The slot count stays within the channel's capacity: <-l.slots in the        *)
(* deferred release never blocks (Middleware).                                 *)
THEOREM LimiterTypeCorrect == LimiterSpec => []LimiterTypeOK
  BY SlotsInvHolds, PTL DEF SlotsInv

(* On every way out of Middleware a slot is returned exactly once, and only    *)
(* by a request that had taken one.                                            *)
THEOREM NoSlotLeaks == LimiterSpec => []SlotsMatchHandlers
  BY SlotsInvHolds, PTL DEF SlotsInv

(* Apart from REST handlers left behind by http.TimeoutHandler, the results    *)
(* held in memory never outnumber the slots (Limits.MaxConcurrentQueries).     *)
THEOREM BudgetHolds == LimiterSpec => []ResultsWithinBudget
  <1>1. SlotsInv => ResultsWithinBudget
    <2> SUFFICES ASSUME SlotsInv PROVE ResultsWithinBudget
      OBVIOUS
    <2> DEFINE held == {r \in Req : job[r] = "result" /\ (r \in Rest => conn[r] # "none")}
    <2>1. held \subseteq Holders
      BY DEF SlotsInv, LimiterTypeOK, JobsInv, Holders
    <2>2. Cardinality(held) <= Cardinality(Holders) /\ Cardinality(held) \in Nat /\ Cardinality(Holders) \in Nat
      BY <2>1, HoldersFinite, FS_Subset, FS_CardinalityType DEF SlotsInv
    <2> QED
      BY <2>2, LimiterAssumption DEF ResultsWithinBudget, SlotsInv, LimiterTypeOK, SlotsMatchHandlers
  <1> QED
    BY <1>1, SlotsInvHolds, PTL
=============================================================================
