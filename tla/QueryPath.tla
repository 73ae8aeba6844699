----------------------------- MODULE QueryPath ------------------------------
(***************************************************************************)
(* The code path of one query: handleQuery / query_metric, Service.Query   *)
(* and Service.Plan, with the plan and result caches shared by every       *)
(* request.  One action per access to shared state, so that requests       *)
(* interleave between the authorization call, the cache reads and writes   *)
(* and the engine, as goroutines do.                                       *)
(*                                                                         *)
(* A cache read may miss at any time (entry expired, evicted, cache down,  *)
(* request cancelled) and a cache write may be lost: cache.get and         *)
(* cache.set swallow errors.  The world changes between any two steps.     *)
(***************************************************************************)
EXTENDS QueryDomain

CONSTANTS
    Asks,          \* the requests that are sent
    MaxChanges     \* bound on changes of the world (Publish, Decide, Load)

ASSUME ChangesAssumption == MaxChanges \in Nat /\ Asks \subseteq Ask

VARIABLES
    published, policy, data,    \* the world, as in QueryService
    history, granted,           \* history variables, as in QueryService
    asked, ver, reply,          \* the request, its resolved model, its answer
    pc,         \* what the request's goroutine does next
    fp,         \* authorizationFingerprint in Plan
    plan,       \* the plan Query got from Plan
    rows,       \* the engine's result, between DB.Query and SetResult
    plans,      \* plan cache:   set of [key, val]
    results,    \* result cache: set of [key, val]
    changes     \* changes of the world so far

world == <<published, policy, data, history, changes>>
local == <<asked, ver, granted>>
caches == <<plans, results>>
vars == <<world, local, reply, pc, fp, plan, rows, caches>>

PCs == {"idle", "prepare", "authorize", "getPlan", "setPlan", "getResult",
        "execute", "setResult", "done"}

Init ==
    /\ published \in Version \cup {NoModel}
    /\ policy \in [Provider -> [Identity -> Decision]]
    /\ data \in Data /\ history = {data} /\ changes = 0
    /\ asked = [r \in Req |-> None] /\ ver = [r \in Req |-> NoModel]
    /\ granted = [r \in Req |-> {}] /\ reply = [r \in Req |-> None]
    /\ pc = [r \in Req |-> "idle"] /\ fp = [r \in Req |-> NoFp]
    /\ plan = [r \in Req |-> None] /\ rows = [r \in Req |-> None]
    /\ plans = {} /\ results = {}

-----------------------------------------------------------------------------
(* The caches *)

Put(c, k, v) == {e \in c : e.key # k} \cup {[key |-> k, val |-> v]}

(* PlanKey: model version, request hash over the request with its effective *)
(* limit and the whole identity, and the authorization fingerprint          *)
PlanKeyByRole(r) == [ver |-> ver[r], body |-> asked[r].body,
                     limit |-> Effective(asked[r].limit), fp |-> fp[r]]
PlanKey(r) == [ver |-> ver[r], id |-> asked[r].id, body |-> asked[r].body,
               limit |-> Effective(asked[r].limit), fp |-> fp[r]]

(* resultScope and ResultKey: the emitted SQL, the fingerprint, and the    *)
(* engine user when the caller's own credential runs the query             *)
EngineScope(cred) == IF cred = Static THEN Static
                     ELSE IF cred.named THEN cred.owner ELSE None
ResultKeyUnscoped(r) == [ver |-> ver[r], sql |-> plan[r].sql, fp |-> plan[r].fp]
ResultKey(r) == [ver |-> ver[r], sql |-> plan[r].sql, fp |-> plan[r].fp,
                 user |-> EngineScope(asked[r].cred)]

Cacheable(cred) == EngineScope(cred) # None

(* withDefaults folds the cache ceiling down to the result ceiling         *)
CacheCeiling == IF MaxCacheEntryBytes > MaxResultBytes THEN MaxResultBytes
                                                       ELSE MaxCacheEntryBytes

-----------------------------------------------------------------------------
(* The steps of a request *)

Goto(r, label) == pc' = [pc EXCEPT ![r] = label]
Send(r, ans) == reply' = [reply EXCEPT ![r] = ans] /\ Goto(r, "done")
Refuse(r, why) == Send(r, Refused(why))

AllowedNow(v, i) ==
    IF v = NoModel \/ ProviderOf[v] = NoProvider THEN {}
    ELSE {policy[ProviderOf[v]][i]} \ {Deny}

(* resolve: authenticate, then look the model up in the store              *)
Receive(r, a) ==
    /\ pc[r] = "idle"
    /\ asked' = [asked EXCEPT ![r] = a]
    /\ ver' = [ver EXCEPT ![r] = published]
    /\ granted' = [granted EXCEPT ![r] = AllowedNow(published, a.id)]
    /\ Goto(r, "prepare")
    /\ UNCHANGED <<world, reply, fp, plan, rows, caches>>

(* handleQuery up to the authorization call: unknown model, credential     *)
(* resolution (which may fail unless static), Limits.apply                 *)
Prepare(r) ==
    /\ pc[r] = "prepare"
    /\ \/ ver[r] = NoModel /\ Refuse(r, "unknown")
       \/ /\ ver[r] # NoModel /\ asked[r].cred # Static
          /\ Refuse(r, "credential")
       \/ /\ ver[r] # NoModel /\ ~Admissible(asked[r].limit)
          /\ Refuse(r, "limit")
       \/ /\ ver[r] # NoModel /\ Admissible(asked[r].limit)
          /\ Goto(r, "authorize") /\ UNCHANGED reply
    /\ UNCHANGED <<world, local, fp, plan, rows, caches>>

(* A provider that fails open instead of answering ErrUnavailable          *)
UnavailableFailsOpen(r) ==
    \E rev \in Revision :
       /\ fp' = [fp EXCEPT ![r] = Fingerprint(ProviderOf[ver[r]], asked[r].id, rev)]
       /\ Goto(r, "getPlan") /\ UNCHANGED reply

Unavailable(r) == Refuse(r, "unavailable") /\ UNCHANGED fp

(* Plan: external authorization, before any cache lookup                   *)
Authorize(r) ==
    LET p == ProviderOf[ver[r]] IN
    /\ pc[r] = "authorize"
    /\ \/ p = NoProvider /\ Goto(r, "getPlan") /\ UNCHANGED <<fp, reply>>
       \/ p # NoProvider /\ Unavailable(r)
       \/ /\ p # NoProvider /\ policy[p][asked[r].id] = Deny
          /\ Refuse(r, "denied") /\ UNCHANGED fp
       \/ /\ p # NoProvider /\ policy[p][asked[r].id] # Deny
          /\ fp' = [fp EXCEPT ![r] =
                      Fingerprint(p, asked[r].id, policy[p][asked[r].id])]
          /\ Goto(r, "getPlan") /\ UNCHANGED reply
    /\ UNCHANGED <<world, local, plan, rows, caches>>

(* After Plan returned: /sql answers with the plan, /query goes on         *)
PlanReturned(r, p) ==
    \/ ~asked[r].execute /\ Send(r, Planned(p))
    \/ asked[r].execute /\ Goto(r, "getResult") /\ UNCHANGED reply

(* GetPlan: a hit is used only when its recorded fingerprint is this one's *)
PlanHit(r) ==
    /\ pc[r] = "getPlan"
    /\ \E e \in plans :
         /\ e.key = PlanKey(r) /\ e.val.fp = fp[r]
         /\ plan' = [plan EXCEPT ![r] = e.val]
         /\ PlanReturned(r, e.val)
    /\ UNCHANGED <<world, local, fp, rows, caches>>

(* A miss compiles the plan, or refuses the request                        *)
PlanMiss(r) ==
    /\ pc[r] = "getPlan"
    /\ \/ /\ <<ver[r], asked[r].id, asked[r].body>> \notin Permits
          /\ Refuse(r, "rejected") /\ UNCHANGED plan
       \/ /\ <<ver[r], asked[r].id, asked[r].body>> \in Permits
          /\ plan' = [plan EXCEPT ![r] = [sql |-> SQLOf(ver[r], asked[r]), fp |-> fp[r]]]
          /\ Goto(r, "setPlan") /\ UNCHANGED reply
    /\ UNCHANGED <<world, local, fp, rows, caches>>

(* SetPlan, which may be lost, and Plan's return                           *)
SetPlan(r) ==
    /\ pc[r] = "setPlan"
    /\ plans' \in {plans, Put(plans, PlanKey(r), plan[r])}
    /\ PlanReturned(r, plan[r])
    /\ UNCHANGED <<world, local, fp, plan, rows, results>>

(* A request that named no limit gets no result larger than the default    *)
Incomplete(r, res) == asked[r].limit = 0 /\ RowCount(res) > DefaultRowLimit

HitUnchecked(r, res) == Send(r, Rows(res, plan[r].fp))
AnswerFromCache(r, res) ==
    \/ Incomplete(r, res) /\ Refuse(r, "incomplete")
    \/ ~Incomplete(r, res) /\ Send(r, Rows(res, plan[r].fp))

(* GetResult hit                                                           *)
ResultHit(r) ==
    /\ pc[r] = "getResult" /\ Cacheable(asked[r].cred)
    /\ \E e \in results : e.key = ResultKey(r) /\ AnswerFromCache(r, e.val)
    /\ UNCHANGED <<world, local, fp, plan, rows, caches>>

(* GetResult miss, or a credential nothing can be cached under             *)
ResultMiss(r) ==
    /\ pc[r] = "getResult"
    /\ Goto(r, "execute")
    /\ UNCHANGED <<world, local, reply, fp, plan, rows, caches>>

(* Both engine clients refuse a token that comes without an engine user    *)
Accepts(cred) == cred # Static => cred.named

(* DB.Query and the checks on its result                                   *)
Execute(r) ==
    LET res == [sql |-> plan[r].sql, user |-> RunAs(asked[r].cred), data |-> data] IN
    /\ pc[r] = "execute"
    /\ \/ Refuse(r, "engine") /\ UNCHANGED rows
       \/ /\ Accepts(asked[r].cred) /\ Incomplete(r, res)
          /\ Refuse(r, "incomplete") /\ UNCHANGED rows
       \/ /\ Accepts(asked[r].cred) /\ ~Incomplete(r, res)
          /\ BlobBytes(res) > MaxResultBytes
          /\ Refuse(r, "too large") /\ UNCHANGED rows
       \/ /\ Accepts(asked[r].cred) /\ ~Incomplete(r, res)
          /\ BlobBytes(res) <= MaxResultBytes
          /\ rows' = [rows EXCEPT ![r] = res]
          /\ Goto(r, "setResult") /\ UNCHANGED reply
    /\ UNCHANGED <<world, local, fp, plan, caches>>

(* SetResult unless uncacheable or too large for the cache; the answer     *)
SetResult(r) ==
    /\ pc[r] = "setResult"
    /\ results' \in {results} \cup
         (IF Cacheable(asked[r].cred) /\ BlobBytes(rows[r]) <= CacheCeiling
          THEN {Put(results, ResultKey(r), rows[r])} ELSE {})
    /\ Send(r, Rows(rows[r], plan[r].fp))
    /\ UNCHANGED <<world, local, fp, plan, rows, plans>>

-----------------------------------------------------------------------------
(* The world *)

Change == changes < MaxChanges /\ changes' = changes + 1
ServerUnchanged == UNCHANGED <<asked, ver, reply, pc, fp, plan, rows, caches>>

(* The operator publishes a version, or the artifact goes away             *)
Publish(v) ==
    /\ Change /\ published' = v
    /\ UNCHANGED <<policy, data, history, granted>> /\ ServerUnchanged

(* A provider's policy grants, revises or revokes                          *)
Decide(p, i, d) ==
    /\ Change
    /\ policy' = [policy EXCEPT ![p][i] = d]
    /\ granted' = [r \in Req |->
         IF /\ asked[r] # None /\ reply[r] = None /\ ver[r] # NoModel
            /\ ProviderOf[ver[r]] = p /\ asked[r].id = i /\ d # Deny
         THEN granted[r] \cup {d} ELSE granted[r]]
    /\ UNCHANGED <<published, data, history>> /\ ServerUnchanged

(* The warehouse is loaded                                                 *)
Load(d) ==
    /\ Change /\ data' = d /\ history' = history \cup {d}
    /\ UNCHANGED <<published, policy, granted>> /\ ServerUnchanged

Step(r) ==
    \/ \E a \in Asks : Receive(r, a)
    \/ Prepare(r) \/ Authorize(r)
    \/ PlanHit(r) \/ PlanMiss(r) \/ SetPlan(r)
    \/ ResultHit(r) \/ ResultMiss(r) \/ Execute(r) \/ SetResult(r)

World ==
    \/ \E v \in Version \cup {NoModel} : Publish(v)
    \/ \E p \in Provider, i \in Identity, d \in Decision : Decide(p, i, d)
    \/ \E d \in Data : Load(d)

Next == (\E r \in Req : Step(r)) \/ World

Spec == Init /\ [][Next]_vars

-----------------------------------------------------------------------------
(* Properties *)

TypeWorld ==
    /\ published \in Version \cup {NoModel}
    /\ policy \in [Provider -> [Identity -> Decision]]
    /\ data \in Data /\ history \subseteq Data /\ data \in history
    /\ changes \in Nat
TypeRequest ==
    /\ asked \in [Req -> Ask \cup {None}] /\ ver \in [Req -> Version \cup {NoModel}]
    /\ granted \in [Req -> SUBSET Revision] /\ reply \in [Req -> Reply \cup {None}]
    /\ pc \in [Req -> PCs] /\ fp \in [Req -> Scope]
    /\ plan \in [Req -> Plan \cup {None}] /\ rows \in [Req -> Result \cup {None}]
TypeCaches ==
    /\ \A e \in plans : e.val \in Plan
    /\ \A e \in results : e.val \in Result
(* Every variable keeps its type, the caches hold plans and results only,  *)
(* and the warehouse's current state is part of its history.               *)
TypeOK == TypeWorld /\ TypeRequest /\ TypeCaches

GotRows(r) == reply[r] # None /\ reply[r].kind = "rows"
GotPlan(r) == reply[r] # None /\ reply[r].kind = "plan"

(* No cache entry crosses an identity, a version or an engine user: rows    *)
(* and plans handed to a caller come from the SQL compiled for this caller, *)
(* this request and the version resolved for it, run as its own engine      *)
(* user (Service.Plan and Service.Query with cache.PlanKey/ResultKey).      *)
OwnAnswer == \A r \in Req :
    /\ GotPlan(r) => reply[r].sql = SQLOf(ver[r], asked[r])
    /\ GotRows(r) => /\ reply[r].res.sql = SQLOf(ver[r], asked[r])
                     /\ reply[r].res.user = RunAs(asked[r].cred)

(* No cache entry survives a revoked decision: an answer under external     *)
(* authorization is given only if the provider allowed this caller, at the  *)
(* revision the answer names, at some moment since the request came in.     *)
NotAfterRevocation == \A r \in Req :
    (GotRows(r) \/ GotPlan(r)) /\ ProviderOf[ver[r]] # NoProvider
        => \E rev \in granted[r] :
              reply[r].fp = Fingerprint(ProviderOf[ver[r]], asked[r].id, rev)

(* A request that names no limit never receives a prefix of a larger result, *)
(* not even from an entry an explicit limit of DefaultRowLimit + 1 wrote      *)
(* (Limits.apply's probe and the two ErrResultIncomplete checks).             *)
NeverAPrefix == \A r \in Req :
    GotRows(r) /\ asked[r].limit = 0 => RowsIn[reply[r].res.data] <= DefaultRowLimit

Promise == INSTANCE QueryService

(* The cached path implements the uncached promise: every observable answer *)
(* is one QueryService allows; the caches only widen which past state of     *)
(* the warehouse the rows come from.                                         *)
Implements == Promise!Spec
=============================================================================
