-------------------------- MODULE QueryPathProofs ---------------------------
(***************************************************************************)
(* The query path keeps its promise for any number of requests, callers,   *)
(* versions, providers and engine users, and any sizes and limits.         *)
(*                                                                         *)
(* The argument: a cache entry is determined by its key (CacheInv), and    *)
(* the locals of a request agree with what was asked of it at each stage   *)
(* of the path (RequestInv).  Neither is inductive without the other.      *)
(***************************************************************************)
EXTENDS QueryPath, TLAPS

Granted(r, f) ==
    IF ProviderOf[ver[r]] = NoProvider THEN f = NoFp
    ELSE \E rev \in granted[r] : f = Fingerprint(ProviderOf[ver[r]], asked[r].id, rev)

SQLOfKey(k) == [ver |-> k.ver, id |-> k.id, body |-> k.body, limit |-> k.limit]

(* An entry holds what its key says: the plan of the request hashed into   *)
(* the key, the rows of the SQL in the key run as the user in the key.     *)
PlansInv == \A e \in plans :
    /\ e.val.sql = SQLOfKey(e.key) /\ e.val.fp = e.key.fp
    /\ <<e.key.ver, e.key.id, e.key.body>> \in Permits

Servable(res) == res.data \in history /\ BlobBytes(res) <= MaxResultBytes

ResultsInv == \A e \in results :
    /\ e.val.sql = e.key.sql /\ e.val.user = e.key.user
    /\ e.key.user # None /\ Servable(e.val)

(* Where the request is on its path says what its locals hold              *)
StageInv(r) ==
    /\ pc[r] = "idle" <=> asked[r] = None
    /\ pc[r] = "done" <=> reply[r] # None
    /\ pc[r] \in {"idle", "prepare", "authorize"} => fp[r] = NoFp
    /\ pc[r] \notin {"idle", "prepare", "done"} =>
         ver[r] # NoModel /\ Admissible(asked[r].limit)
    /\ pc[r] \in {"getPlan", "setPlan", "getResult", "execute", "setResult"} =>
         Granted(r, fp[r])
    /\ pc[r] \in {"setPlan", "getResult", "execute", "setResult"} =>
         /\ plan[r] = [sql |-> SQLOf(ver[r], asked[r]), fp |-> fp[r]]
         /\ <<ver[r], asked[r].id, asked[r].body>> \in Permits
    /\ pc[r] \in {"getResult", "execute", "setResult"} => asked[r].execute
    /\ pc[r] = "setResult" =>
         /\ rows[r] \in Result /\ rows[r].sql = SQLOf(ver[r], asked[r])
         /\ rows[r].user = RunAs(asked[r].cred)
         /\ ~Incomplete(r, rows[r]) /\ Servable(rows[r])

AnswerInv(r) ==
    /\ GotPlan(r) => reply[r].sql = SQLOf(ver[r], asked[r]) /\ Granted(r, reply[r].fp)
    /\ GotRows(r) =>
         /\ reply[r].res.sql = SQLOf(ver[r], asked[r])
         /\ reply[r].res.user = RunAs(asked[r].cred)
         /\ Granted(r, reply[r].fp) /\ ~Incomplete(r, reply[r].res)

(* A waiting request has seen the decision that is in force now            *)
GrantsInv == \A r \in Req :
    asked[r] # None /\ reply[r] = None => AllowedNow(ver[r], asked[r].id) \subseteq granted[r]

RequestInv == \A r \in Req : StageInv(r) /\ AnswerInv(r)

IInv == TypeOK /\ PlansInv /\ ResultsInv /\ GrantsInv /\ RequestInv


USE DomainAssumption, NoneAssumption, ChangesAssumption

-----------------------------------------------------------------------------
(* Types *)

\* The SQL compiled for a request is SQL.
LEMMA SQLOfType ==
    ASSUME NEW v \in Version, NEW a \in Ask
    PROVE  SQLOf(v, a) \in SQL
<1>1. a.id \in Identity /\ a.body \in Body /\ a.limit \in Int
  BY DEF Ask
<1>2. Effective(a.limit) \in Int
  BY <1>1 DEF Effective
<1> QED
  BY <1>1, <1>2 DEF SQLOf, SQL

\* A query runs as the static user or as an engine user.
LEMMA RunAsType ==
    ASSUME NEW c \in Credential
    PROVE  RunAs(c) \in EngineUser \cup {Static}
BY DEF RunAs, Credential

\* Replies are replies.
LEMMA ReplyType ==
    /\ \A why \in Refusals : Refused(why) \in Reply
    /\ \A p \in Plan : Planned(p) \in Reply
    /\ \A res \in Result, f \in Scope : Rows(res, f) \in Reply
BY DEF Refused, Planned, Rows, Reply, Plan

\* What an answer is, by its kind.
LEMMA ReplyFields ==
    /\ \A why : Refused(why).kind = "refused"
    /\ \A p : /\ Planned(p).kind = "plan" /\ Planned(p).sql = p.sql
              /\ Planned(p).fp = p.fp
    /\ \A res, f : /\ Rows(res, f).kind = "rows" /\ Rows(res, f).res = res
                   /\ Rows(res, f).fp = f
BY DEF Refused, Planned, Rows

\* A cache write keeps the other entries and adds one.
LEMMA PutEntries ==
    ASSUME NEW c, NEW k, NEW v
    PROVE  \A e \in Put(c, k, v) : e \in c \/ e = [key |-> k, val |-> v]
BY DEF Put

-----------------------------------------------------------------------------
(* What a step of one request leaves to the others *)

Same(q) ==
    /\ asked'[q] = asked[q] /\ ver'[q] = ver[q] /\ granted[q] \subseteq granted'[q]
    /\ reply'[q] = reply[q] /\ pc'[q] = pc[q] /\ fp'[q] = fp[q]
    /\ plan'[q] = plan[q] /\ rows'[q] = rows[q]
    /\ history \subseteq history'

\* What holds of a request still holds when its locals are left alone and the
\* warehouse's history and the grants it saw only grow.
LEMMA Frame ==
    ASSUME NEW q \in Req, StageInv(q), AnswerInv(q), Same(q)
    PROVE  StageInv(q)' /\ AnswerInv(q)'
<1>1. Granted(q, fp[q]) => Granted(q, fp[q])'
  BY DEF Granted, Same
<1>2. Granted(q, reply[q].fp) => Granted(q, reply[q].fp)'
  BY DEF Granted, Same
<1>3. StageInv(q)'
  BY <1>1 DEF StageInv, Same, Incomplete, Servable
<1>4. AnswerInv(q)'
  BY <1>2 DEF AnswerInv, Same, Incomplete, GotPlan, GotRows
<1> QED
  BY <1>3, <1>4

-----------------------------------------------------------------------------
(* Steps *)

\* What a step of request r must establish.
Keeps(r) ==
    /\ TypeOK' /\ PlansInv' /\ ResultsInv' /\ GrantsInv'
    /\ StageInv(r)' /\ AnswerInv(r)'
    /\ \A q \in Req \ {r} : Same(q)

\* Request r moved: its own invariants hold, the others stayed where they were.
Moves(r) ==
    /\ StageInv(r)' /\ AnswerInv(r)'
    /\ pc' \in [Req -> PCs] /\ reply' \in [Req -> Reply \cup {None}]
    /\ \A q \in Req \ {r} : pc'[q] = pc[q] /\ reply'[q] = reply[q]

\* A request that is answered is done, and the answer is the one sent.
LEMMA SendStage ==
    ASSUME NEW r \in Req, TypeRequest, StageInv(r), pc[r] # "idle", UNCHANGED local,
           NEW ans \in Reply, Send(r, ans)
    PROVE  /\ StageInv(r)' /\ reply'[r] = ans /\ pc'[r] = "done"
           /\ pc' \in [Req -> PCs] /\ reply' \in [Req -> Reply \cup {None}]
           /\ \A q \in Req \ {r} : pc'[q] = pc[q] /\ reply'[q] = reply[q]
<1>1. /\ reply'[r] = ans /\ pc'[r] = "done"
      /\ pc' \in [Req -> PCs] /\ reply' \in [Req -> Reply \cup {None}]
      /\ \A q \in Req \ {r} : pc'[q] = pc[q] /\ reply'[q] = reply[q]
  BY DEF TypeRequest, Send, Goto, PCs
<1>2. asked'[r] # None
  BY DEF StageInv, local
<1>3. StageInv(r)'
  BY <1>1, <1>2 DEF StageInv
<1> QED
  BY <1>1, <1>3

\* A refusal satisfies every condition on answers.
LEMMA RefuseStage ==
    ASSUME NEW r \in Req, TypeRequest, StageInv(r), pc[r] # "idle", UNCHANGED local,
           NEW why \in Refusals, Refuse(r, why)
    PROVE  Moves(r)
<1>1. Refused(why) \in Reply
  BY ReplyType
<1>2. /\ StageInv(r)' /\ reply'[r] = Refused(why)
      /\ pc' \in [Req -> PCs] /\ reply' \in [Req -> Reply \cup {None}]
      /\ \A q \in Req \ {r} : pc'[q] = pc[q] /\ reply'[q] = reply[q]
  BY <1>1, SendStage DEF Refuse
<1>3. AnswerInv(r)'
  BY <1>2, ReplyFields DEF AnswerInv, GotPlan, GotRows
<1> QED
  BY <1>2, <1>3 DEF Moves

\* A request that goes on has not been answered.
LEMMA GotoStage ==
    ASSUME NEW r \in Req, TypeRequest, NEW label \in PCs \ {"done"}, pc[r] # "done",
           StageInv(r), Goto(r, label), UNCHANGED reply
    PROVE  /\ pc'[r] = label /\ pc' \in [Req -> PCs] /\ AnswerInv(r)'
           /\ reply' \in [Req -> Reply \cup {None}] /\ reply'[r] = None
           /\ \A q \in Req \ {r} : pc'[q] = pc[q] /\ reply'[q] = reply[q]
<1>1. /\ pc'[r] = label /\ pc' \in [Req -> PCs]
      /\ reply' \in [Req -> Reply \cup {None}]
      /\ \A q \in Req \ {r} : pc'[q] = pc[q] /\ reply'[q] = reply[q]
  BY DEF TypeRequest, Goto
<1>2. reply'[r] = None
  BY DEF StageInv
<1> QED
  BY <1>1, <1>2 DEF AnswerInv, GotPlan, GotRows

\* Grants are kept by every step of a request that has been received.
LEMMA GrantsKept ==
    ASSUME GrantsInv, TypeRequest, NEW r \in Req, UNCHANGED <<world, local>>,
           \A q \in Req \ {r} : reply'[q] = reply[q],
           reply[r] = None
    PROVE  GrantsInv'
BY DEF GrantsInv, AllowedNow, world, local

\* A request comes in (resolve).
LEMMA ReceiveKeeps ==
    ASSUME IInv, NEW r \in Req, NEW a \in Ask, Receive(r, a)
    PROVE  Keeps(r)
<1>0. TypeWorld /\ TypeRequest /\ StageInv(r) /\ AnswerInv(r) /\ reply[r] = None
  BY DEF IInv, TypeOK, RequestInv, StageInv, Receive
<1>1. AllowedNow(published, a.id) \subseteq Revision
  <2> a.id \in Identity
    BY DEF Ask
  <2> QED
    BY <1>0 DEF AllowedNow, TypeWorld, Decision
<1>2. /\ pc'[r] = "prepare" /\ pc' \in [Req -> PCs] /\ AnswerInv(r)'
      /\ reply' \in [Req -> Reply \cup {None}] /\ reply'[r] = None
  BY <1>0, GotoStage DEF Receive, PCs
<1>3. TypeOK'
  <2>1. TypeWorld'
    BY <1>0 DEF Receive, TypeWorld, world
  <2>2. TypeRequest'
    BY <1>0, <1>1, <1>2 DEF Receive, TypeRequest, TypeWorld
  <2>3. TypeCaches'
    BY DEF IInv, TypeOK, Receive, TypeCaches, caches
  <2> QED
    BY <2>1, <2>2, <2>3 DEF TypeOK
<1>4. PlansInv' /\ ResultsInv'
  BY DEF IInv, Receive, PlansInv, ResultsInv, Servable, caches, world
<1>5. /\ asked'[r] = a /\ ver'[r] = published
      /\ granted'[r] = AllowedNow(published, a.id)
      /\ \A q \in Req \ {r} : Same(q)
  BY <1>0 DEF Receive, TypeRequest, Same, Goto, world
<1>6. GrantsInv'
  <2> SUFFICES ASSUME NEW q \in Req, asked'[q] # None, reply'[q] = None
               PROVE  AllowedNow(ver[q], asked[q].id)' \subseteq granted'[q]
    BY DEF GrantsInv
  <2>1. CASE q = r
    BY <2>1, <1>5 DEF AllowedNow, Receive, world
  <2>2. CASE q # r
    BY <2>2, <1>5 DEF AllowedNow, Receive, world, IInv, GrantsInv, Same
  <2> QED
    BY <2>1, <2>2
<1>7. StageInv(r)'
  BY <1>0, <1>2, <1>5 DEF StageInv, Receive
<1> QED
  BY <1>2, <1>3, <1>4, <1>5, <1>6, <1>7 DEF Keeps

\* A step after Receive touches the request's own locals and the caches only.
LEMMA StepKeeps ==
    ASSUME IInv, NEW r \in Req, reply[r] = None, UNCHANGED <<world, local>>, Moves(r),
           fp' \in [Req -> Scope], plan' \in [Req -> Plan \cup {None}],
           rows' \in [Req -> Result \cup {None}],
           \A q \in Req \ {r} : fp'[q] = fp[q] /\ plan'[q] = plan[q] /\ rows'[q] = rows[q],
           TypeCaches', PlansInv', ResultsInv'
    PROVE  Keeps(r)
<1>1. TypeOK'
  <2>1. TypeWorld'
    BY DEF IInv, TypeOK, TypeWorld, world
  <2>2. TypeRequest'
    BY DEF IInv, TypeOK, TypeRequest, local, Moves
  <2> QED
    BY <2>1, <2>2 DEF TypeOK
<1>2. GrantsInv'
  BY GrantsKept DEF IInv, TypeOK, Moves
<1>3. \A q \in Req \ {r} : Same(q)
  BY DEF Moves, Same, world, local
<1> QED
  BY <1>1, <1>2, <1>3 DEF Keeps, Moves

\* The caches keep their invariants when they and the history are left alone.
LEMMA CachesKept ==
    ASSUME IInv, UNCHANGED <<world, caches>>
    PROVE  TypeCaches' /\ PlansInv' /\ ResultsInv'
BY DEF IInv, TypeOK, TypeCaches, PlansInv, ResultsInv, Servable, caches, world

\* The checks before authorization (handleQuery, Limits.apply).
LEMMA PrepareKeeps ==
    ASSUME IInv, NEW r \in Req, Prepare(r)
    PROVE  Keeps(r)
<1>0. TypeRequest /\ StageInv(r) /\ reply[r] = None
  BY DEF IInv, TypeOK, RequestInv, StageInv, Prepare
<1>1. Moves(r)
  <2>1. ASSUME NEW why \in Refusals, Refuse(r, why)
        PROVE  Moves(r)
    BY <1>0, <2>1, RefuseStage DEF Prepare
  <2>2. CASE /\ ver[r] # NoModel /\ Admissible(asked[r].limit)
             /\ Goto(r, "authorize") /\ UNCHANGED reply
    <3>1. /\ pc'[r] = "authorize" /\ pc' \in [Req -> PCs] /\ AnswerInv(r)'
          /\ reply' \in [Req -> Reply \cup {None}] /\ reply'[r] = None
          /\ \A q \in Req \ {r} : pc'[q] = pc[q] /\ reply'[q] = reply[q]
      BY <1>0, <2>2, GotoStage DEF Prepare, PCs
    <3>2. StageInv(r)'
      BY <1>0, <2>2, <3>1 DEF StageInv, Prepare, local
    <3> QED
      BY <3>1, <3>2 DEF Moves
  <2> QED
    BY <2>1, <2>2 DEF Prepare, Refusals
<1>2. TypeCaches' /\ PlansInv' /\ ResultsInv'
  BY CachesKept DEF Prepare
<1> QED
  BY <1>0, <1>1, <1>2, StepKeeps DEF Prepare, TypeRequest

\* The external authorization call of Plan.
LEMMA AuthorizeKeeps ==
    ASSUME IInv, NEW r \in Req, Authorize(r)
    PROVE  Keeps(r)
<1> DEFINE p == ProviderOf[ver[r]]
           d == policy[p][asked[r].id]
<1>0. TypeWorld /\ TypeRequest /\ StageInv(r) /\ reply[r] = None
  BY DEF IInv, TypeOK, RequestInv, StageInv, Authorize
<1>a. ver[r] \in Version /\ asked[r] \in Ask /\ asked[r].id \in Identity
  BY <1>0 DEF Authorize, StageInv, TypeRequest, Ask
<1>b. ASSUME p # NoProvider, d # Deny
      PROVE  Fingerprint(p, asked[r].id, d) \in Scope /\ d \in granted[r]
  <2>1. p \in Provider /\ d \in Revision
    BY <1>0, <1>a, <1>b DEF TypeWorld, Decision
  <2>2. d \in granted[r]
    BY <1>0, <1>a, <1>b DEF IInv, GrantsInv, AllowedNow
  <2> QED
    BY <1>a, <2>1, <2>2 DEF Scope, Fingerprint
<1>1. /\ Moves(r) /\ fp' \in [Req -> Scope]
      /\ \A q \in Req \ {r} : fp'[q] = fp[q]
  <2>1. ASSUME NEW why \in Refusals, Refuse(r, why), UNCHANGED fp
        PROVE  /\ Moves(r) /\ fp' \in [Req -> Scope]
               /\ \A q \in Req \ {r} : fp'[q] = fp[q]
    BY <1>0, <2>1, RefuseStage DEF Authorize, TypeRequest
  <2>2. ASSUME Goto(r, "getPlan"), UNCHANGED reply,
               \/ p = NoProvider /\ UNCHANGED fp
               \/ /\ p # NoProvider /\ d # Deny
                  /\ fp' = [fp EXCEPT ![r] = Fingerprint(p, asked[r].id, d)]
        PROVE  /\ Moves(r) /\ fp' \in [Req -> Scope]
               /\ \A q \in Req \ {r} : fp'[q] = fp[q]
    <3>1. /\ pc'[r] = "getPlan" /\ pc' \in [Req -> PCs] /\ AnswerInv(r)'
          /\ reply' \in [Req -> Reply \cup {None}] /\ reply'[r] = None
          /\ \A q \in Req \ {r} : pc'[q] = pc[q] /\ reply'[q] = reply[q]
      BY <1>0, <2>2, GotoStage DEF Authorize, PCs
    <3>2. fp' \in [Req -> Scope] /\ \A q \in Req \ {r} : fp'[q] = fp[q]
      BY <1>0, <1>b, <2>2 DEF TypeRequest
    <3>3. Granted(r, fp[r])'
      <4>1. CASE p = NoProvider /\ UNCHANGED fp
        BY <1>0, <4>1 DEF Granted, Authorize, local, StageInv
      <4>2. CASE /\ p # NoProvider /\ d # Deny
                 /\ fp' = [fp EXCEPT ![r] = Fingerprint(p, asked[r].id, d)]
        BY <1>0, <1>b, <4>2 DEF Granted, Authorize, local, TypeRequest
      <4> QED
        BY <2>2, <4>1, <4>2
    <3>4. StageInv(r)'
      BY <1>0, <3>1, <3>3 DEF StageInv, Authorize, local
    <3> QED
      BY <3>1, <3>2, <3>4 DEF Moves
  <2> QED
    BY <2>1, <2>2 DEF Authorize, Unavailable, Refusals
<1>2. TypeCaches' /\ PlansInv' /\ ResultsInv'
  BY CachesKept DEF Authorize
<1> QED
  BY <1>0, <1>1, <1>2, StepKeeps DEF Authorize, TypeRequest

\* A plan returned by Plan that is the request's own keeps the invariants.
LEMMA PlanReturnedMoves ==
    ASSUME TypeRequest, NEW r \in Req, StageInv(r), pc[r] \in {"getPlan", "setPlan"},
           UNCHANGED <<world, local, fp, rows>>, NEW pl \in Plan, plan'[r] = pl,
           pl = [sql |-> SQLOf(ver[r], asked[r]), fp |-> fp[r]],
           <<ver[r], asked[r].id, asked[r].body>> \in Permits,
           PlanReturned(r, pl)
    PROVE  Moves(r)
<1>1. CASE ~asked[r].execute /\ Send(r, Planned(pl))
  <2>1. Planned(pl) \in Reply
    BY ReplyType
  <2>2. /\ StageInv(r)' /\ reply'[r] = Planned(pl)
        /\ pc' \in [Req -> PCs] /\ reply' \in [Req -> Reply \cup {None}]
        /\ \A q \in Req \ {r} : pc'[q] = pc[q] /\ reply'[q] = reply[q]
    BY <1>1, <2>1, SendStage
  <2>3. AnswerInv(r)'
    <3>1. Granted(r, fp[r])'
      BY DEF StageInv, Granted, local
    <3>2. reply'[r].fp = fp'[r] /\ reply'[r].sql = SQLOf(ver[r], asked[r])
      BY <2>2, ReplyFields
    <3>3. reply'[r].kind = "plan"
      BY <2>2, ReplyFields
    <3> QED
      BY <3>1, <3>2, <3>3 DEF AnswerInv, GotPlan, GotRows, Granted, local
  <2> QED
    BY <2>2, <2>3 DEF Moves
<1>2. CASE asked[r].execute /\ Goto(r, "getResult") /\ UNCHANGED reply
  <2>1. /\ pc'[r] = "getResult" /\ pc' \in [Req -> PCs] /\ AnswerInv(r)'
        /\ reply' \in [Req -> Reply \cup {None}] /\ reply'[r] = None
        /\ \A q \in Req \ {r} : pc'[q] = pc[q] /\ reply'[q] = reply[q]
    BY <1>2, GotoStage DEF PCs
  <2>2. Granted(r, fp[r])'
    BY DEF StageInv, Granted, local
  <2>3. StageInv(r)'
    BY <1>2, <2>1, <2>2 DEF StageInv, local
  <2> QED
    BY <2>1, <2>3 DEF Moves
<1> QED
  BY <1>1, <1>2 DEF PlanReturned

\* The plan of a request is a plan.
LEMMA PlanType ==
    ASSUME TypeRequest, NEW r \in Req, StageInv(r),
           pc[r] \notin {"idle", "prepare", "done"}
    PROVE  /\ ver[r] \in Version /\ asked[r] \in Ask
           /\ [sql |-> SQLOf(ver[r], asked[r]), fp |-> fp[r]] \in Plan
<1>1. ver[r] \in Version /\ asked[r] \in Ask /\ fp[r] \in Scope
  BY DEF TypeRequest, StageInv
<1> QED
  BY <1>1, SQLOfType DEF Plan

\* A plan cache hit: the entry's key is the request's, so its plan is too.
LEMMA PlanHitKeeps ==
    ASSUME IInv, NEW r \in Req, PlanHit(r)
    PROVE  Keeps(r)
<1>0. TypeRequest /\ StageInv(r) /\ reply[r] = None /\ pc[r] = "getPlan"
  BY DEF IInv, TypeOK, RequestInv, StageInv, PlanHit
<1>1. PICK e \in plans : /\ e.key = PlanKey(r) /\ e.val.fp = fp[r]
                         /\ plan' = [plan EXCEPT ![r] = e.val]
                         /\ PlanReturned(r, e.val)
  BY DEF PlanHit
<1>2. e.val \in Plan
  BY DEF IInv, TypeOK, TypeCaches
<1>3. /\ e.val = [sql |-> SQLOf(ver[r], asked[r]), fp |-> fp[r]]
      /\ <<ver[r], asked[r].id, asked[r].body>> \in Permits
  <2>1. /\ e.val.sql = SQLOfKey(e.key) /\ e.val.fp = fp[r]
        /\ <<e.key.ver, e.key.id, e.key.body>> \in Permits
    BY <1>1 DEF IInv, PlansInv
  <2>2. SQLOfKey(e.key) = SQLOf(ver[r], asked[r])
    BY <1>1 DEF SQLOfKey, SQLOf, PlanKey
  <2> QED
    BY <1>1, <1>2, <2>1, <2>2 DEF Plan, PlanKey
<1>4. /\ plan'[r] = e.val /\ plan' \in [Req -> Plan \cup {None}]
      /\ \A q \in Req \ {r} : plan'[q] = plan[q]
  BY <1>0, <1>1, <1>2 DEF TypeRequest
<1>5. Moves(r)
  BY <1>0, <1>1, <1>2, <1>3, <1>4, PlanReturnedMoves DEF PlanHit
<1>6. TypeCaches' /\ PlansInv' /\ ResultsInv'
  BY CachesKept DEF PlanHit
<1> QED
  BY <1>0, <1>4, <1>5, <1>6, StepKeeps DEF PlanHit, TypeRequest

\* A plan cache miss: Build compiles the request's own plan, or refuses.
LEMMA PlanMissKeeps ==
    ASSUME IInv, NEW r \in Req, PlanMiss(r)
    PROVE  Keeps(r)
<1> DEFINE pl == [sql |-> SQLOf(ver[r], asked[r]), fp |-> fp[r]]
<1>0. TypeRequest /\ StageInv(r) /\ reply[r] = None /\ pc[r] = "getPlan"
  BY DEF IInv, TypeOK, RequestInv, StageInv, PlanMiss
<1>a. pl \in Plan
  BY <1>0, PlanType
<1> HIDE DEF pl
<1>1. /\ Moves(r) /\ plan' \in [Req -> Plan \cup {None}]
      /\ \A q \in Req \ {r} : plan'[q] = plan[q]
  <2>1. CASE Refuse(r, "rejected") /\ UNCHANGED plan
    BY <1>0, <2>1, RefuseStage DEF PlanMiss, TypeRequest, Refusals
  <2>2. CASE /\ <<ver[r], asked[r].id, asked[r].body>> \in Permits
             /\ plan' = [plan EXCEPT ![r] = pl]
             /\ Goto(r, "setPlan") /\ UNCHANGED reply
    <3>1. /\ pc'[r] = "setPlan" /\ pc' \in [Req -> PCs] /\ AnswerInv(r)'
          /\ reply' \in [Req -> Reply \cup {None}] /\ reply'[r] = None
          /\ \A q \in Req \ {r} : pc'[q] = pc[q] /\ reply'[q] = reply[q]
      BY <1>0, <2>2, GotoStage DEF PCs
    <3>2. /\ plan'[r] = pl /\ plan' \in [Req -> Plan \cup {None}]
          /\ \A q \in Req \ {r} : plan'[q] = plan[q]
      BY <1>0, <1>a, <2>2 DEF TypeRequest
    <3>3. Granted(r, fp[r])'
      BY <1>0 DEF StageInv, Granted, local, PlanMiss
    <3>4. StageInv(r)'
      BY <1>0, <2>2, <3>1, <3>2, <3>3 DEF StageInv, local, PlanMiss, pl
    <3> QED
      BY <3>1, <3>2, <3>4 DEF Moves
  <2> QED
    BY <2>1, <2>2 DEF PlanMiss, pl
<1>2. TypeCaches' /\ PlansInv' /\ ResultsInv'
  BY CachesKept DEF PlanMiss
<1> QED
  BY <1>0, <1>1, <1>2, StepKeeps DEF PlanMiss, TypeRequest

\* The write to the plan cache, under the request's own key.
LEMMA SetPlanKeeps ==
    ASSUME IInv, NEW r \in Req, SetPlan(r)
    PROVE  Keeps(r)
<1>0. TypeRequest /\ StageInv(r) /\ reply[r] = None /\ pc[r] = "setPlan"
  BY DEF IInv, TypeOK, RequestInv, StageInv, SetPlan
<1>1. /\ plan[r] = [sql |-> SQLOf(ver[r], asked[r]), fp |-> fp[r]]
      /\ <<ver[r], asked[r].id, asked[r].body>> \in Permits
      /\ plan[r] \in Plan
  BY <1>0, PlanType DEF StageInv
<1>2. Moves(r)
  BY <1>0, <1>1, PlanReturnedMoves DEF SetPlan
<1>3. \A e \in plans' : e \in plans \/ e = [key |-> PlanKey(r), val |-> plan[r]]
  BY PutEntries DEF SetPlan
<1>4. TypeCaches'
  BY <1>1, <1>3 DEF IInv, TypeOK, TypeCaches, SetPlan
<1>5. PlansInv'
  <2> SUFFICES ASSUME NEW e \in plans'
               PROVE  /\ e.val.sql = SQLOfKey(e.key) /\ e.val.fp = e.key.fp
                      /\ <<e.key.ver, e.key.id, e.key.body>> \in Permits
    BY DEF PlansInv
  <2>1. CASE e \in plans
    BY <2>1 DEF IInv, PlansInv
  <2>2. CASE e = [key |-> PlanKey(r), val |-> plan[r]]
    BY <1>1, <2>2 DEF PlanKey, SQLOfKey, SQLOf
  <2> QED
    BY <1>3, <2>1, <2>2
<1>6. ResultsInv'
  BY DEF IInv, ResultsInv, Servable, SetPlan, world
<1> QED
  BY <1>0, <1>2, <1>4, <1>5, <1>6, StepKeeps DEF SetPlan, TypeRequest

\* Rows that are the request's own, complete and servable may be sent.
LEMMA RowsMove ==
    ASSUME TypeRequest, NEW r \in Req, StageInv(r), pc[r] \in {"getResult", "setResult"},
           UNCHANGED <<world, local, fp>>, NEW res \in Result,
           res.sql = SQLOf(ver[r], asked[r]), res.user = RunAs(asked[r].cred),
           ~Incomplete(r, res), Send(r, Rows(res, plan[r].fp))
    PROVE  Moves(r)
<1>1. plan[r].fp = fp[r] /\ fp[r] \in Scope
  BY DEF StageInv, TypeRequest
<1>2. Rows(res, plan[r].fp) \in Reply
  BY <1>1, ReplyType
<1>3. /\ StageInv(r)' /\ reply'[r] = Rows(res, plan[r].fp)
      /\ pc' \in [Req -> PCs] /\ reply' \in [Req -> Reply \cup {None}]
      /\ \A q \in Req \ {r} : pc'[q] = pc[q] /\ reply'[q] = reply[q]
  BY <1>2, SendStage
<1>4. Granted(r, fp[r])'
  BY DEF StageInv, Granted, local
<1>5. /\ reply'[r].fp = fp'[r] /\ reply'[r].res = res /\ reply'[r].kind = "rows"
  BY <1>1, <1>3, ReplyFields
<1>6. AnswerInv(r)'
  BY <1>4, <1>5 DEF AnswerInv, GotPlan, GotRows, Granted, Incomplete, local
<1> QED
  BY <1>3, <1>6 DEF Moves

\* A result cache hit: the entry's rows are those of the SQL and user in its key.
LEMMA ResultHitKeeps ==
    ASSUME IInv, NEW r \in Req, ResultHit(r)
    PROVE  Keeps(r)
<1>0. TypeRequest /\ StageInv(r) /\ reply[r] = None /\ pc[r] = "getResult"
  BY DEF IInv, TypeOK, RequestInv, StageInv, ResultHit
<1>1. PICK e \in results : e.key = ResultKey(r) /\ AnswerFromCache(r, e.val)
  BY DEF ResultHit
<1>2. e.val \in Result /\ e.val.sql = plan[r].sql /\ e.val.user = EngineScope(asked[r].cred)
  BY <1>1 DEF IInv, TypeOK, TypeCaches, ResultsInv, ResultKey
<1>3. e.val.sql = SQLOf(ver[r], asked[r]) /\ e.val.user = RunAs(asked[r].cred)
  BY <1>0, <1>2 DEF StageInv, EngineScope, RunAs, ResultHit, Cacheable
<1>4. Moves(r)
  <2>1. CASE Refuse(r, "incomplete")
    BY <1>0, <2>1, RefuseStage DEF ResultHit, Refusals
  <2>2. CASE ~Incomplete(r, e.val) /\ Send(r, Rows(e.val, plan[r].fp))
    BY <1>0, <1>2, <1>3, <2>2, RowsMove DEF ResultHit
  <2> QED
    BY <1>1, <2>1, <2>2 DEF AnswerFromCache
<1>5. TypeCaches' /\ PlansInv' /\ ResultsInv'
  BY CachesKept DEF ResultHit
<1> QED
  BY <1>0, <1>4, <1>5, StepKeeps DEF ResultHit, TypeRequest

\* A result cache miss goes on to the engine.
LEMMA ResultMissKeeps ==
    ASSUME IInv, NEW r \in Req, ResultMiss(r)
    PROVE  Keeps(r)
<1>0. TypeRequest /\ StageInv(r) /\ reply[r] = None /\ pc[r] = "getResult"
  BY DEF IInv, TypeOK, RequestInv, StageInv, ResultMiss
<1>1. /\ pc'[r] = "execute" /\ pc' \in [Req -> PCs] /\ AnswerInv(r)'
      /\ reply' \in [Req -> Reply \cup {None}] /\ reply'[r] = None
      /\ \A q \in Req \ {r} : pc'[q] = pc[q] /\ reply'[q] = reply[q]
  BY <1>0, GotoStage DEF ResultMiss, PCs
<1>2. Granted(r, fp[r])'
  BY <1>0 DEF StageInv, Granted, local, ResultMiss
<1>3. StageInv(r)'
  BY <1>0, <1>1, <1>2 DEF StageInv, local, ResultMiss
<1>4. TypeCaches' /\ PlansInv' /\ ResultsInv'
  BY CachesKept DEF ResultMiss
<1> QED
  BY <1>0, <1>1, <1>3, <1>4, StepKeeps DEF ResultMiss, TypeRequest, Moves

\* The engine's rows are the request's own, and checked before they are kept.
LEMMA ExecuteKeeps ==
    ASSUME IInv, NEW r \in Req, Execute(r)
    PROVE  Keeps(r)
<1> DEFINE res == [sql |-> plan[r].sql, user |-> RunAs(asked[r].cred), data |-> data]
<1>0. /\ TypeRequest /\ TypeWorld /\ StageInv(r) /\ reply[r] = None
      /\ pc[r] = "execute"
  BY DEF IInv, TypeOK, RequestInv, StageInv, Execute
<1>a. plan[r].sql = SQLOf(ver[r], asked[r])
  BY <1>0 DEF StageInv
<1>b. res \in Result
  <2>1. ver[r] \in Version /\ asked[r] \in Ask
    BY <1>0, PlanType
  <2>2. asked[r].cred \in Credential
    BY <2>1 DEF Ask
  <2> QED
    BY <1>0, <1>a, <2>1, <2>2, SQLOfType, RunAsType DEF Result, TypeWorld
<1>c. /\ res.sql = SQLOf(ver[r], asked[r]) /\ res.user = RunAs(asked[r].cred)
      /\ res.data \in history
  BY <1>0, <1>a DEF TypeWorld
<1> HIDE DEF res
<1>1. /\ Moves(r) /\ rows' \in [Req -> Result \cup {None}]
      /\ \A q \in Req \ {r} : rows'[q] = rows[q]
  <2>1. ASSUME NEW why \in Refusals, Refuse(r, why), UNCHANGED rows
        PROVE  /\ Moves(r) /\ rows' \in [Req -> Result \cup {None}]
               /\ \A q \in Req \ {r} : rows'[q] = rows[q]
    BY <1>0, <2>1, RefuseStage DEF Execute, TypeRequest
  <2>2. CASE /\ ~Incomplete(r, res) /\ BlobBytes(res) <= MaxResultBytes
             /\ rows' = [rows EXCEPT ![r] = res]
             /\ Goto(r, "setResult") /\ UNCHANGED reply
    <3>1. /\ pc'[r] = "setResult" /\ pc' \in [Req -> PCs] /\ AnswerInv(r)'
          /\ reply' \in [Req -> Reply \cup {None}] /\ reply'[r] = None
          /\ \A q \in Req \ {r} : pc'[q] = pc[q] /\ reply'[q] = reply[q]
      BY <1>0, <2>2, GotoStage DEF PCs
    <3>2. /\ rows'[r] = res /\ rows' \in [Req -> Result \cup {None}]
          /\ \A q \in Req \ {r} : rows'[q] = rows[q]
      BY <1>0, <1>b, <2>2 DEF TypeRequest
    <3>3. Granted(r, fp[r])'
      BY <1>0 DEF StageInv, Granted, local, Execute
    <3>4. ~Incomplete(r, rows[r])' /\ Servable(rows[r])'
      BY <1>c, <2>2, <3>2 DEF Incomplete, Servable, local, world, Execute
    <3>5. StageInv(r)'
      BY <1>0, <1>b, <1>c, <3>1, <3>2, <3>3, <3>4 DEF StageInv, local, Execute
    <3> QED
      BY <3>1, <3>2, <3>5 DEF Moves
  <2> QED
    BY <2>1, <2>2 DEF Execute, Refusals, res
<1>2. TypeCaches' /\ PlansInv' /\ ResultsInv'
  BY CachesKept DEF Execute
<1> QED
  BY <1>0, <1>1, <1>2, StepKeeps DEF Execute, TypeRequest

\* The write to the result cache, under the user the query ran as.
LEMMA SetResultKeeps ==
    ASSUME IInv, NEW r \in Req, SetResult(r)
    PROVE  Keeps(r)
<1>0. TypeRequest /\ StageInv(r) /\ reply[r] = None /\ pc[r] = "setResult"
  BY DEF IInv, TypeOK, RequestInv, StageInv, SetResult
<1>1. /\ rows[r].sql = SQLOf(ver[r], asked[r]) /\ rows[r].user = RunAs(asked[r].cred)
      /\ ~Incomplete(r, rows[r]) /\ Servable(rows[r])
      /\ plan[r].sql = SQLOf(ver[r], asked[r])
  BY <1>0 DEF StageInv
<1>2. rows[r] \in Result
  BY <1>0 DEF StageInv, TypeRequest
<1>3. Moves(r)
  BY <1>0, <1>1, <1>2, RowsMove DEF SetResult
<1>4. \A e \in results' : \/ e \in results
                          \/ /\ e = [key |-> ResultKey(r), val |-> rows[r]]
                             /\ Cacheable(asked[r].cred)
  BY PutEntries DEF SetResult
<1>5. TypeCaches'
  BY <1>2, <1>4 DEF IInv, TypeOK, TypeCaches, SetResult
<1>6. PlansInv'
  BY DEF IInv, PlansInv, SetResult
<1>7. ResultsInv'
  <2> SUFFICES ASSUME NEW e \in results'
               PROVE  /\ e.val.sql = e.key.sql /\ e.val.user = e.key.user
                      /\ e.key.user # None /\ Servable(e.val)'
    BY DEF ResultsInv
  <2>1. CASE e \in results
    BY <2>1 DEF IInv, ResultsInv, Servable, SetResult, world
  <2>2. CASE e = [key |-> ResultKey(r), val |-> rows[r]] /\ Cacheable(asked[r].cred)
    <3>1. EngineScope(asked[r].cred) = RunAs(asked[r].cred)
          /\ EngineScope(asked[r].cred) # None
      BY <2>2 DEF Cacheable, EngineScope, RunAs
    <3>2. Servable(rows[r])'
      BY <1>1 DEF Servable, SetResult, world
    <3> QED
      BY <1>1, <2>2, <3>1, <3>2 DEF ResultKey, Servable, SetResult, world
  <2> QED
    BY <1>4, <2>1, <2>2
<1> QED
  BY <1>0, <1>3, <1>5, <1>6, <1>7, StepKeeps DEF SetResult, TypeRequest

-----------------------------------------------------------------------------
(* The world and the theorems *)

\* Publishing, policy changes and loads disturb no request: histories only grow.
LEMMA WorldKeeps == IInv /\ World => IInv'
<1> SUFFICES ASSUME IInv, World PROVE IInv'
  OBVIOUS
<1> USE DEF IInv, TypeOK
<1>1. TypeCaches' /\ PlansInv' /\ \A q \in Req : Same(q)
  <2>1. ASSUME NEW v \in Version \cup {NoModel}, Publish(v)
        PROVE  TypeCaches' /\ PlansInv' /\ \A q \in Req : Same(q)
    BY <2>1 DEF Publish, ServerUnchanged, caches, TypeCaches, PlansInv, Same
  <2>2. ASSUME NEW p \in Provider, NEW i \in Identity, NEW d \in Decision, Decide(p, i, d)
        PROVE  TypeCaches' /\ PlansInv' /\ \A q \in Req : Same(q)
    BY <2>2 DEF Decide, ServerUnchanged, caches, TypeCaches, PlansInv, Same
  <2>3. ASSUME NEW d \in Data, Load(d)
        PROVE  TypeCaches' /\ PlansInv' /\ \A q \in Req : Same(q)
    BY <2>3 DEF Load, ServerUnchanged, caches, TypeCaches, PlansInv, Same
  <2> QED
    BY <2>1, <2>2, <2>3 DEF World
<1>2. UNCHANGED results /\ history \subseteq history'
  BY DEF World, Publish, Decide, Load, ServerUnchanged, caches
<1>3. ResultsInv'
  BY <1>2 DEF ResultsInv, Servable
<1>4. RequestInv'
  BY <1>1, Frame DEF RequestInv
<1>5. TypeWorld' /\ TypeRequest' /\ GrantsInv'
  <2>1. ASSUME NEW v \in Version \cup {NoModel}, Publish(v)
        PROVE  TypeWorld' /\ TypeRequest' /\ GrantsInv'
    BY <2>1 DEF Publish, Change, ServerUnchanged, TypeWorld, TypeRequest, GrantsInv, AllowedNow
  <2>2. ASSUME NEW p \in Provider, NEW i \in Identity, NEW d \in Decision, Decide(p, i, d)
        PROVE  TypeWorld' /\ TypeRequest' /\ GrantsInv'
    <3>1. TypeWorld'
      BY <2>2 DEF Decide, Change, TypeWorld
    <3>2. granted' \in [Req -> SUBSET Revision]
      BY <2>2 DEF Decide, TypeRequest, Decision
    <3>3. TypeRequest'
      BY <2>2, <3>2 DEF Decide, ServerUnchanged, TypeRequest
    <3>4. GrantsInv'
      <4> SUFFICES ASSUME NEW q \in Req, asked'[q] # None, reply'[q] = None
                   PROVE  AllowedNow(ver[q], asked[q].id)' \subseteq granted'[q]
        BY DEF GrantsInv
      <4>0. /\ asked'[q] = asked[q] /\ reply'[q] = reply[q] /\ ver'[q] = ver[q]
            /\ asked[q].id \in Identity /\ ver[q] \in Version \cup {NoModel}
        BY <2>2 DEF Decide, ServerUnchanged, TypeRequest, Ask
      <4>1. CASE ver[q] # NoModel /\ ProviderOf[ver[q]] = p /\ asked[q].id = i
        BY <2>2, <4>0, <4>1 DEF Decide, AllowedNow, TypeWorld
      <4>2. CASE ~(ver[q] # NoModel /\ ProviderOf[ver[q]] = p /\ asked[q].id = i)
        <5>1. AllowedNow(ver[q], asked[q].id)' = AllowedNow(ver[q], asked[q].id)
          <6>1. CASE ver[q] = NoModel \/ ProviderOf[ver[q]] = NoProvider
            BY <4>0, <6>1 DEF AllowedNow
          <6>2. CASE ver[q] # NoModel /\ ProviderOf[ver[q]] # NoProvider
            <7>1. policy'[ProviderOf[ver[q]]][asked[q].id] = policy[ProviderOf[ver[q]]][asked[q].id]
              BY <2>2, <4>0, <4>2, <6>2 DEF Decide, TypeWorld
            <7> QED
              BY <4>0, <6>2, <7>1 DEF AllowedNow
          <6> QED
            BY <6>1, <6>2
        <5>2. granted[q] \subseteq granted'[q]
          BY <1>1 DEF Same
        <5> QED
          BY <4>0, <5>1, <5>2 DEF GrantsInv
      <4> QED
        BY <4>1, <4>2
    <3> QED
      BY <3>1, <3>3, <3>4
  <2>3. ASSUME NEW d \in Data, Load(d)
        PROVE  TypeWorld' /\ TypeRequest' /\ GrantsInv'
    BY <2>3 DEF Load, Change, ServerUnchanged, TypeWorld, TypeRequest, GrantsInv, AllowedNow
  <2> QED
    BY <2>1, <2>2, <2>3 DEF World
<1> QED
  BY <1>1, <1>3, <1>4, <1>5

\* A step of a request that keeps the invariants keeps them for everyone.
LEMMA KeepsIInv ==
    ASSUME IInv, NEW r \in Req, Keeps(r)
    PROVE  IInv'
<1>1. ASSUME NEW q \in Req PROVE StageInv(q)' /\ AnswerInv(q)'
  <2>1. CASE q = r
    BY <2>1 DEF Keeps
  <2>2. CASE q # r
    BY <2>2, Frame DEF Keeps, IInv, RequestInv
  <2> QED
    BY <2>1, <2>2
<1> QED
  BY <1>1 DEF IInv, Keeps, RequestInv

\* The invariant holds before any request and is kept by every step.
LEMMA InitIInv == Init => IInv
<1> SUFFICES ASSUME Init PROVE IInv
  OBVIOUS
<1>1. TypeOK
  BY DEF Init, TypeOK, TypeWorld, TypeRequest, TypeCaches, Scope, PCs
<1>2. PlansInv /\ ResultsInv /\ GrantsInv
  BY DEF Init, PlansInv, ResultsInv, GrantsInv
<1>3. RequestInv
  BY DEF Init, RequestInv, StageInv, AnswerInv, GotPlan, GotRows
<1> QED
  BY <1>1, <1>2, <1>3 DEF IInv

\* A step of one request keeps the invariant.
LEMMA StepIInv ==
    ASSUME IInv, NEW r \in Req, Step(r)
    PROVE  IInv'
<1>1. Keeps(r)
  BY ReceiveKeeps, PrepareKeeps, AuthorizeKeeps, PlanHitKeeps, PlanMissKeeps,
     SetPlanKeeps, ResultHitKeeps, ResultMissKeeps, ExecuteKeeps, SetResultKeeps
     DEF Step
<1> QED
  BY <1>1, KeepsIInv

\* Every step of the system keeps the invariant.
LEMMA NextIInv == IInv /\ [Next]_vars => IInv'
<1> SUFFICES ASSUME IInv, [Next]_vars PROVE IInv'
  OBVIOUS
<1>1. ASSUME NEW r \in Req, Step(r) PROVE IInv'
  BY <1>1, StepIInv
<1>2. CASE World
  BY <1>2, WorldKeeps
<1>3. CASE UNCHANGED vars
  BY <1>3 DEF vars, world, local, caches, IInv, TypeOK, TypeWorld, TypeRequest, TypeCaches,
              PlansInv, ResultsInv, GrantsInv, AllowedNow, RequestInv, StageInv, AnswerInv,
              Granted, Servable, Incomplete, GotPlan, GotRows
<1> QED
  BY <1>1, <1>2, <1>3 DEF Next

\* The inductive invariant holds throughout.
THEOREM Inductive == Spec => []IInv
BY InitIInv, NextIInv, PTL DEF Spec

\* Every variable keeps its type (all of Service.Plan and Service.Query).
THEOREM TypeCorrect == Spec => []TypeOK
<1>1. IInv => TypeOK
  BY DEF IInv
<1> QED
  BY <1>1, Inductive, PTL

\* Whatever the caches hold, a caller gets answers to its own request only.
THEOREM AnswersAreOwn == Spec => []OwnAnswer
<1>1. IInv => OwnAnswer
  BY DEF IInv, RequestInv, AnswerInv, OwnAnswer
<1> QED
  BY <1>1, Inductive, PTL

\* No answer under a decision revoked before the request came in.
THEOREM RevocationHolds == Spec => []NotAfterRevocation
<1>1. IInv => NotAfterRevocation
  BY DEF IInv, RequestInv, AnswerInv, NotAfterRevocation, Granted
<1> QED
  BY <1>1, Inductive, PTL

\* A defaulted request is never answered with a prefix.
THEOREM NoPrefixes == Spec => []NeverAPrefix
<1>1. ASSUME IInv PROVE NeverAPrefix
  <2> SUFFICES ASSUME NEW r \in Req, GotRows(r), asked[r].limit = 0
               PROVE  RowsIn[reply[r].res.data] <= DefaultRowLimit
    BY DEF NeverAPrefix
  <2>1. /\ reply[r].res.sql = SQLOf(ver[r], asked[r]) /\ ~Incomplete(r, reply[r].res)
    BY <1>1 DEF IInv, RequestInv, AnswerInv
  <2>2. reply[r].res.sql.limit = DefaultRowLimit + 1
    BY <2>1 DEF SQLOf, Effective
  <2>3. reply[r].res.data \in Data
    BY <1>1 DEF IInv, TypeOK, TypeRequest, GotRows, Reply, Result
  <2> QED
    BY <2>1, <2>2, <2>3 DEF Incomplete, RowCount
<1> QED
  BY <1>1, Inductive, PTL

-----------------------------------------------------------------------------
(* Refinement *)

pvars == <<published, policy, data, history, asked, ver, granted, reply>>

\* The promise speaks of the same requests, decisions, SQL, rows and answers.
LEMMA SameDomain ==
    /\ Promise!Ask = Ask /\ Promise!Decision = Decision /\ Promise!Scope = Scope
    /\ Promise!Refusals = Refusals
    /\ \A why : Promise!Refused(why) = Refused(why)
    /\ \A p : Promise!Planned(p) = Planned(p)
    /\ \A res, f : Promise!Rows(res, f) = Rows(res, f)
    /\ \A p, i, rev : Promise!Fingerprint(p, i, rev) = Fingerprint(p, i, rev)
    /\ \A v, a : Promise!SQLOf(v, a) = SQLOf(v, a)
    /\ \A c : Promise!RunAs(c) = RunAs(c)
    /\ \A res : Promise!BlobBytes(res) = BlobBytes(res)
<1>1. Promise!Ask = Ask /\ Promise!Decision = Decision
  BY DEF Promise!Ask, Ask, Promise!Credential, Credential, Promise!Decision, Decision
<1>2. Promise!Scope = Scope /\ Promise!Refusals = Refusals
  BY DEF Promise!Scope, Scope, Promise!Refusals, Refusals
<1>3. /\ \A why : Promise!Refused(why) = Refused(why)
      /\ \A p : Promise!Planned(p) = Planned(p)
      /\ \A res, f : Promise!Rows(res, f) = Rows(res, f)
      /\ \A p, i, rev : Promise!Fingerprint(p, i, rev) = Fingerprint(p, i, rev)
  BY DEF Promise!Refused, Refused, Promise!Planned, Planned, Promise!Rows, Rows,
         Promise!Fingerprint, Fingerprint
<1>4. /\ \A v, a : Promise!SQLOf(v, a) = SQLOf(v, a)
      /\ \A c : Promise!RunAs(c) = RunAs(c)
      /\ \A res : Promise!BlobBytes(res) = BlobBytes(res)
  BY DEF Promise!SQLOf, SQLOf, Promise!Effective, Effective, Promise!RunAs, RunAs,
         Promise!BlobBytes, BlobBytes, Promise!RowCount, RowCount
<1> QED
  BY <1>1, <1>2, <1>3, <1>4

\* Sending an answer is the abstract Answer.
LEMMA SendIsAnswer ==
    ASSUME NEW r \in Req, StageInv(r), pc[r] \notin {"idle", "done"},
           UNCHANGED <<world, local>>, NEW ans, Send(r, ans)
    PROVE  Promise!Pending(r) /\ Promise!Answer(r, ans)
BY DEF Send, StageInv, world, local, Promise!Pending, Promise!Answer

\* Sending a refusal is the abstract Refuse.
LEMMA RefuseIsRefuse ==
    ASSUME NEW r \in Req, StageInv(r), pc[r] \notin {"idle", "done"},
           UNCHANGED <<world, local>>, NEW why \in Refusals, Refuse(r, why)
    PROVE  Promise!Next
BY SendIsAnswer, SameDomain DEF Refuse, Promise!Next, Promise!Refuse

\* Plan's return is the abstract AnswerPlan, or goes on unobserved.
LEMMA PlanReturnedIsAnswer ==
    ASSUME TypeRequest, NEW r \in Req, StageInv(r), pc[r] \in {"getPlan", "setPlan"},
           UNCHANGED <<world, local, fp, rows>>, NEW pl,
           pl = [sql |-> SQLOf(ver[r], asked[r]), fp |-> fp[r]],
           <<ver[r], asked[r].id, asked[r].body>> \in Permits,
           PlanReturned(r, pl)
    PROVE  Promise!Next \/ UNCHANGED pvars
<1>1. CASE ~asked[r].execute /\ Send(r, Planned(pl))
  <2>1. Promise!Pending(r) /\ Promise!Answer(r, Planned(pl))
    BY <1>1, SendIsAnswer
  <2>2. fp[r] \in Scope /\ ver[r] # NoModel /\ Promise!Entitled(r, fp[r])
    BY SameDomain DEF TypeRequest, StageInv, Granted, Promise!Entitled
  <2>3. Promise!AnswerPlan(r)
    BY <1>1, <2>1, <2>2, SameDomain DEF Promise!AnswerPlan, Promise!Compiles
  <2> QED
    BY <2>3 DEF Promise!Next
<1>2. CASE UNCHANGED reply
  BY <1>2 DEF pvars, world, local
<1> QED
  BY <1>1, <1>2 DEF PlanReturned

\* Rows sent are rows the abstract service may answer with.
LEMMA RowsAreAnswer ==
    ASSUME TypeOK, NEW r \in Req, StageInv(r), pc[r] \in {"getResult", "setResult"},
           UNCHANGED <<world, local>>, NEW res \in Result,
           res.sql = SQLOf(ver[r], asked[r]), res.user = RunAs(asked[r].cred),
           ~Incomplete(r, res), Servable(res), Send(r, Rows(res, plan[r].fp))
    PROVE  Promise!Next
<1>1. Promise!Pending(r) /\ Promise!Answer(r, Rows(res, plan[r].fp))
  BY SendIsAnswer
<1>2. /\ plan[r].fp = fp[r] /\ fp[r] \in Scope /\ ver[r] # NoModel
      /\ Promise!Entitled(r, fp[r]) /\ asked[r].execute /\ Promise!Compiles(r)
  BY SameDomain DEF TypeOK, TypeRequest, StageInv, Granted, Promise!Entitled,
                    Promise!Compiles
<1>3. res = [sql |-> SQLOf(ver[r], asked[r]), user |-> RunAs(asked[r].cred),
             data |-> res.data]
  BY DEF Result
<1>4. asked[r].limit = 0 => RowsIn[res.data] <= DefaultRowLimit
  <2> SUFFICES ASSUME asked[r].limit = 0 PROVE RowsIn[res.data] <= DefaultRowLimit
    OBVIOUS
  <2>1. res.sql.limit = DefaultRowLimit + 1
    BY DEF SQLOf, Effective
  <2> QED
    BY <2>1 DEF Incomplete, RowCount, Result
<1>5. Promise!AnswerRows(r)
  <2>1. res.data \in history /\ BlobBytes(res) <= MaxResultBytes
    BY DEF Servable
  <2> QED
    BY <1>1, <1>2, <1>3, <1>4, <2>1, SameDomain DEF Promise!AnswerRows
<1> QED
  BY <1>5 DEF Promise!Next

\* Every step of a request is an answer, a receipt, or unobservable.
LEMMA StepRefines ==
    ASSUME IInv, NEW r \in Req, Step(r)
    PROVE  Promise!Next \/ UNCHANGED pvars
<1>0. TypeOK /\ TypeRequest /\ StageInv(r)
  BY DEF IInv, TypeOK, RequestInv
<1>1. ASSUME NEW a \in Ask, Receive(r, a) PROVE Promise!Next
  <2>1. Promise!Receive(r, a)
    BY <1>0, <1>1 DEF Receive, StageInv, world, AllowedNow, Promise!Receive, Promise!AllowedNow
  <2> QED
    BY <2>1, SameDomain DEF Promise!Next
<1>2. CASE Prepare(r)
  <2>1. ASSUME NEW why \in Refusals, Refuse(r, why) PROVE Promise!Next
    BY <1>0, <1>2, <2>1, RefuseIsRefuse DEF Prepare
  <2>2. CASE UNCHANGED reply
    BY <1>2, <2>2 DEF Prepare, pvars, world, local
  <2> QED
    BY <1>2, <2>1, <2>2 DEF Prepare, Refusals
<1>3. CASE Authorize(r)
  <2>1. ASSUME NEW why \in Refusals, Refuse(r, why) PROVE Promise!Next
    BY <1>0, <1>3, <2>1, RefuseIsRefuse DEF Authorize
  <2>2. CASE UNCHANGED reply
    BY <1>3, <2>2 DEF Authorize, pvars, world, local
  <2> QED
    BY <1>3, <2>1, <2>2 DEF Authorize, Unavailable, Refusals
<1>4. CASE PlanHit(r)
  <2>1. PICK e \in plans : /\ e.key = PlanKey(r) /\ e.val.fp = fp[r]
                           /\ PlanReturned(r, e.val)
    BY <1>4 DEF PlanHit
  <2>2. /\ e.val = [sql |-> SQLOf(ver[r], asked[r]), fp |-> fp[r]]
        /\ <<ver[r], asked[r].id, asked[r].body>> \in Permits
    <3>1. /\ e.val.sql = SQLOfKey(e.key) /\ e.val \in Plan
          /\ <<e.key.ver, e.key.id, e.key.body>> \in Permits
      BY <2>1 DEF IInv, PlansInv, TypeOK, TypeCaches
    <3>2. SQLOfKey(e.key) = SQLOf(ver[r], asked[r])
      BY <2>1 DEF SQLOfKey, SQLOf, PlanKey
    <3> QED
      BY <2>1, <3>1, <3>2 DEF Plan, PlanKey
  <2> QED
    BY <1>0, <1>4, <2>1, <2>2, PlanReturnedIsAnswer DEF PlanHit
<1>5. CASE PlanMiss(r)
  <2>1. CASE Refuse(r, "rejected")
    BY <1>0, <1>5, <2>1, RefuseIsRefuse DEF PlanMiss, Refusals
  <2>2. CASE UNCHANGED reply
    BY <1>5, <2>2 DEF PlanMiss, pvars, world, local
  <2> QED
    BY <1>5, <2>1, <2>2 DEF PlanMiss
<1>6. CASE SetPlan(r)
  BY <1>0, <1>6, PlanReturnedIsAnswer DEF SetPlan, StageInv
<1>7. CASE ResultHit(r)
  <2>1. PICK e \in results : e.key = ResultKey(r) /\ AnswerFromCache(r, e.val)
    BY <1>7 DEF ResultHit
  <2>2. /\ e.val \in Result /\ e.val.sql = plan[r].sql /\ Servable(e.val)
        /\ e.val.user = EngineScope(asked[r].cred)
    BY <2>1 DEF IInv, TypeOK, TypeCaches, ResultsInv, ResultKey
  <2>3. e.val.sql = SQLOf(ver[r], asked[r]) /\ e.val.user = RunAs(asked[r].cred)
    BY <1>0, <1>7, <2>2 DEF StageInv, EngineScope, RunAs, ResultHit, Cacheable
  <2>4. CASE Refuse(r, "incomplete")
    BY <1>0, <1>7, <2>4, RefuseIsRefuse DEF ResultHit, Refusals
  <2>5. CASE ~Incomplete(r, e.val) /\ Send(r, Rows(e.val, plan[r].fp))
    BY <1>0, <1>7, <2>2, <2>3, <2>5, RowsAreAnswer DEF ResultHit
  <2> QED
    BY <2>1, <2>4, <2>5 DEF AnswerFromCache
<1>8. CASE ResultMiss(r)
  BY <1>8 DEF ResultMiss, pvars, world, local
<1>9. CASE Execute(r)
  <2>1. ASSUME NEW why \in Refusals, Refuse(r, why) PROVE Promise!Next
    BY <1>0, <1>9, <2>1, RefuseIsRefuse DEF Execute
  <2>2. CASE UNCHANGED reply
    BY <1>9, <2>2 DEF Execute, pvars, world, local
  <2> QED
    BY <1>9, <2>1, <2>2 DEF Execute, Refusals
<1>10. CASE SetResult(r)
  BY <1>0, <1>10, RowsAreAnswer DEF SetResult, StageInv
<1> QED
  BY <1>1, <1>2, <1>3, <1>4, <1>5, <1>6, <1>7, <1>8, <1>9, <1>10 DEF Step

\* The world changes alike in both specifications.
LEMMA WorldRefines == World => Promise!Next
<1>1. ASSUME NEW v \in Version \cup {NoModel}, Publish(v) PROVE Promise!Next
  <2>1. Promise!Publish(v)
    BY <1>1 DEF Publish, ServerUnchanged, Promise!Publish
  <2> QED
    BY <2>1, SameDomain DEF Promise!Next
<1>2. ASSUME NEW p \in Provider, NEW i \in Identity, NEW d \in Decision, Decide(p, i, d)
      PROVE  Promise!Next
  <2>1. Promise!Decide(p, i, d)
    BY <1>2 DEF Decide, ServerUnchanged, Promise!Decide, Promise!Pending
  <2> QED
    BY <2>1, SameDomain DEF Promise!Next
<1>3. ASSUME NEW d \in Data, Load(d) PROVE Promise!Next
  <2>1. Promise!Load(d)
    BY <1>3 DEF Load, ServerUnchanged, Promise!Load
  <2> QED
    BY <2>1, SameDomain DEF Promise!Next
<1> QED
  BY <1>1, <1>2, <1>3 DEF World

\* The cached query path implements the uncached promise: every answer of
\* Service.Query and Service.Plan is one QueryService allows.
THEOREM Refinement == Spec => Implements
<1>1. Init => Promise!Init
  BY SameDomain DEF Init, Promise!Init
<1>2. IInv /\ [Next]_vars => [Promise!Next]_(Promise!vars)
  <2> SUFFICES ASSUME IInv, [Next]_vars PROVE Promise!Next \/ UNCHANGED pvars
    BY DEF pvars, Promise!vars
  <2>1. ASSUME NEW r \in Req, Step(r) PROVE Promise!Next \/ UNCHANGED pvars
    BY <2>1, StepRefines
  <2>2. CASE World
    BY <2>2, WorldRefines
  <2>3. CASE UNCHANGED vars
    BY <2>3 DEF vars, world, local, pvars
  <2> QED
    BY <2>1, <2>2, <2>3 DEF Next
<1> QED
  BY <1>1, <1>2, Inductive, PTL DEF Spec, Implements, Promise!Spec
=============================================================================
