---------------------------- MODULE QueryService ----------------------------
(***************************************************************************)
(* What the query endpoints promise, with no cache in sight.  An answer    *)
(* carries rows or a plan only if, at some moment since the request came   *)
(* in, the model's provider allowed this very caller; the SQL is that of   *)
(* the version resolved for the request, the caller and the effective      *)
(* limit; the rows were computed by the engine as the caller's own engine  *)
(* user over data the warehouse really held; and a request that names no   *)
(* limit is never answered with a prefix of a larger result.  Everything   *)
(* else is refused.                                                        *)
(***************************************************************************)
EXTENDS QueryDomain

VARIABLES
    published,  \* version in the model store
    policy,     \* the decision each provider gives for each identity now
    data,       \* the warehouse now
    history,    \* every state the warehouse has been in
    asked,      \* the request, None before it comes in
    ver,        \* the model resolved for it
    granted,    \* revisions that allowed the caller since it came in
    reply       \* None until answered

vars == <<published, policy, data, history, asked, ver, granted, reply>>

Init ==
    /\ published \in Version \cup {NoModel}
    /\ policy \in [Provider -> [Identity -> Decision]]
    /\ data \in Data
    /\ history = {data}
    /\ asked = [r \in Req |-> None] /\ ver = [r \in Req |-> NoModel]
    /\ granted = [r \in Req |-> {}] /\ reply = [r \in Req |-> None]

(* Revisions under which the provider of version v allows identity i now   *)
AllowedNow(v, i) ==
    IF v = NoModel \/ ProviderOf[v] = NoProvider THEN {}
    ELSE {policy[ProviderOf[v]][i]} \ {Deny}

Receive(r, a) ==
    /\ asked[r] = None
    /\ asked' = [asked EXCEPT ![r] = a]
    /\ ver' = [ver EXCEPT ![r] = published]
    /\ granted' = [granted EXCEPT ![r] = AllowedNow(published, a.id)]
    /\ UNCHANGED <<published, policy, data, history, reply>>

Pending(r) == asked[r] # None /\ reply[r] = None

(* The scope the caller is entitled to for the version it resolved         *)
Entitled(r, fp) ==
    IF ProviderOf[ver[r]] = NoProvider THEN fp = NoFp
    ELSE \E rev \in granted[r] : fp = Fingerprint(ProviderOf[ver[r]], asked[r].id, rev)

Compiles(r) == <<ver[r], asked[r].id, asked[r].body>> \in Permits

Answer(r, ans) ==
    /\ Pending(r)
    /\ reply' = [reply EXCEPT ![r] = ans]
    /\ UNCHANGED <<published, policy, data, history, asked, ver, granted>>

Refuse(r) == \E why \in Refusals : Answer(r, Refused(why))

AnswerPlan(r) == \E fp \in Scope :
    /\ Pending(r)
    /\ ver[r] # NoModel /\ Compiles(r) /\ ~asked[r].execute
    /\ Entitled(r, fp)
    /\ Answer(r, Planned([sql |-> SQLOf(ver[r], asked[r]), fp |-> fp]))

AnswerRows(r) == \E d \in history, fp \in Scope :
    LET res == [sql |-> SQLOf(ver[r], asked[r]), user |-> RunAs(asked[r].cred), data |-> d] IN
    /\ Pending(r)
    /\ ver[r] # NoModel /\ Compiles(r) /\ asked[r].execute
    /\ Entitled(r, fp)
    /\ asked[r].limit = 0 => RowsIn[d] <= DefaultRowLimit
    /\ BlobBytes(res) <= MaxResultBytes
    /\ Answer(r, Rows(res, fp))

(* The world: the operator, the policy administrators and the warehouse    *)
Publish(v) ==
    /\ published' = v
    /\ UNCHANGED <<policy, data, history, asked, ver, granted, reply>>

Decide(p, i, d) ==
    /\ policy' = [policy EXCEPT ![p][i] = d]
    /\ granted' = [r \in Req |->
         IF /\ Pending(r) /\ ver[r] # NoModel /\ ProviderOf[ver[r]] = p
            /\ asked[r].id = i /\ d # Deny
         THEN granted[r] \cup {d} ELSE granted[r]]
    /\ UNCHANGED <<published, data, history, asked, ver, reply>>

Load(d) ==
    /\ data' = d /\ history' = history \cup {d}
    /\ UNCHANGED <<published, policy, asked, ver, granted, reply>>

Next ==
    \/ \E r \in Req : \/ \E a \in Ask : Receive(r, a)
                      \/ Refuse(r) \/ AnswerPlan(r) \/ AnswerRows(r)
    \/ \E v \in Version \cup {NoModel} : Publish(v)
    \/ \E p \in Provider, i \in Identity, d \in Decision : Decide(p, i, d)
    \/ \E d \in Data : Load(d)

Spec == Init /\ [][Next]_vars
=============================================================================
