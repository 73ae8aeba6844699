---------------------------- MODULE QueryDomain ----------------------------
(***************************************************************************)
(* What a query request of the semantic server is about: callers, request  *)
(* bodies, published model versions, engine credentials, and the rows the  *)
(* engine computes.  Shared by the promise (QueryService) and by the code  *)
(* path that keeps it (QueryPath).                                         *)
(*                                                                         *)
(* The SQL text is abstracted to what determines it: planner.Build is a    *)
(* function of the model version, the caller, the body and the row limit,  *)
(* and the text carries the version and the request hash in its comment.   *)
(***************************************************************************)
EXTENDS Integers, FiniteSets

CONSTANTS
    Req,           \* requests, each one goroutine of the server
    Identity,      \* authenticated governance identities
    Body,          \* request bodies without their row limit
    Limit,         \* the row limits requests name (0: none named)
    Version,       \* versions of the model the operator may publish
    Provider,      \* configured external authorization providers
    ProviderOf,    \* [Version -> Provider \cup {NoProvider}]
    Permits,       \* <<version, identity, body>> that planner.Build accepts
    Revision,      \* policy revisions of the providers
    EngineUser,    \* engine users that tokens belong to
    Data,          \* states of the warehouse
    RowsIn,        \* [Data -> Nat] rows of the whole, unlimited result
    RowBytes,      \* [Data -> Nat] encoded size of one row
    DefaultRowLimit, MaxRowLimit, MaxResultBytes, MaxCacheEntryBytes,
    NoProvider, NoModel, Deny, NoFp, Static, None

ASSUME DomainAssumption ==
    /\ Limit \subseteq Int
    /\ ProviderOf \in [Version -> Provider \cup {NoProvider}]
    /\ RowsIn \in [Data -> Nat] /\ RowBytes \in [Data -> Nat]
    /\ DefaultRowLimit \in Nat \ {0} /\ MaxRowLimit \in Nat \ {0}
    /\ MaxResultBytes \in Nat /\ MaxCacheEntryBytes \in Nat
    /\ NoProvider \notin Provider /\ NoModel \notin Version
    /\ Deny \notin Revision

(* serving.Caller / dbclient.EngineCredential: the zero credential, or the *)
(* token of an engine user.  The user claim may be missing from the token. *)
Credential == {Static} \cup [owner : EngineUser, named : BOOLEAN]

(* planner.Request with the caller and the endpoint (/query or /sql)       *)
Ask == [id : Identity, body : Body, limit : Limit, cred : Credential,
        execute : BOOLEAN]

Decision == Revision \cup {Deny}

(* authorization.Fingerprint: provider, identity and validated decision    *)
Fingerprint(p, i, rev) == [provider |-> p, id |-> i, revision |-> rev]
Scope == [provider : Provider, id : Identity, revision : Revision] \cup {NoFp}

(* Limits.apply: the effective limit, one past the default when none is    *)
(* named, so that a larger result can be told from a complete one          *)
Effective(limit) == IF limit = 0 THEN DefaultRowLimit + 1 ELSE limit
Admissible(limit) == limit >= 0 /\ limit <= MaxRowLimit

(* Plan.SQL                                                                *)
SQL == [ver : Version, id : Identity, body : Body, limit : Int]
SQLOf(v, a) == [ver |-> v, id |-> a.id, body |-> a.body, limit |-> Effective(a.limit)]

(* planner.Plan: the SQL and the decision it was compiled under            *)
Plan == [sql : SQL, fp : Scope]

(* The engine runs the SQL as the credential's user over the current data  *)
Result == [sql : SQL, user : EngineUser \cup {Static}, data : Data]
RunAsToken(cred) == cred
RunAs(cred) == IF cred = Static THEN Static ELSE cred.owner
RowCount(res) == IF RowsIn[res.data] < res.sql.limit THEN RowsIn[res.data]
                                                     ELSE res.sql.limit
BlobBytes(res) == RowCount(res) * RowBytes[res.data]

(* What the adapter writes: an error, a plan (/sql), or rows (/query)      *)
Refusals == {"unknown", "credential", "limit", "unavailable", "denied", "rejected",
             "engine", "incomplete", "too large"}
Refused(why) == [kind |-> "refused", why |-> why]
Planned(p) == [kind |-> "plan", sql |-> p.sql, fp |-> p.fp]
Rows(res, fp) == [kind |-> "rows", res |-> res, fp |-> fp]
Reply == [kind : {"refused"}, why : Refusals]
         \cup [kind : {"plan"}, sql : SQL, fp : Scope]
         \cup [kind : {"rows"}, res : Result, fp : Scope]

ASSUME NoneAssumption == None \notin Ask /\ None \notin Reply
=============================================================================
