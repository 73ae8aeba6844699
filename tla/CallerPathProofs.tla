--------------------------- MODULE CallerPathProofs ---------------------------
(***************************************************************************)
(* Proofs about CallerPath: type correctness, that a query runs as its own *)
(* caller and only when that caller was allowed, and that the OPA and      *)
(* Ranger providers implement Authorizer, for any configurations, requests *)
(* and issued tokens, any number of calls and any clock.                   *)
(***************************************************************************)
EXTENDS CallerPath, TLAPS

(* The inductive invariant behind RunsAsCaller and RunsAsAuthorized.        *)

\* What the server insisted on before it came up.
UpInv ==
    server = "up" =>
        /\ config.mode \in {"static", "passthrough", "exchange"}
        /\ config.mode # "static" => RequireEngineIdentity(config)

\* A call in progress is of a request the server authenticated.
EngineUser(r) ==
    IF config.auth = "jwt" /\ config.userClaim THEN StringClaim(r.bearer.euser) ELSE Nobody

AuthInv(c) ==
    pc[c] # "idle" =>
        /\ server = "up" /\ presented[c] \in Requests
        /\ ac[c].id.principal = Caller(presented[c])
        /\ ac[c].id.principal # Nobody
        /\ NewQueryInput(ac[c].id, 0).id.groups \cup NewQueryInput(ac[c].id, 0).id.roles
              = Labels(presented[c])
        /\ who[c] = EngineUser(presented[c])
        /\ config.auth = "jwt" => ac[c].exp \in Time \ {0}

\* The credential a call holds, stage by stage.
Exchanging == {"request", "store", "verify"}
Resolved == {"ready", "asking", "planned", "running"}

TokenInv(c) ==
    /\ pc[c] \in Exchanging => config.mode = "exchange"
    /\ pc[c] = "store" => who[c] \in Principal
    /\ pc[c] \in {"store", "verify"} => token[c] # NoToken
    /\ pc[c] \in Resolved /\ config.mode = "passthrough" =>
          token[c] # NoToken /\ token[c].owner = StringClaim(presented[c].bearer.euser)
    /\ pc[c] \in Resolved /\ config.mode = "exchange" =>
          token[c] # NoToken /\ token[c].owner = who[c]
    /\ pc[c] = "running" /\ config.mode # "static" => who[c] # Nobody

\* What a call has asked its provider and been told, stage by stage.
Quiet(c) == asked[c] = NoInput /\ decided[c] = "none" /\ verdict[c] = "none"

Asked(c) ==
    /\ asked[c].id.principal = Caller(presented[c])
    /\ asked[c].id.groups \cup asked[c].id.roles = Labels(presented[c])

AskedInv(c) ==
    /\ pc[c] \in {"idle", "resolve", "ready"} \cup Exchanging => Quiet(c)
    /\ pc[c] = "asking" => config.ref # "none" /\ Asked(c)
    /\ pc[c] \in {"planned", "running"} =>
          \/ config.ref = "none" /\ Quiet(c)
          \/ Asked(c) /\ verdict[c] = "allowed"

CallInv(c) == AuthInv(c) /\ TokenInv(c) /\ AskedInv(c)

IInv == TypeOK /\ UpInv /\ \A c \in Call : CallInv(c)
-----------------------------------------------------------------------------
(* Reading a policy server's answer *)

\* A response of OPA that was damaged is an error (opa.Client.Decide).
LEMMA DamagedOPA ==
    ASSUME NEW result, NEW allow, NEW extra, NEW revision,
           NEW r \in Damaged(OPABody(result, allow, extra, revision))
    PROVE  r = OPABody(result, allow, extra, revision) \/ OPADecide(r) = "error"
<1> DEFINE b == OPABody(result, allow, extra, revision)
<1>1. r = b \/ r.status \in {"redirect", "error"} \/ r.big = TRUE
      \/ r.json \in {"null", "two", "broken", "extraField"}
  BY DEF Damaged, OPABody
<1>2. r.status \in {"redirect", "error"} => OPADecide(r) = "error"
  BY DEF OPADecide
<1>3. r.big = TRUE => OPADecide(r) = "error"
  BY DEF OPADecide
<1>4. r.json \in {"null", "two", "broken", "extraField"} => OPADecide(r) = "error"
  BY DEF OPADecide, DecodeDecision
<1> QED
  BY <1>1, <1>2, <1>3, <1>4

\* A response of OPA, damaged or not, reads as an error or as what it says
\* (opa.Client.Decide, decodeDecision).
LEMMA BodyOPA ==
    ASSUME NEW result, NEW allow, NEW extra, NEW revision,
           NEW r \in Damaged(OPABody(result, allow, extra, revision))
    PROVE  \/ OPADecide(r) = "error"
           \/ OPADecide(r) = "allow" /\ result = "true"
           \/ OPADecide(r) = "allow" /\ allow = "true" /\ extra # TRUE
           \/ OPADecide(r) = "deny" /\ result # "true" /\ result # "object"
           \/ OPADecide(r) = "deny" /\ result # "true" /\ allow # "true"
<1> DEFINE b == OPABody(result, allow, extra, revision)
<1>1. CASE OPADecide(r) = "error"
  BY <1>1
<1>2. CASE r = b
  <2>1. /\ b.result = result /\ b.allow = allow /\ b.extra = extra /\ b.revision = revision
        /\ b.big = FALSE /\ b.status = "ok" /\ b.json = "one"
    BY DEF OPABody
  <2> HIDE DEF b
  <2>2. OPADecide(b) = DecodeDecision(b)
    BY <2>1 DEF OPADecide
  <2>3. result \in {"absent", "null", "false"} => DecodeDecision(b) = "deny"
    BY <2>1 DEF DecodeDecision
  <2>4. result = "true" => DecodeDecision(b) = "allow"
    BY <2>1 DEF DecodeDecision
  <2>5. result \notin {"absent", "null", "false", "true"} =>
           DecodeDecision(b) = ObjectDecision(b)
    BY <2>1 DEF DecodeDecision
  <2>6. \/ ObjectDecision(b) = "error"
        \/ ObjectDecision(b) = "allow" /\ allow = "true" /\ extra # TRUE
        \/ ObjectDecision(b) = "deny" /\ allow # "true" /\ extra # TRUE
    BY <2>1 DEF ObjectDecision
  <2> QED
    BY <1>2, <2>2, <2>3, <2>4, <2>5, <2>6
<1> QED
  BY <1>1, <1>2, DamagedOPA

\* OPA's client reads out of a response only what the server decided.
LEMMA OPARead ==
    ASSUME NEW d \in Decisions, NEW r \in OPAResponses(d)
    PROVE  \/ OPADecide(r) = "error"
           \/ OPADecide(r) = "allow" /\ d = "allow"
           \/ OPADecide(r) = "deny" /\ d = "deny"
<1>1. CASE d = "allow"
  <2>1. \/ r \in Damaged(OPABody("true", "none", FALSE, "none"))
        \/ r \in Damaged(OPABody("object", "true", FALSE, "r1"))
        \/ r \in Damaged(OPABody("object", "true", FALSE, "long"))
        \/ r \in Damaged(OPABody("object", "true", FALSE, "control"))
    BY <1>1 DEF OPAResponses
  <2> QED
    BY <1>1, <2>1, BodyOPA
<1>2. CASE d = "deny"
  <2>1. \/ r \in Damaged(OPABody("absent", "none", FALSE, "none"))
        \/ r \in Damaged(OPABody("null", "none", FALSE, "none"))
        \/ r \in Damaged(OPABody("false", "none", FALSE, "none"))
        \/ r \in Damaged(OPABody("object", "false", FALSE, "r1"))
        \/ r \in Damaged(OPABody("object", "none", FALSE, "r1"))
    BY <1>2 DEF OPAResponses
  <2> QED
    BY <1>2, <2>1, BodyOPA
<1>3. CASE d = "conditional"
  <2>1. r \in Damaged(OPABody("object", "true", TRUE, "none"))
    BY <1>3 DEF OPAResponses
  <2> QED
    BY <1>3, <2>1, BodyOPA
<1> QED
  BY <1>1, <1>2, <1>3 DEF Decisions

\* Ranger's provider reads out of a response only what the server decided on
\* this call's input.
LEMMA RangerRead ==
    ASSUME NEW input, NEW i, NEW d \in Decisions, NEW r \in RangerResponses(i, d)
    PROVE  \/ RangerDecide(input, r) = "error"
           \/ RangerDecide(input, r) = "allow" /\ d = "allow" /\ i = input
           \/ RangerDecide(input, r) = "deny" /\ d # "allow" /\ i = input
<1> DEFINE B(decision, access, obligations) ==
             RangerBody(i, decision, {"query"}, "query", access, obligations)
           Said == RangerDecide(input, r)
<1>1. ASSUME NEW decision, NEW access, NEW obligations \in BOOLEAN,
             r \in Damaged(B(decision, access, obligations))
      PROVE  \/ Said = "error"
             \/ /\ Said = "allow" /\ decision = "ALLOW" /\ i = input
                /\ access = decision /\ ~obligations
             \/ /\ Said = "deny" /\ decision # "ALLOW" /\ i = input
                /\ access = decision /\ ~obligations
  BY <1>1 DEF Damaged, RangerBody, RangerDecide, RangerPost, ValidateResult
<1>2. ASSUME NEW permissions, NEW name, permissions # {"query"} \/ name # "query",
             r \in Damaged(RangerBody(i, "ALLOW", permissions, name, "ALLOW", FALSE))
      PROVE  Said = "error"
  BY <1>2 DEF Damaged, RangerBody, RangerDecide, RangerPost, ValidateResult
<1>3. ASSUME NEW decision, NEW access, NEW obligations \in BOOLEAN,
             r \in Damaged(B(decision, access, obligations)),
             d = "allow" <=> decision = "ALLOW" /\ access = "ALLOW" /\ ~obligations
      PROVE  \/ Said = "error"
             \/ Said = "allow" /\ d = "allow" /\ i = input
             \/ Said = "deny" /\ d # "allow" /\ i = input
  BY <1>1, <1>3
<1>4. CASE d = "allow"
  <2>1. r \in Damaged(B("ALLOW", "ALLOW", FALSE))
    BY <1>4 DEF RangerResponses, B
  <2> QED
    BY <1>3, <1>4, <2>1 DEF Said
<1>5. CASE d = "deny"
  <2>1. {"read"} # {"query"} /\ {"query", "read"} # {"query"}
    OBVIOUS
  <2>2. CASE \/ r \in Damaged(B("DENY", "DENY", FALSE))
             \/ r \in Damaged(B("NOT_DETERMINED", "NOT_DETERMINED", FALSE))
             \/ r \in Damaged(B("ALLOW", "DENY", FALSE))
             \/ r \in Damaged(B("none", "ALLOW", FALSE))
             \/ r \in Damaged(B("ALLOW", "none", FALSE))
    BY <1>3, <1>5, <2>2 DEF Said
  <2>3. CASE \/ r \in Damaged(RangerBody(i, "ALLOW", {"read"}, "read", "ALLOW", FALSE))
             \/ r \in Damaged(RangerBody(i, "ALLOW", {"query", "read"}, "query", "ALLOW", FALSE))
             \/ r \in Damaged(RangerBody(i, "ALLOW", {"query"}, "read", "ALLOW", FALSE))
    <3>1. Said = "error"
      BY <1>2, <2>1, <2>3
    <3> QED
      BY <3>1 DEF Said
  <2> QED
    BY <1>5, <2>2, <2>3 DEF RangerResponses, B
<1>6. CASE d = "conditional"
  <2>1. r \in Damaged(B("ALLOW", "ALLOW", TRUE)) \/ r \in Damaged(B("PARTIAL", "PARTIAL", FALSE))
    BY <1>6 DEF RangerResponses, B
  <2> QED
    BY <1>3, <1>6, <2>1 DEF Said
<1> QED
  BY <1>4, <1>5, <1>6 DEF Decisions
-----------------------------------------------------------------------------
(* Reading a request *)

USE IdentitiesAssumption, CallerAssumption, ExchangerAssumption, ProvidersAssumption

\* A name read from a claim is one of the names, or none (stringClaim).
LEMMA StringClaimType ==
    ASSUME NEW names, NEW claim \in Claim(names)
    PROVE  StringClaim(claim) \in names \cup {Nobody}
BY DEF StringClaim, Claim

\* The names read from a claim are names (listClaim).
LEMMA ListClaimType ==
    ASSUME NEW names, NEW claim \in Claim(names)
    PROVE  ListClaim(claim) \subseteq names
<1> SUFFICES ASSUME NEW i \in DOMAIN claim.vals, claim.vals[i] \notin {Nobody, NotString}
             PROVE  claim.vals[i] \in names
  BY DEF ListClaim
<1> QED
  BY DEF Claim

\* The identity a header or a token gives is an identity.
LEMMA AuthenticateType ==
    ASSUME NEW cfg, NEW r \in Request, NEW t \in Time
    PROVE  Authenticate(cfg, r, t) \in Authenticated
<1> DEFINE b == r.bearer
           byToken == [principal |-> StringClaim(b.sub), groups |-> ListClaim(b.groups),
                       roles |-> ListClaim(b.roles)]
           user == IF cfg.userClaim THEN StringClaim(b.euser) ELSE Nobody
<1>1. b \in BearerToken
  BY DEF Request
<1>2. byToken \in Identity
  <2>1. StringClaim(b.sub) \in Principal \cup {Nobody}
    BY <1>1, StringClaimType DEF BearerToken
  <2>2. ListClaim(b.groups) \in SUBSET Role /\ ListClaim(b.roles) \in SUBSET Role
    BY <1>1, ListClaimType DEF BearerToken
  <2> QED
    BY <2>1, <2>2 DEF Identity
<1>3. user \in Principal \cup {Nobody}
  BY <1>1, StringClaimType DEF BearerToken
<1>4. HeaderIdentity(r) \in Identity
  BY DEF HeaderIdentity, Identity, Request
<1>5. Unauthenticated \in Authenticated
  BY DEF Unauthenticated, Authenticated, NoIdentity, Identity
<1>6. b.exp \in Time \cup {Unknown}
  BY <1>1 DEF BearerToken
<1>7. \A i \in Identity, u \in Principal \cup {Nobody}, e \in Time \cup {Unknown} :
        [ok |-> TRUE, id |-> i, user |-> u, exp |-> e] \in Authenticated
  BY DEF Authenticated
<1>8. /\ [ok |-> TRUE, id |-> HeaderIdentity(r), user |-> Nobody, exp |-> Unknown]
            \in Authenticated
      /\ [ok |-> TRUE, id |-> byToken, user |-> user, exp |-> b.exp] \in Authenticated
  BY <1>2, <1>3, <1>4, <1>6, <1>7
<1> QED
  BY <1>5, <1>8 DEF Authenticate

\* The question to a provider carries the caller's labels, or the default role
\* (NewQueryInput).
LEMMA QuestionType ==
    ASSUME NEW id \in Identity, NEW t \in Time
    PROVE  /\ NewQueryInput(id, t) \in Input
           /\ NewQueryInput(id, t).id.principal = id.principal
           /\ NewQueryInput(id, t).id = NewQueryInput(id, 0).id
BY DEF NewQueryInput, Input, Identity

\* A caller who authenticates is the one the trusted means names, with the
\* labels it names; a token that authenticates expires later (Authenticate).
LEMMA AuthenticateMeans ==
    ASSUME NEW r \in Request, NEW t \in Time, Authenticate(config, r, t).ok
    PROVE  LET a == Authenticate(config, r, t)
           IN  /\ a.id.principal = Caller(r) /\ a.id.principal # Nobody
               /\ NewQueryInput(a.id, 0).id.groups \cup NewQueryInput(a.id, 0).id.roles
                     = Labels(r)
               /\ a.user = EngineUser(r)
               /\ config.auth = "jwt" => a.exp \in Time \ {0}
<1> DEFINE a == Authenticate(config, r, t)
           b == r.bearer
           byToken == [principal |-> StringClaim(b.sub), groups |-> ListClaim(b.groups),
                       roles |-> ListClaim(b.roles)]
           user == IF config.userClaim THEN StringClaim(b.euser) ELSE Nobody
<1>1. CASE config.auth = "header" /\ r.user # Nobody
  <2>1. a = [ok |-> TRUE, id |-> HeaderIdentity(r), user |-> Nobody, exp |-> Unknown]
    BY <1>1 DEF Authenticate
  <2> QED
    BY <1>1, <2>1 DEF HeaderIdentity, Caller, Labels, EngineUser, NewQueryInput
<1>2. CASE /\ config.auth = "jwt" /\ Parses(b, t) /\ byToken.principal # Nobody
           /\ byToken.groups \cup byToken.roles # {}
  <2>1. a = [ok |-> TRUE, id |-> byToken, user |-> user, exp |-> b.exp]
    BY <1>2 DEF Authenticate
  <2>2. NewQueryInput(byToken, 0).id = byToken /\ Labels(r) = byToken.groups \cup byToken.roles
    BY <1>2 DEF NewQueryInput, Labels
  <2>3. b.exp \in Time \ {0}
    BY <1>2 DEF Parses, Request, BearerToken, Time, Unknown
  <2> QED
    BY <1>2, <2>1, <2>2, <2>3 DEF Caller, EngineUser
<1>3. CASE ~(config.auth = "header" /\ r.user # Nobody)
           /\ ~(/\ config.auth = "jwt" /\ Parses(b, t) /\ byToken.principal # Nobody
                /\ byToken.groups \cup byToken.roles # {})
  <2>1. a = Unauthenticated
    BY <1>3 DEF Authenticate
  <2> QED
    BY <2>1 DEF Unauthenticated
<1> QED
  BY <1>1, <1>2, <1>3
-----------------------------------------------------------------------------
(* Steps *)

\* Initially no call is in progress.
LEMMA InitIInv == Init => IInv
<1> SUFFICES ASSUME Init PROVE IInv
  OBVIOUS
<1>1. NoIdentity \in Identity /\ 0 \in Time
  BY DEF NoIdentity, Identity, Time
<1>2. TypeOK
  BY <1>1 DEF Init, ExchangerInit, ProvidersInit, TypeOK, Token, NoToken, PCs, Unauthenticated,
              Authenticated, NoInput, Input
<1>3. UpInv
  BY DEF Init, UpInv
<1>4. \A c \in Call : CallInv(c)
  BY DEF Init, ExchangerInit, ProvidersInit, CallInv, AuthInv, TokenInv, AskedInv, Quiet,
         Exchanging, Resolved
<1> QED
  BY <1>2, <1>3, <1>4 DEF IInv

\* What a call's invariant speaks of, apart from the configuration.
Same(d) ==
    /\ pc'[d] = pc[d] /\ who'[d] = who[d] /\ token'[d] = token[d]
    /\ presented'[d] = presented[d] /\ ac'[d] = ac[d]
    /\ asked'[d] = asked[d] /\ decided'[d] = decided[d] /\ verdict'[d] = verdict[d]

\* A step that leaves a call alone keeps its invariant.
LEMMA Frame ==
    ASSUME NEW d \in Call, CallInv(d), Same(d), config' = config, server' = server
    PROVE  CallInv(d)'
<1>1. AuthInv(d)'
  BY DEF CallInv, Same, AuthInv, Caller, Labels, EngineUser
<1>2. TokenInv(d)'
  BY DEF CallInv, Same, TokenInv
<1>3. AskedInv(d)'
  BY DEF CallInv, Same, AskedInv, Quiet, Asked, Caller, Labels
<1> QED
  BY <1>1, <1>2, <1>3 DEF CallInv

\* So a step of one call has only that call to account for.
LEMMA OneCall ==
    ASSUME IInv, NEW c \in Call, \A d \in Call \ {c} : Same(d),
           config' = config, server' = server, TypeOK', CallInv(c)'
    PROVE  IInv'
<1>1. \A d \in Call \ {c} : CallInv(d)'
  BY Frame DEF IInv
<1>2. UpInv'
  BY DEF IInv, UpInv, RequireEngineIdentity
<1> QED
  BY <1>1, <1>2 DEF IInv

\* A handler that returns leaves its call as it was before it arrived (Return,
\* and what Drop forgets).
LEMMA ReturnInv ==
    ASSUME IInv, NEW c \in Call, Return(c), Drop(c), clock' \in Time,
           cache' \in [Principal -> Token], config' = config, server' = server
    PROVE  IInv'
<1> USE DEF Return, Drop, Forget
<1>1. TypeOK'
  <2>1. NoInput \in Input /\ Unauthenticated \in Authenticated /\ NoToken \in Token
        /\ 0 \in Time
    BY DEF NoInput, Input, NoIdentity, Identity, Unauthenticated, Authenticated, NoToken,
           Token, Time
  <2> QED
    BY <2>1 DEF IInv, TypeOK, PCs
<1>2. \A d \in Call \ {c} : Same(d)
  BY DEF Same, IInv, TypeOK
<1>3. CallInv(c)'
  BY DEF IInv, TypeOK, CallInv, AuthInv, TokenInv, AskedInv, Quiet, Exchanging, Resolved
<1> QED
  BY <1>1, <1>2, <1>3, OneCall

\* The server comes up, or refuses its configuration (StartUp).
LEMMA StartUpInv == IInv /\ StartUp => IInv'
<1> SUFFICES ASSUME IInv, StartUp PROVE IInv'
  OBVIOUS
<1>1. TypeOK'
  BY DEF IInv, TypeOK, StartUp, exVars, azVars
<1>2. UpInv'
  BY DEF StartUp, UpInv, RequireEngineIdentity
<1>3. \A d \in Call : pc[d] = "idle" \/ server' = "up"
  BY DEF IInv, CallInv, AuthInv, StartUp
<1>4. \A d \in Call : CallInv(d)'
  BY DEF IInv, CallInv, AuthInv, TokenInv, AskedInv, Quiet, Asked, Caller, Labels, EngineUser,
         StartUp, exVars, azVars
<1> QED
  BY <1>1, <1>2, <1>4 DEF IInv

\* A request arrives and is authenticated (Arrive).
LEMMA ArriveInv ==
    ASSUME IInv, NEW c \in Call, NEW r \in Requests, Arrive(c, r)
    PROVE  IInv'
<1> DEFINE a == Authenticate(config, r, clock)
<1>1. r \in Request /\ clock \in Time
  BY DEF IInv, TypeOK
<1>2. a \in Authenticated
  BY <1>1, AuthenticateType
<1>3. /\ a.id.principal = Caller(r) /\ a.id.principal # Nobody
      /\ NewQueryInput(a.id, 0).id.groups \cup NewQueryInput(a.id, 0).id.roles = Labels(r)
      /\ a.user = EngineUser(r)
      /\ config.auth = "jwt" => a.exp \in Time \ {0}
  BY <1>1, AuthenticateMeans DEF Arrive
<1> HIDE DEF a
<1>4. /\ server = "up" /\ pc[c] = "idle" /\ UNCHANGED <<clock, cache, now, token, azVars, config, server>>
      /\ presented' = [presented EXCEPT ![c] = r] /\ ac' = [ac EXCEPT ![c] = a]
      /\ who' = [who EXCEPT ![c] = a.user] /\ pc' = [pc EXCEPT ![c] = "resolve"]
  BY DEF Arrive, a
<1>5. TypeOK'
  BY <1>2, <1>4 DEF IInv, TypeOK, PCs, Authenticated, azVars
<1>6. \A d \in Call \ {c} : Same(d)
  BY <1>4 DEF Same, azVars
<1>7. AuthInv(c)'
  <2>1. /\ pc'[c] = "resolve" /\ presented'[c] = r /\ ac'[c] = a /\ who'[c] = a.user
        /\ Caller(r)' = Caller(r) /\ Labels(r)' = Labels(r) /\ EngineUser(r)' = EngineUser(r)
    BY <1>4 DEF IInv, TypeOK, Caller, Labels, EngineUser
  <2> QED
    BY <1>3, <1>4, <2>1 DEF AuthInv, Caller, Labels, EngineUser, NewQueryInput
<1>8. TokenInv(c)' /\ AskedInv(c)'
  BY <1>4 DEF IInv, TypeOK, CallInv, TokenInv, AskedInv, Quiet, Exchanging, Resolved, azVars
<1> QED
  BY <1>4, <1>5, <1>6, <1>7, <1>8, OneCall DEF CallInv

\* A call gets its credential, or sets out to exchange one (Resolve).
LEMMA ResolveInv ==
    ASSUME IInv, NEW c \in Call, Resolve(c)
    PROVE  IInv'
<1>1. /\ pc[c] = "resolve" /\ server = "up" /\ UNCHANGED <<clock, who, azVars, config, server, presented, ac>>
  BY Zenon DEF IInv, CallInv, AuthInv, Resolve, Goto, Start, Passthrough
<1>2. TypeOK' /\ TokenInv(c)' /\ pc'[c] \in {"ready", "verify", "request"}
      /\ pc' = [pc EXCEPT ![c] = pc'[c]] /\ token' = [token EXCEPT ![c] = token'[c]]
  <2>1. CASE config.mode = "static" /\ Goto(c, "ready") /\ UNCHANGED <<clock, cache>>
    BY <1>1, <2>1 DEF IInv, TypeOK, PCs, TokenInv, Goto, Exchanging, Resolved, azVars
  <2>2. CASE config.mode = "passthrough" /\ Passthrough(c)
             /\ pc' = [pc EXCEPT ![c] = "ready"] /\ UNCHANGED <<clock, cache, who, now>>
    <3> DEFINE t == [owner |-> StringClaim(presented[c].bearer.euser), expiry |-> ac[c].exp]
    <3>1. presented[c] \in Request /\ config.auth = "jwt" /\ ac[c].exp \in Time \ {0}
      BY <1>1, <2>2 DEF IInv, CallInv, AuthInv, UpInv, RequireEngineIdentity
    <3>2. StringClaim(presented[c].bearer.euser) \in Principal \cup {Nobody}
      BY <3>1, StringClaimType DEF Request, BearerToken
    <3>3. t \in Token /\ t # NoToken
      BY <3>1, <3>2 DEF Token, NoToken
    <3>4. token' = [token EXCEPT ![c] = t]
      BY <2>2 DEF Passthrough
    <3>5. TypeOK'
      BY <1>1, <2>2, <3>3, <3>4 DEF IInv, TypeOK, PCs, azVars
    <3> QED
      BY <1>1, <2>2, <3>3, <3>4, <3>5 DEF IInv, TypeOK, TokenInv, Exchanging, Resolved
  <2>3. CASE config.mode = "exchange" /\ Start(c)
    <3>1. CASE /\ who[c] \in Principal /\ Valid(cache[who[c]], clock)
               /\ token' = [token EXCEPT ![c] = cache[who[c]]]
               /\ pc' = [pc EXCEPT ![c] = "verify"] /\ UNCHANGED <<cache, now>>
      <4>1. cache[who[c]] \in Token /\ cache[who[c]] # NoToken
        BY <3>1 DEF IInv, TypeOK, Valid, Token, NoToken, Time
      <4> QED
        BY <1>1, <2>3, <3>1, <4>1 DEF IInv, TypeOK, PCs, TokenInv, Exchanging, Resolved, azVars
    <3>2. CASE /\ who[c] \in Principal /\ ~Valid(cache[who[c]], clock)
               /\ now' = [now EXCEPT ![c] = clock]
               /\ cache' = [cache EXCEPT ![who[c]] = NoToken]
               /\ pc' = [pc EXCEPT ![c] = "request"] /\ UNCHANGED token
      <4>1. NoToken \in Token
        BY DEF NoToken, Token, Time
      <4> QED
        BY <1>1, <2>3, <3>2, <4>1 DEF IInv, TypeOK, PCs, TokenInv, Exchanging, Resolved, azVars
    <3>3. CASE /\ who[c] = Nobody
               /\ pc' = [pc EXCEPT ![c] = "request"] /\ UNCHANGED <<cache, now, token>>
      BY <1>1, <2>3, <3>3 DEF IInv, TypeOK, PCs, TokenInv, Exchanging, Resolved, azVars
    <3> QED
      BY <2>3, <3>1, <3>2, <3>3 DEF Start
  <2> QED
    BY <2>1, <2>2, <2>3 DEF Resolve
<1>3. \A d \in Call \ {c} : Same(d)
  BY <1>1, <1>2 DEF Same, azVars, IInv, TypeOK
<1>4. AuthInv(c)'
  BY <1>1 DEF IInv, CallInv, AuthInv, Caller, Labels, EngineUser
<1>5. AskedInv(c)'
  BY <1>1, <1>2 DEF IInv, CallInv, AskedInv, Quiet, Exchanging, azVars
<1> QED
  BY <1>1, <1>2, <1>3, <1>4, <1>5, OneCall DEF CallInv

\* A call asks its provider, if the model has one (Plan).
LEMMA PlanInv ==
    ASSUME IInv, NEW c \in Call, Plan(c)
    PROVE  IInv'
<1>1. /\ pc[c] = "ready" /\ UNCHANGED <<clock, cache, who, now, token, config, server, presented, ac>>
      /\ pc' = [pc EXCEPT ![c] = pc'[c]] /\ pc'[c] \in {"planned", "asking"}
  BY DEF IInv, TypeOK, Plan, Goto
<1>2. TypeOK' /\ AskedInv(c)' /\ \A d \in Call \ {c} : Same(d)
  <2>1. CASE config.ref = "none" /\ Goto(c, "planned") /\ UNCHANGED azVars
    BY <1>1, <2>1 DEF IInv, TypeOK, PCs, CallInv, AskedInv, Quiet, Goto, azVars, Same, Exchanging
  <2>2. CASE /\ config.ref # "none" /\ Goto(c, "asking")
             /\ Authorize(c, TypeOf(config.providers, config.ref), ac[c].id, clock)
    <3> DEFINE input == NewQueryInput(ac[c].id, clock)
    <3>1. ac[c].id \in Identity /\ clock \in Time
      BY DEF IInv, TypeOK, Authenticated
    <3>2. input \in Input /\ input.id.principal = ac[c].id.principal
          /\ input.id = NewQueryInput(ac[c].id, 0).id
      BY <3>1, QuestionType
    <3> HIDE DEF input
    <3>3. PICK v \in {"unavailable", "none"} :
            /\ asked' = [asked EXCEPT ![c] = input] /\ verdict' = [verdict EXCEPT ![c] = v]
            /\ UNCHANGED decided
      BY <2>2 DEF Authorize, input
    <3>4. TypeOK'
      BY <1>1, <2>2, <3>2, <3>3 DEF IInv, TypeOK, PCs, Verdicts
    <3>5. Asked(c)'
      BY <1>1, <3>2, <3>3 DEF IInv, TypeOK, CallInv, AuthInv, Asked, Caller, Labels
    <3>6. AskedInv(c)'
      BY <1>1, <2>2, <3>5 DEF IInv, TypeOK, AskedInv, Goto, Exchanging
    <3> QED
      BY <1>1, <3>3, <3>4, <3>6 DEF Same, IInv, TypeOK
  <2> QED
    BY <2>1, <2>2 DEF Plan
<1>3. AuthInv(c)'
  BY <1>1 DEF IInv, CallInv, AuthInv, Caller, Labels, EngineUser
<1>4. TokenInv(c)'
  BY <1>1 DEF IInv, CallInv, TokenInv, Exchanging, Resolved
<1> QED
  BY <1>1, <1>2, <1>3, <1>4, OneCall DEF CallInv

\* What a step of the exchange and of the engine client leaves alone.
Beside == UNCHANGED <<config, server>>

\* A step that moves a call on within the handler, touching neither what was
\* presented nor what was asked, keeps what authentication established.
LEMMA MovedOn ==
    ASSUME IInv, NEW c \in Call, pc[c] # "idle",
           pc' = [pc EXCEPT ![c] = pc'[c]], pc'[c] \in PCs \ {"idle"},
           token' = [token EXCEPT ![c] = token'[c]], UNCHANGED who, Beside,
           UNCHANGED <<azVars, presented, ac>>, TypeOK', TokenInv(c)', AskedInv(c)'
    PROVE  IInv'
<1>1. \A d \in Call \ {c} : Same(d)
  BY DEF IInv, TypeOK, Same, azVars
<1>2. AuthInv(c)'
  BY DEF IInv, CallInv, AuthInv, Caller, Labels, EngineUser, Beside
<1> QED
  BY <1>1, <1>2, OneCall DEF CallInv, Beside

\* A call goes on once its provider allowed it, or fails (Proceed).
LEMMA ProceedInv ==
    ASSUME IInv, NEW c \in Call, Proceed(c)
    PROVE  IInv'
<1>1. pc[c] = "asking" /\ UNCHANGED <<clock, cache, config, server>> /\ Held(c)
  BY DEF Proceed
<1>2. CASE verdict[c] = "allowed" /\ Goto(c, "planned")
  <2>1. pc' = [pc EXCEPT ![c] = "planned"] /\ UNCHANGED <<who, now, token>> /\ pc'[c] = "planned"
    BY <1>2 DEF Goto, IInv, TypeOK
  <2>2. UNCHANGED <<azVars, presented, ac>>
    BY <1>1, <2>1 DEF Held
  <2>3. TypeOK'
    BY <1>1, <2>1, <2>2 DEF IInv, TypeOK, PCs, azVars
  <2>4. TokenInv(c)'
    BY <1>1, <2>1, <2>2 DEF IInv, CallInv, TokenInv, Exchanging, Resolved
  <2>5. AskedInv(c)'
    BY <1>1, <1>2, <2>1, <2>2
       DEF IInv, CallInv, AskedInv, Asked, Exchanging, Caller, Labels, azVars
  <2>6. token' = [token EXCEPT ![c] = token'[c]]
    BY <2>1 DEF IInv, TypeOK
  <2> QED
    BY <1>1, <2>1, <2>2, <2>3, <2>4, <2>5, <2>6, MovedOn DEF PCs, Beside
<1>3. CASE Return(c)
  <2>1. pc'[c] = "idle"
    BY <1>3 DEF Return, IInv, TypeOK
  <2> QED
    BY <1>1, <1>3, <2>1, ReturnInv DEF Held, IInv, TypeOK
<1> QED
  BY <1>2, <1>3 DEF Proceed

\* The exchange, its check, and the engine client (Exchanger).
LEMMA ExchangeInv ==
    ASSUME IInv, NEW c \in Call, ExchangeSteps(c), Held(c), UNCHANGED <<config, server>>
    PROVE  IInv'
<1> DEFINE Moved == /\ pc[c] # "idle" /\ pc'[c] \in PCs \ {"idle"}
                    /\ pc' = [pc EXCEPT ![c] = pc'[c]]
                    /\ token' = [token EXCEPT ![c] = token'[c]] /\ UNCHANGED who
                    /\ UNCHANGED <<azVars, presented, ac>>
                    /\ TypeOK' /\ TokenInv(c)' /\ AskedInv(c)'
<1>1. ASSUME Return(c), UNCHANGED <<clock, cache>> PROVE IInv'
  <2>1. pc'[c] = "idle"
    BY <1>1 DEF Return, IInv, TypeOK
  <2> QED
    BY <1>1, <2>1, ReturnInv DEF Held, IInv, TypeOK
<1>2. ASSUME NEW t \in Issued, Issue(c, t) PROVE Moved
  <2>1. /\ pc[c] = "request" /\ token' = [token EXCEPT ![c] = t]
        /\ pc' = [pc EXCEPT ![c] = AfterResponse(c)] /\ UNCHANGED <<clock, cache, who, now>>
    BY <1>2 DEF Issue
  <2>2. /\ t \in Token /\ t # NoToken /\ AfterResponse(c) \in {"store", "verify"}
        /\ AfterResponse(c) = "store" => who[c] \in Principal
    BY DEF AfterResponse
  <2>3. pc'[c] = AfterResponse(c) /\ token'[c] = t
    BY <2>1 DEF IInv, TypeOK
  <2>4. UNCHANGED <<azVars, presented, ac>>
    BY <2>2, <2>3 DEF Held
  <2>5. TypeOK'
    BY <2>1, <2>2, <2>4 DEF IInv, TypeOK, PCs, azVars
  <2>6. TokenInv(c)'
    BY <2>1, <2>2, <2>3 DEF IInv, CallInv, TokenInv, Exchanging, Resolved
  <2>7. AskedInv(c)'
    BY <2>1, <2>2, <2>3, <2>4 DEF IInv, CallInv, AskedInv, Quiet, Exchanging, azVars
  <2> QED
    BY <2>1, <2>2, <2>3, <2>4, <2>5, <2>6, <2>7 DEF PCs
<1>3. ASSUME Store(c) PROVE Moved
  <2> DEFINE kept == [p \in Principal |-> IF Expired(cache[p], now[c]) THEN NoToken ELSE cache[p]]
  <2>1. /\ pc[c] = "store" /\ cache' = [kept EXCEPT ![who[c]] = token[c]]
        /\ pc' = [pc EXCEPT ![c] = "verify"] /\ now' = [now EXCEPT ![c] = 0]
        /\ UNCHANGED <<clock, who, token>>
    BY <1>3 DEF Store
  <2>2. NoToken \in Token /\ 0 \in Time
    BY DEF NoToken, Token, Time
  <2>3. kept \in [Principal -> Token]
    BY <2>2 DEF IInv, TypeOK
  <2>4. cache' \in [Principal -> Token]
    <3> HIDE DEF kept
    <3> QED
      BY <2>1, <2>3 DEF IInv, TypeOK
  <2>5. pc'[c] = "verify" /\ UNCHANGED <<azVars, presented, ac>>
    BY <2>1 DEF IInv, TypeOK, Held
  <2>6. TypeOK'
    BY <2>1, <2>2, <2>4, <2>5 DEF IInv, TypeOK, PCs, azVars
  <2>7. TokenInv(c)' /\ AskedInv(c)'
    BY <2>1, <2>5 DEF IInv, CallInv, TokenInv, AskedInv, Quiet, Exchanging, Resolved, azVars
  <2>8. token' = [token EXCEPT ![c] = token'[c]]
    BY <2>1 DEF IInv, TypeOK
  <2> QED
    BY <2>1, <2>5, <2>6, <2>7, <2>8 DEF PCs
<1>4. ASSUME NEW from, NEW to \in {"ready", "running"}, pc[c] = from, Goto(c, to),
             UNCHANGED <<clock, cache>>,
             \/ from = "verify" /\ to = "ready" /\ SameSubject(c)
             \/ from = "planned" /\ to = "running" /\ Usable(c, CarriesToken(config))
      PROVE  Moved
  <2>1. /\ pc' = [pc EXCEPT ![c] = to] /\ UNCHANGED <<who, now, token>> /\ pc'[c] = to
    BY <1>4 DEF Goto, IInv, TypeOK
  <2>2. UNCHANGED <<azVars, presented, ac>>
    BY <2>1 DEF Held
  <2>3. TypeOK'
    BY <1>4, <2>1, <2>2 DEF IInv, TypeOK, PCs, azVars
  <2>4. TokenInv(c)'
    <3>1. CASE from = "verify" /\ to = "ready" /\ SameSubject(c)
      BY <1>4, <2>1, <3>1 DEF IInv, CallInv, TokenInv, SameSubject, Exchanging, Resolved
    <3>2. CASE from = "planned" /\ to = "running" /\ Usable(c, CarriesToken(config))
      <4>1. config.mode \in {"static", "passthrough", "exchange"}
        BY <1>4, <3>2 DEF IInv, CallInv, AuthInv, UpInv
      <4> QED
        BY <1>4, <2>1, <2>2, <3>2, <4>1
           DEF IInv, CallInv, TokenInv, Usable, Exchanging, Resolved
    <3> QED
      BY <1>4, <3>1, <3>2
  <2>5. AskedInv(c)'
    BY <1>4, <2>1, <2>2
       DEF IInv, CallInv, AskedInv, Asked, Quiet, Exchanging, Caller, Labels, azVars
  <2>6. token' = [token EXCEPT ![c] = token'[c]]
    BY <2>1 DEF IInv, TypeOK
  <2> QED
    BY <1>4, <2>1, <2>2, <2>3, <2>4, <2>5, <2>6 DEF PCs
<1>5. Moved => IInv'
  BY MovedOn DEF Beside
<1> HIDE DEF Moved
<1>6. CASE RequestFails(c)
  BY <1>1, <1>6 DEF RequestFails
<1>7. CASE \E t \in Issued : Issue(c, t)
  BY <1>2, <1>5, <1>7
<1>8. CASE Store(c)
  BY <1>3, <1>5, <1>8
<1>9. CASE Verify(c)
  BY <1>1, <1>4, <1>5, <1>9 DEF Verify
<1>10. CASE Execute(c, CarriesToken(config))
  BY <1>1, <1>4, <1>5, <1>10 DEF Execute
<1>11. CASE Finish(c)
  BY <1>1, <1>11 DEF Finish
<1> QED
  BY <1>6, <1>7, <1>8, <1>9, <1>10, <1>11 DEF ExchangeSteps
-----------------------------------------------------------------------------
(* The providers *)

\* Only a call that asked is told, and only what is a verdict (Registry.Authorize).
LEMMA ToldMeans ==
    ASSUME IInv, NEW c \in Call, Respond(c, TypeOf(config.providers, config.ref))
    PROVE  \E v \in {"allowed", "denied", "unavailable"} :
              /\ Verdict(c, v)
              /\ v = "allowed" => \E d \in Call : asked[d] = asked[c] /\ decided[d] = "allow"
              /\ v = "denied" => \E d \in Call :
                    asked[d] = asked[c] /\ decided[d] \in {"deny", "conditional"}
<1>1. \A d \in Call : decided[d] # "none" => decided[d] \in Decisions
  BY DEF IInv, TypeOK
<1>2. CASE decided[c] # "none" /\ \E r \in OPAResponses(decided[c]) : Told(c, OPADecide(r))
  <2>1. PICK r \in OPAResponses(decided[c]) : Told(c, OPADecide(r))
    BY <1>2
  <2>2. \/ OPADecide(r) = "error"
        \/ OPADecide(r) = "allow" /\ decided[c] = "allow"
        \/ OPADecide(r) = "deny" /\ decided[c] = "deny"
    BY <1>1, <1>2, OPARead
  <2>3. CASE OPADecide(r) = "error"
    <3>1. Verdict(c, "unavailable")
      BY <2>1, <2>3 DEF Told
    <3> QED
      BY <3>1
  <2>4. CASE OPADecide(r) = "allow" /\ decided[c] = "allow"
    <3>1. Verdict(c, "allowed")
      BY <2>1, <2>4 DEF Told
    <3> QED
      BY <2>4, <3>1
  <2>5. CASE OPADecide(r) = "deny" /\ decided[c] = "deny"
    <3>1. Verdict(c, "denied")
      BY <2>1, <2>5 DEF Told
    <3> QED
      BY <2>5, <3>1
  <2> QED
    BY <2>2, <2>3, <2>4, <2>5
<1>3. CASE \E d \in Call :
             /\ decided[d] # "none"
             /\ \E r \in RangerResponses(asked[d], decided[d]) :
                   Told(c, RangerDecide(asked[c], r))
  <2>1. PICK d \in Call :
             /\ decided[d] # "none"
             /\ \E r \in RangerResponses(asked[d], decided[d]) :
                   Told(c, RangerDecide(asked[c], r))
    BY <1>3
  <2>2. PICK r \in RangerResponses(asked[d], decided[d]) : Told(c, RangerDecide(asked[c], r))
    BY <2>1
  <2>3. \/ RangerDecide(asked[c], r) = "error"
        \/ RangerDecide(asked[c], r) = "allow" /\ decided[d] = "allow" /\ asked[d] = asked[c]
        \/ RangerDecide(asked[c], r) = "deny" /\ decided[d] # "allow" /\ asked[d] = asked[c]
    BY <1>1, <2>1, RangerRead
  <2>4. CASE RangerDecide(asked[c], r) = "error"
    <3>1. Verdict(c, "unavailable")
      BY <2>2, <2>4 DEF Told
    <3> QED
      BY <3>1
  <2>5. CASE RangerDecide(asked[c], r) = "allow" /\ decided[d] = "allow" /\ asked[d] = asked[c]
    <3>1. Verdict(c, "allowed")
      BY <2>2, <2>5 DEF Told
    <3> QED
      BY <2>5, <3>1
  <2>6. CASE RangerDecide(asked[c], r) = "deny" /\ decided[d] # "allow" /\ asked[d] = asked[c]
    <3>1. Verdict(c, "denied")
      BY <2>2, <2>6 DEF Told
    <3>2. decided[d] \in {"deny", "conditional"}
      BY <1>1, <2>1, <2>6 DEF Decisions
    <3> QED
      BY <2>6, <3>1, <3>2
  <2> QED
    BY <2>3, <2>4, <2>5, <2>6
<1> QED
  BY <1>2, <1>3 DEF Respond

\* A provider's step concerns a call that asked, and changes what was decided
\* on it or what it is told.
LEMMA ProviderMeans ==
    ASSUME IInv, NEW c \in Call, ProviderSteps(c)
    PROVE  /\ Waiting(c)
           /\ \/ \E d \in Decisions : decided' = [decided EXCEPT ![c] = d]
                    /\ UNCHANGED <<asked, verdict>>
              \/ \E v \in Verdicts : Verdict(c, v)
<1>1. CASE Evaluate(c)
  BY <1>1 DEF Evaluate
<1>2. CASE Respond(c, TypeOf(config.providers, config.ref))
  BY <1>2, ToldMeans DEF Respond, Verdicts
<1>3. CASE NoResponse(c) \/ Cancel(c)
  BY <1>3 DEF NoResponse, Cancel, Verdicts
<1> QED
  BY <1>1, <1>2, <1>3 DEF ProviderSteps

\* What a provider does keeps the invariant.
LEMMA ProviderInv ==
    ASSUME IInv, NEW c \in Call, ProviderSteps(c),
           UNCHANGED <<exVars, config, server, presented, ac>>
    PROVE  IInv'
<1>1. pc[c] = "asking"
  BY ProviderMeans DEF IInv, TypeOK, PCs, CallInv, AskedInv, Quiet, Waiting, Exchanging
<1>2. UNCHANGED asked
  BY ProviderMeans DEF Verdict
<1>3. TypeOK' /\ \A d \in Call \ {c} : Same(d)
  <2>1. CASE \E d \in Decisions : decided' = [decided EXCEPT ![c] = d]
                /\ UNCHANGED <<asked, verdict>>
    BY <2>1 DEF IInv, TypeOK, Same, exVars
  <2>2. CASE \E v \in Verdicts : Verdict(c, v)
    BY <2>2 DEF IInv, TypeOK, Same, exVars, Verdict
  <2> QED
    BY <2>1, <2>2, ProviderMeans
<1>4. AuthInv(c)' /\ TokenInv(c)' /\ AskedInv(c)'
  BY <1>1, <1>2 DEF IInv, CallInv, AuthInv, TokenInv, AskedInv, Asked, Caller, Labels, EngineUser,
                    Exchanging, Resolved, exVars
<1> QED
  BY <1>3, <1>4, OneCall DEF CallInv, exVars
-----------------------------------------------------------------------------
(* Every step *)

\* Every step keeps the invariant.
LEMMA StepInv == IInv /\ [Next]_vars => IInv'
<1> SUFFICES ASSUME IInv, [Next]_vars PROVE IInv'
  OBVIOUS
<1>1. CASE StartUp
  BY <1>1, StartUpInv
<1>2. ASSUME NEW c \in Call, NEW r \in Requests, Arrive(c, r) PROVE IInv'
  BY <1>2, ArriveInv
<1>3. ASSUME NEW c \in Call, NotFound(c) \/ Answered(c) PROVE IInv'
  <2>1. Return(c) /\ Drop(c) /\ UNCHANGED <<clock, cache, config, server>>
    BY <1>3 DEF NotFound, Answered
  <2> QED
    BY <1>3, <2>1, ReturnInv DEF IInv, TypeOK
<1>4. ASSUME NEW c \in Call, Resolve(c) \/ Plan(c) \/ Proceed(c) PROVE IInv'
  BY <1>4, ResolveInv, PlanInv, ProceedInv
<1>5. ASSUME NEW c \in Call, ExchangeSteps(c), Held(c), UNCHANGED <<config, server>> PROVE IInv'
  BY <1>5, ExchangeInv
<1>6. ASSUME NEW c \in Call, ProviderSteps(c),
             UNCHANGED <<exVars, config, server, presented, ac>>
      PROVE  IInv'
  BY <1>6, ProviderInv
<1>7. CASE Tick /\ UNCHANGED <<azVars, config, server, presented, ac>>
  <2>1. clock' \in Time /\ UNCHANGED <<cache, pc, who, now, token>>
    BY <1>7 DEF Tick, IInv, TypeOK, Time
  <2>2. TypeOK'
    BY <1>7, <2>1 DEF IInv, TypeOK, azVars
  <2>3. UpInv' /\ \A d \in Call : Same(d)
    BY <1>7, <2>1 DEF IInv, UpInv, RequireEngineIdentity, Same, azVars
  <2> QED
    BY <1>7, <2>2, <2>3, Frame DEF IInv
<1>8. CASE UNCHANGED vars
  <2>1. TypeOK'
    BY <1>8 DEF IInv, TypeOK, vars, exVars, azVars
  <2>2. UpInv' /\ \A d \in Call : Same(d)
    BY <1>8 DEF IInv, UpInv, RequireEngineIdentity, Same, vars, exVars, azVars
  <2> QED
    BY <1>8, <2>1, <2>2, Frame DEF IInv, vars
<1> QED
  BY <1>1, <1>2, <1>3, <1>4, <1>5, <1>6, <1>7, <1>8 DEF Next

\* The inductive invariant holds in every reachable state.
THEOREM Inductive == Spec => []IInv
BY InitIInv, StepInv, PTL DEF Spec

\* Every variable keeps its type, whatever a caller presents and whatever the
\* authorization server issues.
THEOREM TypeCorrect == Spec => []TypeOK
<1>1. IInv => TypeOK
  BY DEF IInv
<1> QED
  BY <1>1, Inductive, PTL

\* A query of a server that passes identity on runs as the engine user of its
\* own request's token (ExchangeResolver, requireEngineIdentity).
THEOREM CallersRunAsThemselves == Spec => []RunsAsCaller
<1>1. IInv => RunsAsCaller
  <2> SUFFICES ASSUME IInv, NEW c \in Call, pc[c] = "running", config.mode # "static"
               PROVE  SessionUser(c) \in {StringClaim(presented[c].bearer.euser)} \cap Principal
    BY DEF RunsAsCaller
  <2>1. /\ server = "up" /\ presented[c] \in Requests
        /\ who[c] = EngineUser(presented[c]) /\ who[c] # Nobody
    BY DEF IInv, CallInv, AuthInv, TokenInv
  <2>2. config.auth = "jwt" /\ config.userClaim /\ config.perRequest
        /\ config.mode \in {"passthrough", "exchange"}
    BY <2>1 DEF IInv, UpInv, RequireEngineIdentity
  <2>3. who[c] = StringClaim(presented[c].bearer.euser)
    BY <2>1, <2>2 DEF EngineUser
  <2>4. who[c] \in Principal
    BY <2>1 DEF IInv, TypeOK
  <2>5. token[c] # NoToken /\ token[c].owner = who[c]
    BY <2>2, <2>3 DEF IInv, CallInv, TokenInv, Resolved
  <2> QED
    BY <2>2, <2>3, <2>4, <2>5 DEF SessionUser
<1> QED
  BY <1>1, Inductive, PTL

\* A query on a model with an external provider runs only after that provider
\* was asked about this caller, with its own labels, and allowed it
\* (Service.Plan, Registry.Authorize).
THEOREM OnlyAuthorizedRuns == Spec => []RunsAsAuthorized
<1>1. IInv => RunsAsAuthorized
  BY DEF IInv, CallInv, AskedInv, Asked, RunsAsAuthorized
<1> QED
  BY <1>1, Inductive, PTL
-----------------------------------------------------------------------------
(* The providers implement Authorizer *)

\* A call that forgets what it asked was told something, or had not asked.
LEMMA DropRefines ==
    ASSUME IInv, NEW c \in Call, Drop(c), pc[c] = "asking" => verdict[c] # "none"
    PROVE  Promise!Next \/ UNCHANGED azVars
<1>1. CASE verdict[c] # "none"
  BY <1>1 DEF Drop, Forget, Promise!Forget, Promise!Next
<1>2. CASE verdict[c] = "none"
  <2>1. Quiet(c)
    BY <1>2 DEF IInv, TypeOK, PCs, CallInv, AskedInv, Exchanging
  <2> QED
    BY <2>1 DEF Drop, Forget, Quiet, IInv, TypeOK, azVars
<1> QED
  BY <1>1, <1>2

\* What is asked is a question (Authorize, NewQueryInput).
LEMMA PlanRefines ==
    ASSUME IInv, NEW c \in Call, Plan(c)
    PROVE  Promise!Next \/ UNCHANGED azVars
<1>1. CASE UNCHANGED azVars
  BY <1>1
<1>2. CASE Authorize(c, TypeOf(config.providers, config.ref), ac[c].id, clock)
  <2> DEFINE input == NewQueryInput(ac[c].id, clock)
  <2>1. ac[c].id \in Identity /\ clock \in Time /\ pc[c] = "ready"
    BY DEF IInv, TypeOK, Authenticated, Plan
  <2>2. input \in Input
    BY <2>1, QuestionType
  <2>3. asked[c] = NoInput
    BY <2>1 DEF IInv, CallInv, AskedInv, Quiet
  <2> HIDE DEF input
  <2>4. /\ asked' = [asked EXCEPT ![c] = input] /\ UNCHANGED decided
        /\ \E v \in {"none", "unavailable"} : verdict' = [verdict EXCEPT ![c] = v]
    BY <1>2 DEF Authorize, input
  <2> QED
    BY <2>2, <2>3, <2>4 DEF Promise!Ask, Promise!Next
<1> QED
  BY <1>1, <1>2 DEF Plan

\* A provider decides and answers as Authorizer allows.
LEMMA ProviderRefines ==
    ASSUME IInv, NEW c \in Call, ProviderSteps(c)
    PROVE  Promise!Next
<1>1. Waiting(c)
  BY ProviderMeans
<1>2. CASE Evaluate(c)
  BY <1>2 DEF Evaluate, Waiting, Decisions, Promise!Decide, Promise!Next
<1>3. CASE Respond(c, TypeOf(config.providers, config.ref))
  <2>1. PICK v \in {"allowed", "denied", "unavailable"} :
          /\ Verdict(c, v)
          /\ v = "allowed" => \E d \in Call : asked[d] = asked[c] /\ decided[d] = "allow"
          /\ v = "denied" => \E d \in Call :
                asked[d] = asked[c] /\ decided[d] \in {"deny", "conditional"}
    BY <1>3, ToldMeans
  <2>2. v = "allowed" => "allow" \in Promise!DecidedOn(asked[c])
    BY <2>1 DEF Promise!DecidedOn
  <2>3. v = "denied" => Promise!DecidedOn(asked[c]) \cap {"deny", "conditional"} # {}
    <3>1. ASSUME NEW d \in Call, asked[d] = asked[c], decided[d] \in {"deny", "conditional"}
          PROVE  decided[d] \in Promise!DecidedOn(asked[c]) \cap {"deny", "conditional"}
      BY <3>1 DEF Promise!DecidedOn
    <3> QED
      BY <2>1, <3>1
  <2>4. Promise!Answer(c)
    BY <1>1, <2>1, <2>2, <2>3 DEF Waiting, Verdict, Promise!Answer
  <2> QED
    BY <2>4 DEF Promise!Next
<1>4. CASE NoResponse(c) \/ Cancel(c)
  <2>1. Promise!Answer(c)
    BY <1>4 DEF NoResponse, Cancel, Waiting, Verdict, Promise!Answer
  <2> QED
    BY <2>1 DEF Promise!Next
<1> QED
  BY <1>2, <1>3, <1>4 DEF ProviderSteps

\* A step of the exchange ends the call, forgetting what it asked, or leaves
\* that alone.
LEMMA HeldRefines ==
    ASSUME IInv, NEW c \in Call, Held(c), pc[c] = "asking" => verdict[c] # "none"
    PROVE  Promise!Next \/ UNCHANGED azVars
BY DropRefines DEF Held

\* The OPA client and the Ranger provider keep what the Authorizer interface
\* promises, however an answer is damaged or mixed up on the way.
THEOREM ProvidersKeepPromise == Spec => Implements
<1>1. Init => Promise!Init
  BY DEF Init, ProvidersInit, Promise!Init
<1>2. IInv /\ [Next]_vars => [Promise!Next]_(Promise!vars)
  <2> SUFFICES ASSUME IInv, [Next]_vars PROVE Promise!Next \/ UNCHANGED azVars
    BY DEF azVars, Promise!vars
  <2>1. CASE StartUp \/ (\E c \in Call, r \in Requests : Arrive(c, r))
    BY <2>1 DEF StartUp, Arrive, azVars
  <2>2. ASSUME NEW c \in Call, NotFound(c) \/ Answered(c)
        PROVE  Promise!Next \/ UNCHANGED azVars
    BY <2>2, DropRefines DEF NotFound, Answered
  <2>3. ASSUME NEW c \in Call, Resolve(c) PROVE UNCHANGED azVars
    BY <2>3 DEF Resolve
  <2>4. ASSUME NEW c \in Call, Plan(c) PROVE Promise!Next \/ UNCHANGED azVars
    BY <2>4, PlanRefines
  <2>5. ASSUME NEW c \in Call, Proceed(c) PROVE Promise!Next \/ UNCHANGED azVars
    BY <2>5, HeldRefines DEF Proceed
  <2>6. ASSUME NEW c \in Call, ExchangeSteps(c), Held(c)
        PROVE  Promise!Next \/ UNCHANGED azVars
    <3>1. pc[c] # "asking"
      BY <2>6 DEF ExchangeSteps, RequestFails, Issue, Store, Verify, Execute, Finish
    <3> QED
      BY <2>6, <3>1, HeldRefines
  <2>7. ASSUME NEW c \in Call, ProviderSteps(c) PROVE Promise!Next
    BY <2>7, ProviderRefines
  <2>8. CASE Tick /\ UNCHANGED <<azVars, config, server, presented, ac>>
    BY <2>8
  <2>9. CASE UNCHANGED vars
    BY <2>9 DEF vars
  <2> QED
    BY <2>1, <2>2, <2>3, <2>4, <2>5, <2>6, <2>7, <2>8, <2>9 DEF Next
<1> QED
  BY <1>1, <1>2, Inductive, PTL DEF Spec, Implements, Promise!Spec
=============================================================================
