----------------------------- MODULE CallerPath ------------------------------
(***************************************************************************)
(* The caller's way through the server: the server starts up under some    *)
(* configuration or refuses it; a request is authenticated, its engine     *)
(* credential resolved, the query authorized by an external provider, and  *)
(* executed.  Composes Authentication, Exchanger and Providers in the      *)
(* order of rest.handleQuery, the query_metric tool and Service.Query.     *)
(***************************************************************************)
EXTENDS Authentication, Exchanger, Providers

CONSTANTS
    Configs,    \* configurations the server may be started with
    Requests    \* what callers send: headers and a bearer token

ASSUME CallerAssumption == Requests \subseteq Request

VARIABLES
    config,     \* the configuration of this server
    server,     \* "starting", "up" or "refused"
    presented,  \* the request of each call
    ac          \* auth.Authenticated: the result of Authenticate

vars == <<exVars, azVars, config, server, presented, ac>>

NoRequest == [user |-> Nobody]

Init ==
    /\ ExchangerInit /\ ProvidersInit
    /\ config \in Configs /\ server = "starting"
    /\ presented = [c \in Call |-> NoRequest]
    /\ ac = [c \in Call |-> Unauthenticated]

\* An engine whose client ignores the credential runs everything as the server.
RequireNothing(cfg) == TRUE
RequireEngineIdentity(cfg) == cfg.auth = "jwt" /\ cfg.userClaim /\ cfg.perRequest

\* The order of run: an engine of a known dialect with a host, whose client
\* opens; then providers, authentication, engine identity.
StartUp ==
    /\ server = "starting"
    /\ LET fits == /\ config.engine
                   /\ Builds(config.providers)
                   /\ Authenticates(config)
                   /\ \/ config.mode = "static"
                      \/ config.mode = "passthrough" /\ RequireEngineIdentity(config)
                      \/ /\ config.mode = "exchange" /\ RequireEngineIdentity(config)
                         /\ config.tokenURL
       IN  server' = IF fits THEN "up" ELSE "refused"
    /\ UNCHANGED <<exVars, azVars, config, presented, ac>>

-----------------------------------------------------------------------------
\* What a handler held goes when it returns.
Drop(c) ==
    /\ presented' = [presented EXCEPT ![c] = NoRequest]
    /\ ac' = [ac EXCEPT ![c] = Unauthenticated]
    /\ Forget(c)
Held(c) == IF pc'[c] = "idle" THEN Drop(c) ELSE UNCHANGED <<azVars, presented, ac>>

\* A request that does not authenticate is answered 401 and leaves no trace.
Arrive(c, r) ==
    LET a == Authenticate(config, r, clock)
    IN  /\ server = "up" /\ pc[c] = "idle"
        /\ a.ok
        /\ presented' = [presented EXCEPT ![c] = r]
        /\ ac' = [ac EXCEPT ![c] = a]
        /\ who' = [who EXCEPT ![c] = a.user]
        /\ pc' = [pc EXCEPT ![c] = "resolve"]
        /\ UNCHANGED <<clock, cache, now, token, azVars, config, server>>

\* The model is unknown to the caller, or the body does not decode.
NotFound(c) ==
    /\ pc[c] = "resolve" /\ Return(c) /\ Drop(c)
    /\ UNCHANGED <<clock, cache, config, server>>

\* The engine reads its user from the token it is given.
Passthrough(c) ==
    token' = [token EXCEPT ![c] = [owner |-> StringClaim(presented[c].bearer.euser),
                                   expiry |-> ac[c].exp]]

\* The CredentialResolver of the configured mode.
Resolve(c) ==
    /\ pc[c] = "resolve"
    /\ \/ config.mode = "static" /\ Goto(c, "ready") /\ UNCHANGED <<clock, cache>>
       \/ /\ config.mode = "passthrough" /\ Passthrough(c)
          /\ pc' = [pc EXCEPT ![c] = "ready"] /\ UNCHANGED <<clock, cache, who, now>>
       \/ config.mode = "exchange" /\ Start(c)
    /\ UNCHANGED <<azVars, config, server, presented, ac>>

\* Service.Plan: external authorization, if the model refers to a provider.
Plan(c) ==
    /\ pc[c] = "ready"
    /\ \/ config.ref = "none" /\ Goto(c, "planned") /\ UNCHANGED azVars
       \/ /\ config.ref # "none" /\ Goto(c, "asking")
          /\ Authorize(c, TypeOf(config.providers, config.ref), ac[c].id, clock)
    /\ UNCHANGED <<clock, cache, config, server, presented, ac>>

Proceed(c) ==
    /\ pc[c] = "asking"
    /\ \/ verdict[c] = "allowed" /\ Goto(c, "planned")
       \/ verdict[c] \in {"denied", "unavailable", "canceled"} /\ Return(c)
    /\ Held(c) /\ UNCHANGED <<clock, cache, config, server>>

\* The end of handleQuery and of the query_metric tool without the engine: a
\* dry run, a request the planner refuses, or an answer from the cache.
Answered(c) ==
    /\ pc[c] = "planned" /\ Return(c) /\ Drop(c)
    /\ UNCHANGED <<clock, cache, config, server>>

-----------------------------------------------------------------------------
\* Only the StarRocks client refuses to send a token without TLS.
CarriesToken(cfg) == cfg.dialect = "starrocks" => cfg.tls

ExchangeSteps(c) ==
    \/ RequestFails(c) \/ (\E t \in Issued : Issue(c, t)) \/ Store(c) \/ Verify(c)
    \/ Execute(c, CarriesToken(config)) \/ Finish(c)

ProviderSteps(c) ==
    \/ Evaluate(c) \/ Respond(c, TypeOf(config.providers, config.ref))
    \/ NoResponse(c) \/ Cancel(c)

Next ==
    \/ StartUp
    \/ \E c \in Call :
         \/ (\E r \in Requests : Arrive(c, r))
         \/ NotFound(c) \/ Resolve(c) \/ Plan(c) \/ Proceed(c) \/ Answered(c)
         \/ ExchangeSteps(c) /\ Held(c) /\ UNCHANGED <<config, server>>
         \/ ProviderSteps(c) /\ UNCHANGED <<exVars, config, server, presented, ac>>
    \/ Tick /\ UNCHANGED <<azVars, config, server, presented, ac>>

Spec == Init /\ [][Next]_vars

-----------------------------------------------------------------------------
PCs == {"idle", "resolve", "request", "store", "verify", "ready", "asking",
        "planned", "running"}

(* Every variable keeps its type, and nothing is cached under an empty key. *)
TypeOK ==
    /\ clock \in Time /\ cache \in [Principal -> Token]
    /\ pc \in [Call -> PCs] /\ who \in [Call -> Principal \cup {Nobody}]
    /\ now \in [Call -> Time] /\ token \in [Call -> Token]
    /\ config \in Configs /\ server \in {"starting", "up", "refused"}
    /\ presented \in [Call -> Requests \cup {NoRequest}]
    /\ ac \in [Call -> Authenticated]
    /\ asked \in [Call -> Input]
    /\ decided \in [Call -> Decisions \cup {"none"}]
    /\ verdict \in [Call -> Verdicts \cup {"none"}]
    /\ \A c \in Call : pc[c] = "store" => who[c] \in Principal

\* The user the engine runs a query as.
SessionUser(c) ==
    IF config.perRequest /\ token[c] # NoToken THEN token[c].owner ELSE "server"

(* Whatever configuration the server came up with, whatever the             *)
(* authorization server issued and the cache kept, a query of a server that *)
(* passes identity on runs as the engine user of its own request's token    *)
(* (ExchangeResolver fails closed on a mismatch, on cache hits too;         *)
(* requireEngineIdentity: no silent downgrade to the server's identity).    *)
RunsAsCaller == \A c \in Call :
    pc[c] = "running" /\ config.mode # "static" =>
        SessionUser(c) \in {StringClaim(presented[c].bearer.euser)} \cap Principal

\* The caller the request names, by the means the server trusts, and the
\* labels it has there, or else the model's default role.
Caller(r) == IF config.auth = "jwt" THEN StringClaim(r.bearer.sub) ELSE r.user
Labels(r) ==
    LET own == IF config.auth = "jwt"
               THEN ListClaim(r.bearer.groups) \cup ListClaim(r.bearer.roles)
               ELSE r.roles \ {Nobody}
    IN  IF own = {} THEN {DefaultRole} \ {Nobody} ELSE own

(* A query on a model with an external provider runs only after that        *)
(* provider was asked, in this request, about the caller the request itself *)
(* authenticates as, with that caller's labels and no others, and its       *)
(* answer was an allow (Authenticate ignores the identity headers in JWT    *)
(* mode; Plan authorizes before anything else).                             *)
RunsAsAuthorized == \A c \in Call :
    pc[c] = "running" /\ config.ref # "none" =>
        /\ verdict[c] = "allowed"
        /\ asked[c].id.principal = Caller(presented[c])
        /\ asked[c].id.groups \cup asked[c].id.roles = Labels(presented[c])

(* The OPA client and the Ranger provider keep what the Authorizer          *)
(* interface promises, whatever the policy server answers and however the   *)
(* answer is damaged or mixed up on the way.                                *)
Implements == Promise!Spec
=============================================================================
