------------------------------ MODULE Providers ------------------------------
(***************************************************************************)
(* External authorization: the registry of providers and its two kinds,    *)
(* the OPA client and the Ranger provider over its HTTP client.  A policy  *)
(* server decides on the request it was sent and answers; what arrives may *)
(* be late, an error page, too long, cut off, shaped unlike the contract,  *)
(* or, through a Ranger gateway that mixes answers up, another call's.     *)
(***************************************************************************)
EXTENDS Identities, FiniteSets

CONSTANTS
    DefaultRole,    \* governance.defaultRole of the model, or Nobody
    Oversized       \* names that Ranger's limits refuse

ASSUME ProvidersAssumption == DefaultRole \in Role \cup {Nobody}

VARIABLES
    asked, decided, verdict     \* as in Authorizer

azVars == <<asked, decided, verdict>>

Input == [id : Identity, at : Time]
NoInput == [id |-> NoIdentity, at |-> 0]

ProvidersInit ==
    /\ asked = [c \in Call |-> NoInput]
    /\ decided = [c \in Call |-> "none"]
    /\ verdict = [c \in Call |-> "none"]

\* NewQueryInput: a caller without groups and roles has the default role.  All
\* calls ask about one request on one model, so who and when tell them apart.
NewQueryInput(id, at) ==
    [id |-> IF id.groups \cup id.roles = {} /\ DefaultRole # Nobody
            THEN [id EXCEPT !.roles = {DefaultRole}] ELSE id,
     at |-> at]

\* The verdict tells an error of the provider from the caller's cancellation.
Decisions == {"allow", "deny", "conditional"}
Verdicts == {"allowed", "denied", "unavailable", "canceled"}

-----------------------------------------------------------------------------
(* Starting up                                                              *)

\* opa.New: a bearer token travels under https only.
OPANew(p) == p.wellFormed /\ (p.secret => p.https)

\* ranger.New: the service principal is a trusted header, so https is needed
\* unless plain http was asked for.
RangerNew(p) == p.wellFormed /\ (p.https \/ p.insecure)

\* provider.New: a resource template with a placeholder of the model.
RangerProviderNew(p) == p.template

\* buildAuthorizationRegistry, with Register: no name twice.
Builds(providers) ==
    /\ \A i \in DOMAIN providers :
         \/ providers[i].type = "opa" /\ OPANew(providers[i])
         \/ /\ providers[i].type = "ranger"
            /\ RangerNew(providers[i]) /\ RangerProviderNew(providers[i])
    /\ \A i, j \in DOMAIN providers : i # j => providers[i].name # providers[j].name

TypeOf(providers, name) ==
    LET named == {i \in DOMAIN providers : providers[i].name = name}
    IN  IF named = {} THEN "missing" ELSE providers[CHOOSE i \in named : TRUE].type

-----------------------------------------------------------------------------
(* What a response may look like.  d is what the policy server decided: a   *)
(* conditional decision allows the query under an obligation, such as a row *)
(* filter, which the server attaches.                                       *)

\* A response that went wrong on the way, around whatever it says.
Damaged(r) ==
    {r, [r EXCEPT !.status = "redirect"], [r EXCEPT !.status = "error"],
     [r EXCEPT !.big = TRUE]}
    \cup {[r EXCEPT !.json = j] : j \in {"null", "two", "broken", "extraField"}}

OPABody(result, allow, extra, revision) ==
    [status |-> "ok", big |-> FALSE, json |-> "one", result |-> result,
     allow |-> allow, extra |-> extra, revision |-> revision]

OPAResponses(d) ==
    LET bodies ==
          CASE d = "allow" -> {OPABody("true", "none", FALSE, "none"),
                               OPABody("object", "true", FALSE, "r1"),
                               OPABody("object", "true", FALSE, "long"),
                               OPABody("object", "true", FALSE, "control")}
            [] d = "deny" -> {OPABody("absent", "none", FALSE, "none"),
                              OPABody("null", "none", FALSE, "none"),
                              OPABody("false", "none", FALSE, "none"),
                              OPABody("object", "false", FALSE, "r1"),
                              OPABody("object", "none", FALSE, "r1")}
            [] d = "conditional" -> {OPABody("object", "true", TRUE, "none")}
    IN  UNION {Damaged(b) : b \in bodies}

RangerBody(input, decision, permissions, name, access, obligations) ==
    [status |-> "ok", big |-> FALSE, json |-> "one", requestId |-> input,
     decision |-> decision, permissions |-> permissions, name |-> name,
     access |-> access, obligations |-> obligations]

RangerResponses(input, d) ==
    LET B(decision, access, obligations) ==
          RangerBody(input, decision, {"query"}, "query", access, obligations)
        bodies ==
          CASE d = "allow" -> {B("ALLOW", "ALLOW", FALSE)}
            [] d = "deny" -> {B("DENY", "DENY", FALSE),
                              B("NOT_DETERMINED", "NOT_DETERMINED", FALSE),
                              B("ALLOW", "DENY", FALSE), B("none", "ALLOW", FALSE),
                              B("ALLOW", "none", FALSE),
                              RangerBody(input, "ALLOW", {"read"}, "read", "ALLOW", FALSE),
                              RangerBody(input, "ALLOW", {"query", "read"}, "query", "ALLOW", FALSE),
                              RangerBody(input, "ALLOW", {"query"}, "read", "ALLOW", FALSE)}
            [] d = "conditional" -> {B("ALLOW", "ALLOW", TRUE),
                                     B("PARTIAL", "PARTIAL", FALSE)}
    IN  UNION {Damaged(b) : b \in bodies}

-----------------------------------------------------------------------------
(* Reading it.  Each operator is "allow", "deny" or "error".                *)

ObjectDecisionLax(r) == IF r.allow = "true" THEN "allow" ELSE "deny"

\* The rest of decodeDecision, once the envelope is decoded.
ObjectDecision(r) ==
    IF r.extra \/ r.allow = "none" \/ r.revision \in {"long", "control"} THEN "error"
    ELSE IF r.allow = "true" THEN "allow" ELSE "deny"

\* decodeDecision: undefined is a denial, and so is null.
DecodeDecision(r) ==
    CASE r.json # "one" -> "error"
      [] r.json = "one" /\ r.result \in {"absent", "null", "false"} -> "deny"
      [] r.json = "one" /\ r.result = "true" -> "allow"
      [] OTHER -> ObjectDecision(r)

\* opa.Client.Decide after the call: the body is read up to its limit, then
\* the status is looked at.
OPADecide(r) ==
    IF r.big \/ r.status # "ok" THEN "error" ELSE DecodeDecision(r)

\* post and decodeStrictJSON
RangerPost(r) == ~r.big /\ r.status = "ok" /\ r.json = "one"

\* AccessDecision.Valid
ValidDecision(d) == d \in {"ALLOW", "DENY", "NOT_DETERMINED", "PARTIAL"}

ValidateAnyResult(input, r) ==
    IF /\ ValidDecision(r.decision)
       /\ r.permissions = {"query"} /\ r.name = "query"
       /\ r.access = r.decision /\ ~r.obligations
    THEN IF r.decision = "ALLOW" THEN "allow" ELSE "deny"
    ELSE "error"

\* validateResult.  The request id is a digest of the whole input.
ValidateResult(input, r) ==
    IF /\ r.requestId = input
       /\ ValidDecision(r.decision)
       /\ r.permissions = {"query"} /\ r.name = "query"
       /\ ValidDecision(r.access) /\ r.access = r.decision
       /\ ~r.obligations
    THEN IF r.decision = "ALLOW" THEN "allow" ELSE "deny"
    ELSE "error"

\* ranger.Provider.Decide after the call
RangerDecide(input, r) ==
    IF RangerPost(r) THEN ValidateResult(input, r) ELSE "error"

\* validateIdentity
FitsRanger(id) == ({id.principal} \cup id.groups \cup id.roles) \cap Oversized = {}

-----------------------------------------------------------------------------
(* Registry.Authorize                                                       *)

Verdict(c, v) == verdict' = [verdict EXCEPT ![c] = v] /\ UNCHANGED <<asked, decided>>

\* The request leaves, unless the provider is not there or will not ask.
Authorize(c, type, id, at) ==
    LET input == NewQueryInput(id, at)
    IN  /\ asked' = [asked EXCEPT ![c] = input]
        /\ verdict' = [verdict EXCEPT ![c] =
             IF type = "missing" \/ (type = "ranger" /\ ~FitsRanger(input.id))
             THEN "unavailable" ELSE "none"]
        /\ UNCHANGED decided

Waiting(c) == asked[c] # NoInput /\ verdict[c] = "none"

\* The policy server decides.
Evaluate(c) ==
    /\ Waiting(c) /\ decided[c] = "none"
    /\ \E d \in Decisions : decided' = [decided EXCEPT ![c] = d]
    /\ UNCHANGED <<asked, verdict>>

\* The call is told: an error of the provider makes it unavailable.
Told(c, read) ==
    Verdict(c, CASE read = "allow" -> "allowed"
                 [] read = "deny" -> "denied"
                 [] read = "error" -> "unavailable")

\* The answer to this call or, from a gateway that mixes them up, to another.
Respond(c, type) ==
    /\ Waiting(c)
    /\ \/ /\ type = "opa" /\ decided[c] # "none"
          /\ \E r \in OPAResponses(decided[c]) : Told(c, OPADecide(r))
       \/ /\ type = "ranger"
          /\ \E d \in Call :
               /\ decided[d] # "none"
               /\ \E r \in RangerResponses(asked[d], decided[d]) :
                    Told(c, RangerDecide(asked[c], r))

\* The provider's timeout, or a connection that fails.
NoResponse(c) == Waiting(c) /\ Verdict(c, "unavailable")

\* The caller's context is canceled; the registry passes that on as it is.
Cancel(c) == Waiting(c) /\ Verdict(c, "canceled")

Forget(c) ==
    /\ asked' = [asked EXCEPT ![c] = NoInput]
    /\ decided' = [decided EXCEPT ![c] = "none"]
    /\ verdict' = [verdict EXCEPT ![c] = "none"]

\* What the providers promise.
Promise == INSTANCE Authorizer WITH question <- asked, ruling <- decided, answer <- verdict
=============================================================================
