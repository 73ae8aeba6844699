---------------------------- MODULE MCCallerPath -----------------------------
(* TLC instance of CallerPath                                               *)
EXTENDS CallerPath, TLC

CONSTANTS analyst, huge

Symmetries == Permutations(Call) \cup Permutations(Principal)

\* A token of p, and what may be wrong with it.
Bearer(p) ==
    [method |-> "asymmetric", signed |-> TRUE, exp |-> MaxTime, iss |-> TRUE, aud |-> TRUE,
     sub |-> Text(p), euser |-> Text(p), roles |-> Absent, groups |-> List(<<analyst, NotString>>)]
Bad(p) ==
    {[Bearer(p) EXCEPT !.method = "hmac"], [Bearer(p) EXCEPT !.signed = FALSE],
     [Bearer(p) EXCEPT !.exp = Unknown], [Bearer(p) EXCEPT !.aud = FALSE],
     [Bearer(p) EXCEPT !.iss = FALSE], [Bearer(p) EXCEPT !.sub = List(<<p, p>>)],
     [Bearer(p) EXCEPT !.groups = List(<<>>)]}
NoBearer == [Bearer(Nobody) EXCEPT !.signed = FALSE]

Sent(p, b) == [user |-> p, roles |-> {}, bearer |-> b]
SomeRequests ==
    UNION {{Sent(p, NoBearer), [Sent(p, NoBearer) EXCEPT !.roles = {huge, Nobody}],
            Sent(Nobody, [Bearer(p) EXCEPT !.exp = 1, !.euser = List(<<p>>)]),
            Sent(Nobody, [Bearer(p) EXCEPT !.euser = Absent])}
           \cup {Sent(Nobody, b) : b \in Bad(p)}
           \cup {Sent(q, Bearer(p)) : q \in Principal \ {p}} : p \in Principal}

SomeTokens ==
    [owner : Principal, expiry : {2, Unknown}]
    \cup [owner : {Nobody, Unreadable}, expiry : {1}]

Provider(name, type) ==
    [name |-> name, type |-> type, wellFormed |-> TRUE, template |-> TRUE, secret |-> TRUE,
     https |-> TRUE, insecure |-> FALSE]
Opa == Provider("opa-main", "opa")
Ranger == Provider("ranger-main", "ranger")

Base ==
    [dialect |-> "starrocks", engine |-> TRUE,
     auth |-> "jwt", jwks |-> TRUE, issuer |-> TRUE, audience |-> TRUE, userClaim |-> TRUE,
     perRequest |-> TRUE, tls |-> TRUE, tokenURL |-> TRUE, mode |-> "passthrough",
     providers |-> <<Opa, Ranger>>, ref |-> "ranger-main"]
Serving ==
    {Base, [Base EXCEPT !.ref = "opa-main"], [Base EXCEPT !.ref = "none", !.tls = FALSE],
     [Base EXCEPT !.dialect = "trino", !.ref = "none", !.tls = FALSE],
     [Base EXCEPT !.ref = "none", !.mode = "exchange"],
     [Base EXCEPT !.auth = "header", !.mode = "static", !.perRequest = FALSE],
     [Base EXCEPT !.auth = "header", !.mode = "static", !.ref = "gone"]}
Refused ==
    {[Base EXCEPT !.engine = FALSE], [Base EXCEPT !.jwks = FALSE],
     [Base EXCEPT !.auth = "header"],
     [Base EXCEPT !.userClaim = FALSE], [Base EXCEPT !.perRequest = FALSE],
     [Base EXCEPT !.mode = "exchange", !.tokenURL = FALSE],
     [Base EXCEPT !.providers = <<Opa, [Ranger EXCEPT !.name = "opa-main"]>>],
     [Base EXCEPT !.providers = <<[Opa EXCEPT !.https = FALSE]>>],
     [Base EXCEPT !.providers = <<[Ranger EXCEPT !.https = FALSE]>>],
     [Base EXCEPT !.providers = <<[Ranger EXCEPT !.template = FALSE]>>],
     [Base EXCEPT !.providers = <<[Ranger EXCEPT !.type = "cedar"]>>]}
SomeConfigs == Serving \cup Refused
=============================================================================
