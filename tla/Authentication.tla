--------------------------- MODULE Authentication ----------------------------
(***************************************************************************)
(* auth.Authenticator: who the caller of a request is.  Header mode trusts *)
(* two headers; JWT mode validates a bearer token and reads the caller     *)
(* from its claims.  A claim is what the JSON decoder makes of it: absent, *)
(* a string, a list, or anything else.                                     *)
(***************************************************************************)
EXTENDS Identities, Sequences

NotString == "not a string"     \* a list element of another type

Absent == [shape |-> "absent", vals |-> <<>>]
Text(v) == [shape |-> "string", vals |-> <<v>>]
List(vs) == [shape |-> "list", vals |-> vs]

\* stringClaim.  The empty string is Nobody; names of blanks are left out.
StringClaim(claim) ==
    IF \/ claim.shape = "string"
       \/ claim.shape = "list" /\ Len(claim.vals) = 1 /\ claim.vals[1] # NotString
    THEN claim.vals[1]
    ELSE Nobody

\* listClaim: empty strings and values of other types are left out.
ListClaim(claim) ==
    IF claim.shape \in {"string", "list"}
    THEN {claim.vals[i] : i \in DOMAIN claim.vals} \ {Nobody, NotString}
    ELSE {}

\* What the decoder can make of a claim whose names are in names.
Claim(names) ==
    {claim \in [shape : {"absent", "string", "list", "other"},
                vals : Seq(names \cup {Nobody, NotString})] :
       claim.shape = "string" => Len(claim.vals) = 1 /\ claim.vals[1] # NotString}

\* What the server reads of a request.
BearerToken ==
    [method : {"asymmetric", "hmac"}, signed : BOOLEAN, exp : Time \cup {Unknown},
     iss : BOOLEAN, aud : BOOLEAN, sub : Claim(Principal), euser : Claim(Principal),
     roles : Claim(Role), groups : Claim(Role)]
Request ==
    [user : Principal \cup {Nobody}, roles : SUBSET (Role \cup {Nobody}),
     bearer : BearerToken]

\* probeJWKS: the endpoint answers, and with keys.
ProbeJWKS(cfg) == cfg.jwks

\* What New refuses in JWT mode.
Authenticates(cfg) ==
    \/ cfg.auth = "header"
    \/ cfg.auth = "jwt" /\ ProbeJWKS(cfg) /\ cfg.issuer /\ cfg.audience

\* parser.ParseWithClaims under the options of New.
Parses(bearer, now) ==
    /\ bearer.method = "asymmetric"
    /\ bearer.signed
    /\ bearer.exp # Unknown /\ now < bearer.exp
    /\ bearer.iss /\ bearer.aud

\* What Authenticate returns, and what when it fails.
Authenticated == [ok : BOOLEAN, id : Identity, user : Principal \cup {Nobody},
                  exp : Time \cup {Unknown}]
Unauthenticated == [ok |-> FALSE, id |-> NoIdentity, user |-> Nobody, exp |-> Unknown]

HeaderIdentity(r) ==
    [principal |-> r.user, groups |-> {}, roles |-> r.roles \ {Nobody}]

\* Authenticate.  In JWT mode the headers of the request are not looked at.
HeadersWin(cfg, r, now) ==
    IF Parses(r.bearer, now) \/ (cfg.auth = "header" /\ r.user # Nobody)
    THEN [ok |-> TRUE, user |-> StringClaim(r.bearer.euser), exp |-> r.bearer.exp,
          id |-> IF r.user # Nobody THEN HeaderIdentity(r)
                 ELSE [principal |-> StringClaim(r.bearer.sub), groups |-> {}, roles |-> {}]]
    ELSE Unauthenticated

Authenticate(cfg, r, now) ==
    LET b == r.bearer
        byToken == [principal |-> StringClaim(b.sub), groups |-> ListClaim(b.groups),
                    roles |-> ListClaim(b.roles)]
        user == IF cfg.userClaim THEN StringClaim(b.euser) ELSE Nobody
    IN  CASE cfg.auth = "header" /\ r.user # Nobody ->
               [ok |-> TRUE, id |-> HeaderIdentity(r), user |-> Nobody, exp |-> Unknown]
          [] /\ cfg.auth = "jwt"
             /\ Parses(b, now)
             /\ byToken.principal # Nobody
             /\ byToken.groups \cup byToken.roles # {} ->
               [ok |-> TRUE, id |-> byToken, user |-> user, exp |-> b.exp]
          [] OTHER -> Unauthenticated
=============================================================================
