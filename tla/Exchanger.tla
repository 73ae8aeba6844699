----------------------------- MODULE Exchanger ------------------------------
(***************************************************************************)
(* Token exchange (RFC 8693): exchange.Exchanger with its token cache, the *)
(* same-subject check of serving.ExchangeResolver, and the engine clients' *)
(* use of the resulting credential.  Calls interleave; the clock advances  *)
(* between any two steps; the authorization server may fail, be slow,      *)
(* issue a token of another subject, or leave the expiry out.              *)
(***************************************************************************)
EXTENDS Identities

CONSTANTS
    Margin,     \* refreshMargin, in ticks
    Issued      \* tokens the authorization server may answer with

VARIABLES
    clock,
    cache,      \* [Principal -> token, or NoToken]
    pc, who,    \* what a call does next, and its caller's engine user
    now,        \* time.Now() taken when the exchange began, until it is stored
    token       \* the engine credential the call holds

exVars == <<clock, cache, pc, who, now, token>>

Unreadable == "unreadable"      \* no string under the engine user claim
Token == [owner : Principal \cup {Nobody, Unreadable}, expiry : Time \cup {Unknown}]
NoToken == [owner |-> Nobody, expiry |-> 0]     \* the zero EngineCredential

ASSUME ExchangerAssumption == Margin \in Nat /\ Issued \subseteq Token \ {NoToken}

ExchangerInit ==
    /\ clock = 0
    /\ cache = [p \in Principal |-> NoToken]
    /\ pc = [c \in Call |-> "idle"] /\ who = [c \in Call |-> Nobody]
    /\ now = [c \in Call |-> 0] /\ token = [c \in Call |-> NoToken]

Goto(c, label) == pc' = [pc EXCEPT ![c] = label] /\ UNCHANGED <<who, now, token>>

\* The handler returns and drops its credential.
Return(c) ==
    /\ pc' = [pc EXCEPT ![c] = "idle"] /\ who' = [who EXCEPT ![c] = Nobody]
    /\ now' = [now EXCEPT ![c] = 0] /\ token' = [token EXCEPT ![c] = NoToken]

\* now.Before(c.expiry.Add(-refreshMargin)); the zero time is long past
Valid(t, at) == t.expiry # Unknown /\ at + Margin < t.expiry

\* Exchange up to the request: a valid cached token, or drop the entry.
\* With no engine user there is no key and nothing is cached.
Start(c) ==
    /\ \/ /\ who[c] \in Principal /\ Valid(cache[who[c]], clock)
          /\ token' = [token EXCEPT ![c] = cache[who[c]]]
          /\ pc' = [pc EXCEPT ![c] = "verify"] /\ UNCHANGED <<cache, now>>
       \/ /\ who[c] \in Principal /\ ~Valid(cache[who[c]], clock)
          /\ now' = [now EXCEPT ![c] = clock]
          /\ cache' = [cache EXCEPT ![who[c]] = NoToken]
          /\ pc' = [pc EXCEPT ![c] = "request"] /\ UNCHANGED token
       \/ /\ who[c] = Nobody
          /\ pc' = [pc EXCEPT ![c] = "request"] /\ UNCHANGED <<cache, now, token>>
    /\ UNCHANGED <<clock, who>>

\* cfg.Exchange fails, or answers with a token the server chose.
RequestFails(c) == pc[c] = "request" /\ Return(c) /\ UNCHANGED <<clock, cache>>

\* if cacheKey != "": only a call with an engine user is cached.
AlwaysStored(c) == "store"
AfterResponse(c) == IF who[c] \in Principal THEN "store" ELSE "verify"

Issue(c, t) ==
    /\ pc[c] = "request"
    /\ t.expiry > clock
    /\ token' = [token EXCEPT ![c] = t]
    /\ pc' = [pc EXCEPT ![c] = AfterResponse(c)]
    /\ UNCHANGED <<clock, cache, who, now>>

\* Expired entries are dropped, as of the call's start, and the token is
\* cached before its subject has been looked at.
Expired(t, at) == t.expiry = Unknown \/ t.expiry <= at
Store(c) ==
    /\ pc[c] = "store"
    /\ cache' = [[p \in Principal |-> IF Expired(cache[p], now[c]) THEN NoToken ELSE cache[p]]
                   EXCEPT ![who[c]] = token[c]]
    /\ pc' = [pc EXCEPT ![c] = "verify"] /\ now' = [now EXCEPT ![c] = 0]
    /\ UNCHANGED <<clock, who, token>>

\* ExchangeResolver: same subject, or fail closed.  An empty claim equals
\* the empty engine user.
AnySubject(c) == token[c].owner # Unreadable
SameSubject(c) == token[c].owner = who[c]
Verify(c) ==
    /\ pc[c] = "verify"
    /\ \/ SameSubject(c) /\ Goto(c, "ready")
       \/ ~SameSubject(c) /\ Return(c)
    /\ UNCHANGED <<clock, cache>>

\* Client.Query: the zero credential runs on the server's own pool; any other
\* must not be expired, needs an engine user, and a connection the client
\* lets a token travel on.
Usable(c, carries) ==
    \/ token[c] = NoToken
    \/ /\ token[c].expiry = Unknown \/ clock <= token[c].expiry
       /\ who[c] # Nobody /\ carries
Execute(c, carries) ==
    /\ pc[c] = "planned"
    /\ \/ Usable(c, carries) /\ Goto(c, "running")
       \/ ~Usable(c, carries) /\ Return(c)
    /\ UNCHANGED <<clock, cache>>

Finish(c) == pc[c] = "running" /\ Return(c) /\ UNCHANGED <<clock, cache>>

Tick == clock < MaxTime /\ clock' = clock + 1 /\ UNCHANGED <<cache, pc, who, now, token>>
=============================================================================
