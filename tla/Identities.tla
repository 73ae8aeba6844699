----------------------------- MODULE Identities ------------------------------
(* Who may call, what a caller is, and the clock.                            *)
EXTENDS Naturals

CONSTANTS
    Call,       \* requests in progress
    Principal,  \* names of callers, and of users of the engine
    Nobody,     \* no name: an absent, blank or unreadable claim
    Role,       \* application roles
    MaxTime     \* bound on the clock

ASSUME IdentitiesAssumption ==
    /\ Nobody \notin Principal \cup Role
    /\ MaxTime \in Nat

Time == 0 .. MaxTime
Unknown == MaxTime + 1      \* the zero time.Time

\* governance.Identity.  Groups and roles are sets: their order and their
\* repetitions are removed where they are read, in dedupe.
Identity == [principal : Principal \cup {Nobody}, groups : SUBSET Role, roles : SUBSET Role]
NoIdentity == [principal |-> Nobody, groups |-> {}, roles |-> {}]
=============================================================================
