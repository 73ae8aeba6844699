---------------------------- MODULE MCQueryPath -----------------------------
(* TLC instances of QueryPath: constants with structure                      *)
EXTENDS QueryPath, TLC

CONSTANTS revenue, payroll, v1, opa, small, ana, bob, alice

\* v1 asks an external provider, v2 does not
MCProviderOf == [v \in Version |-> IF v = v1 THEN opa ELSE NoProvider]
\* revenue is permitted to everyone, other metrics to nobody
MCPermits == {<<v, i, revenue>> : v \in Version, i \in Identity}
\* the large warehouse has more rows than the probe of the default limit (2), is
\* too large to cache at limit 3 and too large to serve at limit 4
MCRowsIn == [d \in Data |-> IF d = small THEN 1 ELSE 4]
MCRowBytes == [d \in Data |-> IF d = small THEN 1 ELSE 2]

MCLimits == {-1, 0, 2, 3, 4, 5}

\* One request of each kind: of either caller, with each kind of credential, with
\* no limit, with the limit of the probe, and with limits too high for the cache,
\* for a response, and for the server.
Base == [id |-> ana, body |-> revenue, limit |-> 0, cred |-> Static, execute |-> TRUE]
Alices(named) == [owner |-> alice, named |-> named]
MCAsks ==
    {Base, [Base EXCEPT !.id = bob],
     [Base EXCEPT !.id = bob, !.execute = FALSE], [Base EXCEPT !.body = payroll],
     [Base EXCEPT !.cred = Alices(TRUE)], [Base EXCEPT !.cred = Alices(FALSE)]}
    \cup {[Base EXCEPT !.limit = l] : l \in {-1, 2, 3, 4, 5}}
ReqSymmetry == Permutations(Req)
=============================================================================
