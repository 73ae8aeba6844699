------------------------------ MODULE MCDriver -------------------------------
(* TLC instances of Driver                                                   *)
EXTENDS Driver

F(k, s) == [kind |-> k, size |-> s]
P(k) == F(k, "part")

\* Every shape of a reply: no rows, an error at once or in the rows, one row and
\* two, a row in two frames and one that ends in an empty frame, and further
\* result sets.
EveryReply == [deprecateEOF \in BOOLEAN |->
    LET Eof == IF deprecateEOF THEN <<>> ELSE <<P("EOF")>>
        Meta == <<P("HDR")>> \o [i \in 1 .. Columns |-> P("COL")] \o Eof
    IN  {<<P("OK")>>,
         <<P("OK+"), P("ERR")>>,
         <<P("OK+")>> \o Meta \o <<F("ROW", "full"), F("CONT", "part"), P("ROW"), P("END")>>,
         Meta \o <<F("ROW", "full"), F("CONT", "zero"), P("END+"), P("OK")>>,
         Meta \o <<P("ERR")>>}]

TwoCalls == <<{"stmtQuery", "ownQuery", "ping"}, {"exec", "tx"}>>

\* Rows closed early leave result sets unread on the connection that the
\* counted query then takes from the pool; the caller's own query dials anew.
QueryAfterQuery == <<{"stmtQuery", "query", "ownQuery"}, {"query"}>>

\* A query of the client, as the service makes it.
OneQuery == <<{"query"}>>

Capabilities == {[ssl |-> TRUE, eof |-> FALSE], [ssl |-> FALSE, eof |-> TRUE]}
=============================================================================
