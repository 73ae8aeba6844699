----------------------------- MODULE MCPlanner ------------------------------
(* TLC instances of Planner                                                  *)
EXTENDS Planner

MCOrder == <<"sales", "store", "item">>

\* every acyclic graph of up to two relationships, and two kinds of diamonds
Edge(a, b) == [from |-> a, to |-> b]
Diamond(a, b, c) ==
    {<<e, f, g>> \in {Edge(a, b), Edge(b, c), Edge(a, c)}
                    \X {Edge(a, b), Edge(b, c), Edge(a, c)}
                    \X {Edge(a, b), Edge(b, c), Edge(a, c)} : {e, f, g} = {Edge(a, b), Edge(b, c), Edge(a, c)}}
MCGraphs == {rs \in BoundedSeq(Relationship, 2) : Acyclic(rs)}
            \cup Diamond("sales", "store", "item") \cup Diamond("item", "store", "sales")

Of(d) == [ds |-> {d}, agg |-> "plain"]
DistinctOf(d) == [ds |-> {d}, agg |-> "distinct"]
CountDistinctOf(d) == [ds |-> {d}, agg |-> "count distinct"]
Plain(t) == [num |-> t, den |-> NoTerm]
Ratio(t, u) == [num |-> t, den |-> u]
Star == [ds |-> {}, agg |-> "plain"]     \* COUNT( * )
Both == [ds |-> {"sales", "store"}, agg |-> "plain"]

\* plain metrics, ratios within a dataset and across datasets, with a distinct
\* count, with sides that cannot be deduplicated
MCMetric == {Plain(Of("sales")), Plain(Star),
             Ratio(Of("store"), Of("store")), Ratio(Of("sales"), Of("store")),
             Ratio(DistinctOf("item"), CountDistinctOf("sales")), Ratio(Both, Of("store"))}

MCAsks == {{}, {"store"}, {"item"}}
MCFilters == {{}, {"store"}}
=============================================================================
