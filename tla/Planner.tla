------------------------------ MODULE Planner -------------------------------
(***************************************************************************)
(* planner.Build (internal/planner/plan.go, plan_sql.go): the choice       *)
(* between one flat statement and a composite of subqueries that keeps     *)
(* ratios of aggregates free of join fan-out.                              *)
(*                                                                         *)
(* An aggregate is the set of datasets its argument reads and whether it   *)
(* has a DISTINCT and is a COUNT.  A subquery is the datasets it joins,   *)
(* the aggregates it computes, and whether it deduplicates on a primary    *)
(* key first.  Expression text, aliases, ordering and the row limit do not *)
(* influence the choice and are left out.                                  *)
(***************************************************************************)
EXTENDS JoinTree

CONSTANTS
    Metric,         \* metrics of the model, see MetricExpr
    Keyed,          \* datasets that declare a primary_key
    Graphs,         \* join graphs: the relationships in spec order
    Asks, Filters,  \* sets of datasets a request, a policy may name
    MaxMetrics,     \* bound on the requested metrics
    NoTerm          \* no denominator

Term == [ds : SUBSET Dataset, agg : {"plain", "distinct", "count distinct"}]
CountDistinct(t) == t.agg = "count distinct"
MetricExpr == [num : Term, den : Term \cup {NoTerm}]

(* ValidateSpec: a denominator that may fan out can be deduplicated         *)
ValidMetric(m) == m.den # NoTerm /\ m.den.agg = "plain" => m.den.ds \subseteq Keyed

ASSUME PlannerAssumption ==
    /\ NoTerm \notin Term
    /\ Metric \subseteq MetricExpr /\ \A m \in Metric : ValidMetric(m)
    /\ Asks \subseteq SUBSET Dataset /\ Filters \subseteq SUBSET Dataset
    /\ Graphs \subseteq Seq(Relationship) /\ \A rs \in Graphs : Acyclic(rs)
    /\ Keyed \subseteq Dataset /\ MaxMetrics \in Nat

VARIABLES
    metrics,        \* the requested metrics, in request order
    asked,          \* datasets of the requested dimensions and filters
    rowFilters,     \* datasets of the row filters the decision attaches
    pc, i,          \* what Build does next; the metric or split it is at
    base,           \* baseRequired
    inline, split,  \* positions of the metrics of either kind
    ownRoot,        \* history: the root an inline ratio was judged against
    queries,        \* the subqueries rendered so far
    failure         \* why Build returned an error

request == <<rels, metrics, asked, rowFilters>>
build == <<pc, i, base, inline, split, ownRoot, queries, failure>>
vars == <<request, treeVars, build>>

BoundedSeq(S, n) == UNION {[1..k -> S] : k \in 0..n}

PCs == {"resolve", "partition", "ratio", "flat", "base", "num", "den", "done", "error"}
Failures == {"none", "refused", "empty", "no path", "filter",
             "several datasets", "no primary key", "internal"}

Query == [kind : {"flat", "base", "num", "den"}, terms : SUBSET Term, root : Dataset,
          tree : SUBSET Dataset, dedup : BOOLEAN]

Init ==
    /\ TreeInit
    /\ rels \in Graphs
    /\ metrics \in BoundedSeq(Metric, MaxMetrics) \ {<<>>}
    /\ asked \in Asks /\ rowFilters \in Filters
    /\ pc = "resolve" /\ i = 1 /\ base = {} /\ inline = <<>> /\ split = <<>>
    /\ ownRoot = [j \in DOMAIN metrics |-> root] /\ queries = <<>> /\ failure = "none"

-----------------------------------------------------------------------------
Datasets(m) == m.num.ds \cup (IF m.den = NoTerm THEN {} ELSE m.den.ds)
TermsOf(m) == {m.num} \cup (IF m.den = NoTerm THEN {} ELSE {m.den})

(* termSafe: no join with this root repeats the rows the term aggregates    *)
TermSafe(t, r) == CountDistinct(t) \/ t.ds \subseteq {r}
RatioSafe(m, r) == TermSafe(m.num, r) /\ TermSafe(m.den, r)

TreeReturned == jpc \in {"found", "empty", "none"}
TreeIdle == jpc' = "idle" /\ UNCHANGED <<required, try, root, queue, visited, parent,
                              discovery, at, unwalked, cur, needed, joins>>

Fail(why) == pc' = "error" /\ failure' = why

(* Names, grain, ordering and filters are resolved, the caller authorized   *)
(* and claims expanded: any of it may refuse the request                    *)
Resolve ==
    /\ pc = "resolve"
    /\ \/ /\ pc' = "partition" /\ base' = asked \cup rowFilters /\ UNCHANGED failure
       \/ Fail("refused") /\ UNCHANGED base
    /\ UNCHANGED <<request, treeVars, i, inline, split, ownRoot, queries>>

-----------------------------------------------------------------------------
(* The partition of the metrics *)

PartitionPlain ==
    /\ pc = "partition" /\ i <= Len(metrics) /\ metrics[i].den = NoTerm
    /\ inline' = Append(inline, i) /\ base' = base \cup metrics[i].num.ds
    /\ i' = i + 1
    /\ UNCHANGED <<request, treeVars, pc, split, ownRoot, queries, failure>>

(* tentative: the combined query as far as it is known                      *)
PartitionRatio ==
    /\ pc = "partition" /\ i <= Len(metrics) /\ metrics[i].den # NoTerm
    /\ CallJoinTree(base \cup Datasets(metrics[i]))
    /\ pc' = "ratio"
    /\ UNCHANGED <<request, i, base, inline, split, ownRoot, queries, failure>>

InlineUnchecked(m) == jpc = "found"
Inline(m) == jpc = "found" /\ RatioSafe(m, root)

RatioJudged ==
    /\ pc = "ratio" /\ TreeReturned
    /\ \/ /\ Inline(metrics[i])
          /\ inline' = Append(inline, i) /\ base' = required
          /\ ownRoot' = [ownRoot EXCEPT ![i] = root]
          /\ UNCHANGED split
       \/ /\ ~Inline(metrics[i])
          /\ split' = Append(split, i)
          /\ UNCHANGED <<inline, base, ownRoot>>
    /\ i' = i + 1 /\ pc' = "partition" /\ TreeIdle
    /\ UNCHANGED <<request, queries, failure>>

-----------------------------------------------------------------------------
(* The statement: flatQuery, or compositeQuery with its sideQuery's *)

SideRequiredUnfiltered(t) == asked \cup t.ds
SideRequired(t) == asked \cup rowFilters \cup t.ds

(* No metric is split: flatQuery.  Otherwise compositeQuery: base first, if  *)
(* there are inline metrics, then the two sides of every split.              *)
PartitionDone ==
    /\ pc = "partition" /\ i > Len(metrics)
    /\ i' = 1
    /\ \/ /\ split = <<>>
          /\ CallJoinTree(base) /\ pc' = "flat"
       \/ /\ split # <<>> /\ inline # <<>>
          /\ CallJoinTree(base) /\ pc' = "base"
       \/ /\ split # <<>> /\ inline = <<>>
          /\ CallJoinTree(SideRequired(metrics[split[1]].num)) /\ pc' = "num"
    /\ UNCHANGED <<request, base, inline, split, ownRoot, queries, failure>>

Render(kind, terms, dedup) ==
    queries' = Append(queries, [kind |-> kind, terms |-> terms, root |-> root,
                                tree |-> InTree, dedup |-> dedup])

InlineTerms == UNION {TermsOf(metrics[inline[j]]) : j \in DOMAIN inline}

(* joinTree's error, or whereClauses': a user filter it cannot render (an    *)
(* operator, a literal), or a row filter outside the tree                    *)
NoTree ==
    \/ jpc = "empty" /\ Fail("empty")
    \/ jpc = "none" /\ Fail("no path")
    \/ jpc = "found" /\ Fail("filter")
    \/ jpc = "found" /\ ~(rowFilters \subseteq InTree) /\ Fail("internal")
HaveTree == jpc = "found" /\ rowFilters \subseteq InTree

FlatQuery ==
    /\ pc = "flat" /\ TreeReturned
    /\ \/ NoTree /\ UNCHANGED queries
       \/ /\ HaveTree /\ Render("flat", InlineTerms, FALSE)
          /\ pc' = "done" /\ UNCHANGED failure
    /\ TreeIdle
    /\ UNCHANGED <<request, i, base, inline, split, ownRoot>>

BaseQuery ==
    /\ pc = "base" /\ TreeReturned
    /\ \/ NoTree /\ TreeIdle /\ UNCHANGED queries
       \/ /\ HaveTree /\ Render("base", InlineTerms, FALSE)
          /\ CallJoinTree(SideRequired(metrics[split[1]].num))
          /\ pc' = "num" /\ UNCHANGED failure
    /\ UNCHANGED <<request, i, base, inline, split, ownRoot>>

Side == IF pc = "num" THEN metrics[split[i]].num ELSE metrics[split[i]].den

(* What sideQuery needs to aggregate without fan-out                        *)
SideSafe(t) == CountDistinct(t) \/ t.ds = {root}
DedupAnyway(t) == ~SideSafe(t)
Dedup(t) == ~SideSafe(t) /\ Cardinality(t.ds) = 1 /\ t.ds \subseteq Keyed

CannotDedup(t) ==
    /\ ~SideSafe(t) /\ ~Dedup(t)
    /\ Fail(IF Cardinality(t.ds) # 1 THEN "several datasets" ELSE "no primary key")

NextSide ==
    \/ /\ pc = "num" /\ pc' = "den" /\ UNCHANGED i
       /\ CallJoinTree(SideRequired(metrics[split[i]].den))
    \/ /\ pc = "den" /\ i < Len(split) /\ pc' = "num" /\ i' = i + 1
       /\ CallJoinTree(SideRequired(metrics[split[i + 1]].num))
    \/ /\ pc = "den" /\ i = Len(split) /\ pc' = "done" /\ UNCHANGED i /\ TreeIdle

SideQuery ==
    /\ pc \in {"num", "den"} /\ TreeReturned
    /\ \/ NoTree /\ TreeIdle /\ UNCHANGED <<i, queries>>
       \/ HaveTree /\ CannotDedup(Side) /\ TreeIdle /\ UNCHANGED <<i, queries>>
       \/ /\ HaveTree /\ (SideSafe(Side) \/ Dedup(Side))
          /\ Render(pc, {Side}, Dedup(Side))
          /\ NextSide /\ UNCHANGED failure
    /\ UNCHANGED <<request, base, inline, split, ownRoot>>

-----------------------------------------------------------------------------
JoinTreeRuns == TreeStep /\ UNCHANGED <<request, build>>

Terminated == pc \in {"done", "error"} /\ UNCHANGED vars

Next ==
    \/ Resolve \/ PartitionPlain \/ PartitionRatio \/ RatioJudged \/ PartitionDone
    \/ FlatQuery \/ BaseQuery \/ SideQuery
    \/ JoinTreeRuns \/ Terminated

Spec == Init /\ [][Next]_vars

-----------------------------------------------------------------------------
TypeTree ==
    /\ rels \in Seq(Relationship) /\ jpc \in JPCs /\ required \subseteq Dataset
    /\ try \in Nat /\ root \in Dataset /\ queue \in Seq(Dataset)
    /\ visited \subseteq Dataset /\ parent \in [Dataset -> Nat]
    /\ discovery \in Seq(DOMAIN rels) /\ at \in Nat
    /\ unwalked \subseteq Dataset
    /\ cur \in IF jpc = "walk" THEN visited ELSE Dataset
    /\ needed \subseteq DOMAIN rels /\ joins \in Seq(DOMAIN rels)
TypeBuild ==
    /\ metrics \in Seq(Metric) /\ asked \subseteq Dataset /\ rowFilters \subseteq Dataset
    /\ pc \in PCs /\ i \in Nat \ {0} /\ base \subseteq Dataset
    /\ inline \in Seq(DOMAIN metrics) /\ split \in Seq(DOMAIN metrics)
    /\ ownRoot \in [DOMAIN metrics -> Dataset]
    /\ queries \in Seq(Query) /\ failure \in Failures
(* Every variable keeps its type; reach follows parents only from datasets   *)
(* it has visited.                                                           *)
TypeOK == TypeTree /\ TypeBuild

(* Every subquery of the statement reads under the whole policy: the row     *)
(* filters' datasets, the dimensions, the filters and its own aggregates are  *)
(* in its join tree, so that the "internal: row filter dataset not in join    *)
(* tree" error cannot happen (whereClauses, flatQuery, sideQuery).            *)
QueriesAreGoverned ==
    /\ failure # "internal"
    /\ \A j \in DOMAIN queries :
         asked \cup rowFilters \cup UNION {t.ds : t \in queries[j].terms} \subseteq queries[j].tree

InlineRatios == {inline[j] : j \in {l \in DOMAIN inline : metrics[inline[l]].den # NoTerm}}
CombinedRoot == queries[1].root    \* of the flat or the base query

(* A ratio computed in the combined query is free of fan-out there, unless a  *)
(* later metric brought in a dataset that the root the ratio was judged       *)
(* against does not reach (the partition in Build, joinTree, termSafe).       *)
SafeUnlessOutgrown == pc = "done" => \A j \in InlineRatios :
    RatioSafe(metrics[j], CombinedRoot) \/ ~Reaches(ownRoot[j], base)

(* Each side of a split ratio aggregates rows its join does not repeat, or    *)
(* repeats and deduplicates on a declared key, and both sides of every split  *)
(* are there (sideQuery, compositeQuery).                                     *)
SplitsAreComplete == pc = "done" => \A s \in DOMAIN split :
    LET num == metrics[split[s]].num
        den == metrics[split[s]].den
        exact(t, k) == \E j \in DOMAIN queries :
            /\ queries[j].kind = k /\ queries[j].terms = {t}
            /\ \/ CountDistinct(t) \/ t.ds = {queries[j].root}
               \/ queries[j].dedup /\ t.ds \subseteq Keyed
    IN  exact(num, "num") /\ exact(den, "den")

(* "Compute the root the combined query would use and check both sides are    *)
(* fan-out safe against it": every ratio in the combined query is safe for    *)
(* the root that query has (Build).                                           *)
RatiosAreSafe == pc = "done" => \A j \in InlineRatios : RatioSafe(metrics[j], CombinedRoot)
=============================================================================
