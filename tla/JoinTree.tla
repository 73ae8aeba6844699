------------------------------ MODULE JoinTree ------------------------------
(***************************************************************************)
(* builder.joinTree and builder.reach (internal/planner/plan_sql.go): the  *)
(* root and the ordered joins that connect the datasets a query needs.     *)
(*                                                                         *)
(* Roots are tried in a fixed order.  For each one a breadth-first search  *)
(* follows the relationships from their many side to their one side; the   *)
(* edges on the way to a required dataset are kept, in discovery order,    *)
(* which is the order of the JOINs in the statement.  The search runs one  *)
(* iteration of one loop at a time.  A relationship is identified by its   *)
(* position in the model.                                                  *)
(***************************************************************************)
EXTENDS Naturals, Sequences, FiniteSets

CONSTANTS
    Dataset,
    DatasetOrder    \* the datasets in the order of the spec

ASSUME OrderAssumption ==
    /\ DatasetOrder \in Seq(Dataset) \ {<<>>}
    /\ \A d \in Dataset : \E j \in DOMAIN DatasetOrder : DatasetOrder[j] = d

VARIABLES
    rels,       \* CompiledModel.Relationships
    jpc,        \* what joinTree does next; "idle" when it is not running
    required,   \* its argument
    try,        \* position among the candidates
    root, queue, visited, parent, discovery,    \* locals of reach
    at,         \* position in the loop over relationships or discovery
    unwalked, cur, needed,
    joins

treeVars == <<jpc, required, try, root, queue, visited, parent, discovery, at,
              unwalked, cur, needed, joins>>

Relationship == [from : Dataset, to : Dataset]

(* ValidateSpec, findCycle: the join graph has no cycle                     *)
Acyclic(rs) == \E rank \in [Dataset -> 1..Cardinality(Dataset)] :
    \A e \in DOMAIN rs : rank[rs[e].from] < rank[rs[e].to]

JPCs == {"idle", "root", "scan", "walk", "collect", "found", "empty", "none"}
NoParent == [d \in Dataset |-> 0]

TreeInit ==
    /\ jpc = "idle" /\ required = {} /\ try = 1
    /\ root = DatasetOrder[1]
    /\ queue = <<>> /\ visited = {root} /\ parent = NoParent /\ discovery = <<>>
    /\ at = 1 /\ unwalked = {} /\ cur = root /\ needed = {} /\ joins = <<>>

-----------------------------------------------------------------------------
(* b.joinTree(ds) is called; nothing is required of nothing                 *)
CallJoinTree(ds) ==
    /\ jpc' = IF ds = {} THEN "empty" ELSE "root"
    /\ required' = ds /\ try' = 1
    /\ UNCHANGED <<root, queue, visited, parent, discovery, at, unwalked, cur, needed, joins>>

(* Candidates: the required datasets in spec order, then all of them        *)
CandidatesRequired == Len(DatasetOrder)
Candidates == 2 * Len(DatasetOrder)
Candidate(j) == IF j <= Len(DatasetOrder) THEN DatasetOrder[j]
                ELSE DatasetOrder[j - Len(DatasetOrder)]
Skipped(j) == j <= Len(DatasetOrder) /\ DatasetOrder[j] \notin required

(* reach(root) starts its search                                            *)
TryRoot ==
    /\ jpc = "root" /\ try <= Candidates /\ ~Skipped(try)
    /\ root' = Candidate(try)
    /\ queue' = <<root'>> /\ visited' = {root'} /\ parent' = NoParent
    /\ discovery' = <<>> /\ at' = 1
    /\ jpc' = "scan"
    /\ UNCHANGED <<required, try, unwalked, cur, needed, joins>>

SkipRoot ==
    /\ jpc = "root" /\ try <= Candidates /\ Skipped(try)
    /\ try' = try + 1
    /\ UNCHANGED <<jpc, required, root, queue, visited, parent, discovery, at,
                   unwalked, cur, needed, joins>>

NoRoot ==
    /\ jpc = "root" /\ try > Candidates
    /\ jpc' = "none"
    /\ UNCHANGED <<required, try, root, queue, visited, parent, discovery, at,
                   unwalked, cur, needed, joins>>

-----------------------------------------------------------------------------
(* A relationship that leaves the head of the queue for a new dataset       *)
NewEdge(rel) == rel.from = Head(queue) /\ rel.to \notin visited

Discover ==
    LET rel == rels[at] IN
    /\ jpc = "scan" /\ queue # <<>> /\ at <= Len(rels)
    /\ at' = at + 1
    /\ IF NewEdge(rel)
       THEN /\ visited' = visited \cup {rel.to}
            /\ parent' = [parent EXCEPT ![rel.to] = at]
            /\ discovery' = Append(discovery, at)
            /\ queue' = Append(queue, rel.to)
       ELSE UNCHANGED <<visited, parent, discovery, queue>>
    /\ UNCHANGED <<jpc, required, try, root, unwalked, cur, needed, joins>>

NextInQueue ==
    /\ jpc = "scan" /\ queue # <<>> /\ at > Len(rels)
    /\ queue' = Tail(queue) /\ at' = 1
    /\ UNCHANGED <<jpc, required, try, root, visited, parent, discovery,
                   unwalked, cur, needed, joins>>

SearchDone ==
    /\ jpc = "scan" /\ queue = <<>>
    /\ unwalked' = required /\ cur' = root /\ needed' = {}
    /\ jpc' = "walk"
    /\ UNCHANGED <<required, try, root, queue, visited, parent, discovery, at, joins>>

(* for ds := range required, a map: in any order                            *)
WalkFromUnchecked(ds) ==
    /\ jpc = "walk" /\ cur = root /\ ds \in unwalked
    /\ unwalked' = unwalked \ {ds}
    /\ cur' = ds
    /\ UNCHANGED <<jpc, required, try, root, queue, visited, parent, discovery, at,
                   needed, joins>>
WalkFrom(ds) ==
    /\ jpc = "walk" /\ cur = root /\ ds \in unwalked
    /\ unwalked' = unwalked \ {ds}
    /\ IF ds \in visited THEN cur' = ds /\ UNCHANGED <<jpc, try>>
                         ELSE jpc' = "root" /\ try' = try + 1 /\ UNCHANGED cur
    /\ UNCHANGED <<required, root, queue, visited, parent, discovery, at, needed, joins>>

WalkUp ==
    /\ jpc = "walk" /\ cur # root
    /\ needed' = needed \cup {parent[cur]}
    /\ cur' = rels[parent[cur]].from
    /\ UNCHANGED <<jpc, required, try, root, queue, visited, parent, discovery, at,
                   unwalked, joins>>

WalkDone ==
    /\ jpc = "walk" /\ cur = root /\ unwalked = {}
    /\ at' = 1 /\ joins' = <<>>
    /\ jpc' = "collect"
    /\ UNCHANGED <<required, try, root, queue, visited, parent, discovery,
                   unwalked, cur, needed>>

(* for _, rel := range discovery: keep the needed ones                      *)
CollectAll(e) == Append(joins, e)
CollectFirst(e) == IF e \in needed THEN <<e>> \o joins ELSE joins
Kept(e) == IF e \in needed THEN Append(joins, e) ELSE joins

Collect ==
    /\ jpc = "collect" /\ at <= Len(discovery)
    /\ joins' = Kept(discovery[at])
    /\ at' = at + 1
    /\ UNCHANGED <<jpc, required, try, root, queue, visited, parent, discovery,
                   unwalked, cur, needed>>

CollectDone ==
    /\ jpc = "collect" /\ at > Len(discovery)
    /\ jpc' = "found"
    /\ UNCHANGED <<required, try, root, queue, visited, parent, discovery, at,
                   unwalked, cur, needed, joins>>

TreeStep ==
    \/ TryRoot \/ SkipRoot \/ NoRoot
    \/ Discover \/ NextInQueue \/ SearchDone
    \/ (\E ds \in unwalked : WalkFrom(ds)) \/ WalkUp \/ WalkDone
    \/ Collect \/ CollectDone

(* fromClause: the datasets with an alias in the statement                  *)
InTree == {root} \cup {rels[joins[j]].to : j \in DOMAIN joins}

-----------------------------------------------------------------------------
(* Closed sets of datasets stand for reachability: a dataset reaches ds if  *)
(* every closed set that holds it includes ds.                              *)
Closed(S) == \A e \in DOMAIN rels : rels[e].from \in S => rels[e].to \in S
Reaches(d, ds) == \A S \in SUBSET Dataset : d \in S /\ Closed(S) => ds \subseteq S

(* The statement joinTree yields is one SQL accepts: each JOIN hangs on the  *)
(* root or on a table joined before it, no alias occurs twice, and every     *)
(* required dataset is there (fromClause, whereClauses).                     *)
JoinsConnect == jpc = "found" =>
    /\ \A j \in DOMAIN joins :
         /\ rels[joins[j]].from \in {root} \cup {rels[joins[l]].to : l \in 1..(j - 1)}
         /\ rels[joins[j]].to \notin {root} \cup {rels[joins[l]].to : l \in 1..(j - 1)}
    /\ required \subseteq InTree

(* "a query touching only store must not detour through the fact table":     *)
(* a root outside the required datasets is taken only if none of them        *)
(* reaches the others, and the tree has no branch that ends in a dataset     *)
(* nobody asked for (the candidates' order, the pruning of reach).           *)
NoDetour == jpc = "found" =>
    /\ root \notin required => \A d \in required : ~Reaches(d, required)
    /\ \A j \in DOMAIN joins :
         \/ rels[joins[j]].to \in required
         \/ \E l \in DOMAIN joins : rels[joins[l]].from = rels[joins[j]].to

(* "no join path connects datasets" is said only when no dataset of the      *)
(* model reaches all of them (joinTree).                                     *)
NoPathIsReal == jpc = "none" => \A d \in Dataset : ~Reaches(d, required)
=============================================================================
