--------------------------- MODULE PlannerProofs ----------------------------
(***************************************************************************)
(* Proofs about Planner, for any datasets, acyclic join graphs, metrics    *)
(* and row filters.                                                        *)
(***************************************************************************)
EXTENDS Planner, TLAPS

-----------------------------------------------------------------------------
(* Sequences *)

LEMMA AppendFacts ==
  ASSUME NEW S, NEW s \in Seq(S), NEW e \in S
  PROVE  /\ Append(s, e) \in Seq(S)
         /\ Len(Append(s, e)) = Len(s) + 1 /\ Len(s) \in Nat
         /\ DOMAIN s = 1..Len(s) /\ DOMAIN Append(s, e) = 1..(Len(s) + 1)
         /\ \A j \in 1..Len(s) : Append(s, e)[j] = s[j]
         /\ Append(s, e)[Len(s) + 1] = e
  OBVIOUS

LEMMA TailFacts ==
  ASSUME NEW S, NEW s \in Seq(S), s # <<>>
  PROVE  /\ Tail(s) \in Seq(S) /\ Head(s) = s[1] /\ s[1] \in S
         /\ Len(Tail(s)) = Len(s) - 1 /\ Len(s) \in Nat /\ Len(s) >= 1
         /\ DOMAIN s = 1..Len(s) /\ DOMAIN Tail(s) = 1..(Len(s) - 1)
         /\ \A j \in 1..(Len(s) - 1) : Tail(s)[j] = s[j + 1]
  OBVIOUS

-----------------------------------------------------------------------------
(* The invariant of joinTree *)

Searching == jpc \in {"scan", "walk", "collect", "found"}
Walking == jpc \in {"walk", "collect", "found"}

(* TypeTree, except that parents are followed only where there is one        *)
TreeType ==
    /\ rels \in Seq(Relationship) /\ jpc \in JPCs /\ required \subseteq Dataset
    /\ try \in Nat \ {0} /\ root \in Dataset /\ queue \in Seq(Dataset)
    /\ visited \subseteq Dataset /\ parent \in [Dataset -> Nat]
    /\ discovery \in Seq(DOMAIN rels) /\ at \in Nat \ {0}
    /\ unwalked \subseteq Dataset /\ cur \in Dataset
    /\ needed \subseteq DOMAIN rels /\ joins \in Seq(DOMAIN rels)

(* The discovered edges are a tree over what is visited, parents first       *)
Edges ==
    /\ root \in visited
    /\ \A d \in visited : d = root \/ \E j \in DOMAIN discovery : rels[discovery[j]].to = d
    /\ \A j \in DOMAIN discovery : rels[discovery[j]].to \in visited \ {root}
    /\ \A j \in DOMAIN discovery :
         \/ rels[discovery[j]].from = root
         \/ \E l \in 1..(j - 1) : rels[discovery[l]].to = rels[discovery[j]].from
    /\ \A j, l \in DOMAIN discovery : rels[discovery[j]].to = rels[discovery[l]].to => j = l
    /\ \A j \in DOMAIN discovery : parent[rels[discovery[j]].to] = discovery[j]

(* Everything visited is reachable from the root ...                         *)
Reachable == \A S \in SUBSET Dataset : root \in S /\ Closed(S) => visited \subseteq S

(* ... and what is not visited yet will be found from the queue              *)
Frontier ==
    /\ \A k \in DOMAIN queue : queue[k] \in visited
    /\ \A e \in DOMAIN rels : rels[e].from \in visited /\ rels[e].to \notin visited =>
         \E k \in DOMAIN queue : queue[k] = rels[e].from /\ (k = 1 => at <= e)

(* The walks: needed edges lead up to the root, or to where the walk is       *)
Needed ==
    /\ \A e \in needed : \E j \in DOMAIN discovery : discovery[j] = e
    /\ \A e \in needed : rels[e].from \in {root, cur} \/ parent[rels[e].from] \in needed
    /\ \A e \in needed : rels[e].to \in required \/ \E f \in needed : rels[f].from = rels[e].to
    /\ \A ds \in required \ unwalked : ds \in visited /\ (ds \in {root, cur} \/ parent[ds] \in needed)
    /\ cur \in visited
    /\ cur = root \/ cur \in required \/ \E f \in needed : rels[f].from = cur
    /\ unwalked \subseteq required

(* The joins collected so far, in an order SQL accepts                        *)
Ordered ==
    /\ cur = root /\ unwalked = {}
    /\ \A j \in DOMAIN joins : \E l \in 1..(at - 1) : l \in DOMAIN discovery /\ discovery[l] = joins[j]
    /\ \A l \in 1..(at - 1) : l \in DOMAIN discovery /\ discovery[l] \in needed =>
         \E j \in DOMAIN joins : joins[j] = discovery[l]
    /\ \A j \in DOMAIN joins : joins[j] \in needed
    /\ \A j \in DOMAIN joins :
         /\ rels[joins[j]].from \in {root} \cup {rels[joins[l]].to : l \in 1..(j - 1)}
         /\ rels[joins[j]].to \notin {root} \cup {rels[joins[l]].to : l \in 1..(j - 1)}

(* A root passed over does not reach everything                               *)
Tried ==
    /\ jpc \notin {"idle", "empty"} =>
         \A j \in 1..(try - 1) : j <= Candidates /\ ~Skipped(j) => ~Reaches(Candidate(j), required)
    /\ Searching => try <= Candidates /\ ~Skipped(try) /\ root = Candidate(try)
    /\ jpc = "none" => try > Candidates

TreeInv ==
    /\ TreeType
    /\ Searching => Edges /\ Reachable
    /\ jpc = "scan" => Frontier
    /\ Walking => Needed /\ Closed(visited)
    /\ jpc \in {"collect", "found"} => Ordered
    /\ jpc = "found" => at > Len(discovery)
    /\ Tried

LEMMA OrderFacts ==
  /\ Len(DatasetOrder) \in Nat \ {0} /\ Candidates \in Nat \ {0}
  /\ Candidates = 2 * Len(DatasetOrder)
  /\ \A j \in 1..Candidates : Candidate(j) \in Dataset
  BY OrderAssumption DEF Candidates, Candidate

LEMMA RelFacts ==
  ASSUME TreeType
  PROVE  /\ Len(rels) \in Nat /\ DOMAIN rels = 1..Len(rels)
         /\ \A e \in DOMAIN rels : rels[e].from \in Dataset /\ rels[e].to \in Dataset
  <1>1. rels \in Seq(Relationship)
    BY DEF TreeType
  <1>2. Len(rels) \in Nat /\ DOMAIN rels = 1..Len(rels) /\ \A e \in DOMAIN rels : rels[e] \in Relationship
    BY <1>1
  <1> QED
    BY <1>2 DEF Relationship
-----------------------------------------------------------------------------
(* joinTree preserves it, action by action *)

LEMMA CallKeeps ==
  ASSUME TreeType, NEW ds \in SUBSET Dataset, CallJoinTree(ds), rels' = rels
  PROVE  TreeInv' /\ required' = ds
  <1>1. TreeType'
    BY DEF TreeType, CallJoinTree, JPCs
  <1>2. jpc' \in {"empty", "root"} /\ try' = 1
    BY DEF CallJoinTree
  <1>3. Tried'
    BY <1>2, OrderFacts DEF Tried, Searching
  <1> QED
    BY <1>1, <1>2, <1>3 DEF TreeInv, Searching, Walking, CallJoinTree

LEMMA IdleKeeps ==
  ASSUME TreeType, TreeIdle, rels' = rels
  PROVE  TreeInv'
  <1>1. TreeType'
    BY DEF TreeType, TreeIdle, JPCs
  <1> QED
    BY <1>1 DEF TreeIdle, TreeInv, Tried, Searching, Walking

LEMMA TryRootKeeps ==
  ASSUME TreeInv, TryRoot, rels' = rels
  PROVE  TreeInv'
  <1> USE DEF TryRoot
  <1>1. TreeType /\ Tried /\ try \in 1..Candidates /\ Candidate(try) \in Dataset
    BY OrderFacts DEF TreeInv, TreeType
  <1>2. NoParent \in [Dataset -> Nat]
    BY DEF NoParent
  <1>3. TreeType'
    BY <1>1, <1>2 DEF TreeType, JPCs
  <1>4. Edges' /\ Reachable'
    BY DEF Edges, Reachable
  <1>5. Frontier'
    BY <1>1, RelFacts DEF Frontier
  <1>6. Tried'
    BY <1>1 DEF Tried, Searching, Skipped, Reaches, Closed
  <1> QED
    BY <1>3, <1>4, <1>5, <1>6 DEF TreeInv, Walking

LEMMA RootStepsKeep ==
  ASSUME TreeInv, SkipRoot \/ NoRoot, rels' = rels
  PROVE  TreeInv'
  <1>1. TreeType /\ Tried
    BY DEF TreeInv
  <1>2. TreeType' /\ jpc' \in {"root", "none"}
    BY <1>1 DEF TreeType, SkipRoot, NoRoot, JPCs
  <1>3. Tried'
    <2>1. CASE SkipRoot
      <3>1. try' = try + 1 /\ jpc' = "root" /\ required' = required /\ Skipped(try) /\ try \in Nat
        BY <2>1, <1>1 DEF SkipRoot, TreeType
      <3>2. \A j \in 1..(try - 1) : j <= Candidates /\ ~Skipped(j) => ~Reaches(Candidate(j), required)
        BY <2>1, <1>1 DEF SkipRoot, Tried
      <3>3. \A j \in 1..(try' - 1) : j <= Candidates /\ ~Skipped(j) => ~Reaches(Candidate(j), required)
        BY <3>1, <3>2
      <3> QED
        BY <3>1, <3>3 DEF Tried, Searching, Skipped, Reaches, Closed
    <2>2. CASE NoRoot
      BY <2>2, <1>1 DEF NoRoot, Tried, Searching, Skipped, Reaches, Closed
    <2> QED
      BY <2>1, <2>2
  <1> QED
    BY <1>2, <1>3 DEF TreeInv, Searching, Walking
(* The iteration that finds a new dataset                                    *)
LEMMA NewEdgeKeeps ==
  ASSUME TreeInv, Discover, NewEdge(rels[at]), rels' = rels
  PROVE  TreeInv'
  <1> DEFINE e == at
             d == rels[at].to
             n == Len(discovery) + 1
  <1>1. TreeType /\ Tried /\ Edges /\ Reachable /\ Frontier
    BY DEF Discover, TreeInv, Searching
  <1>2. /\ jpc = "scan" /\ jpc' = "scan" /\ queue # <<>> /\ at' = at + 1
        /\ visited' = visited \cup {d} /\ parent' = [parent EXCEPT ![d] = e]
        /\ discovery' = Append(discovery, e) /\ queue' = Append(queue, d)
        /\ UNCHANGED <<required, try, root, unwalked, cur, needed, joins>>
    BY DEF Discover
  <1>3. /\ e \in DOMAIN rels /\ d \in Dataset /\ e \in Nat \ {0}
        /\ \A x \in DOMAIN rels : rels[x].from \in Dataset /\ rels[x].to \in Dataset
    BY <1>1, RelFacts DEF Discover, TreeType
  <1>4. /\ discovery' \in Seq(DOMAIN rels) /\ Len(discovery) \in Nat /\ n \in Nat
        /\ DOMAIN discovery = 1..(n - 1) /\ DOMAIN discovery' = 1..n
        /\ \A j \in 1..(n - 1) : discovery'[j] = discovery[j]
        /\ discovery'[n] = e
    BY <1>1, <1>2, <1>3, AppendFacts DEF TreeType
  <1>5. /\ queue' \in Seq(Dataset) /\ Len(queue) \in Nat /\ Len(queue) >= 1
        /\ DOMAIN queue = 1..Len(queue) /\ DOMAIN queue' = 1..(Len(queue) + 1)
        /\ \A j \in 1..Len(queue) : queue'[j] = queue[j]
        /\ queue'[Len(queue) + 1] = d
        /\ Head(queue) = queue[1]
    BY <1>1, <1>2, <1>3, AppendFacts, TailFacts DEF TreeType
  <1>6. rels[e].from = queue[1] /\ rels[e].from \in visited /\ d \notin visited
    BY <1>1, <1>5 DEF NewEdge, Frontier
  <1>7. d # root /\ \A j \in 1..(n - 1) : rels[discovery[j]].to # d
    BY <1>1, <1>4, <1>6 DEF Edges
  <1>8. TreeType'
    BY <1>1, <1>2, <1>3, <1>4, <1>5 DEF TreeType
  <1>9. Edges'
    <2>1. root' \in visited'
      BY <1>1, <1>2 DEF Edges
    <2>2. \A x \in visited' : x = root' \/ \E j \in DOMAIN discovery' : rels'[discovery'[j]].to = x
      <3> SUFFICES ASSUME NEW x \in visited', x # root
                   PROVE  \E j \in 1..n : rels[discovery'[j]].to = x
        BY <1>2, <1>4
      <3>1. CASE x = d
        BY <3>1, <1>4
      <3>2. CASE x \in visited
        <4>1. PICK j \in DOMAIN discovery : rels[discovery[j]].to = x
          BY <3>2, <1>1 DEF Edges
        <4> QED
          BY <4>1, <1>4
      <3> QED
        BY <3>1, <3>2, <1>2
    <2>3. \A j \in DOMAIN discovery' : rels'[discovery'[j]].to \in visited' \ {root'}
      <3> SUFFICES ASSUME NEW j \in 1..n
                   PROVE  rels[discovery'[j]].to \in (visited \cup {d}) \ {root}
        BY <1>2, <1>4
      <3>1. CASE j = n
        BY <3>1, <1>4, <1>7
      <3>2. CASE j \in 1..(n - 1)
        BY <3>2, <1>1, <1>4 DEF Edges
      <3> QED
        BY <3>1, <3>2, <1>4
    <2>4. \A j \in DOMAIN discovery' :
            \/ rels'[discovery'[j]].from = root'
            \/ \E l \in 1..(j - 1) : rels'[discovery'[l]].to = rels'[discovery'[j]].from
      <3> SUFFICES ASSUME NEW j \in 1..n, rels[discovery'[j]].from # root
                   PROVE  \E l \in 1..(j - 1) : rels[discovery'[l]].to = rels[discovery'[j]].from
        BY <1>2, <1>4
      <3>1. CASE j = n
        <4>1. PICK l \in DOMAIN discovery : rels[discovery[l]].to = rels[e].from
          BY <3>1, <1>1, <1>4, <1>6 DEF Edges
        <4> QED
          BY <4>1, <3>1, <1>4
      <3>2. CASE j \in 1..(n - 1)
        <4>1. PICK l \in 1..(j - 1) : rels[discovery[l]].to = rels[discovery[j]].from
          BY <3>2, <1>1, <1>4 DEF Edges
        <4> QED
          BY <4>1, <3>2, <1>4
      <3> QED
        BY <3>1, <3>2, <1>4
    <2>5. \A j, l \in DOMAIN discovery' :
            rels'[discovery'[j]].to = rels'[discovery'[l]].to => j = l
      <3> SUFFICES ASSUME NEW j \in 1..n, NEW l \in 1..n,
                          rels[discovery'[j]].to = rels[discovery'[l]].to
                   PROVE  j = l
        BY <1>4
      <3>1. j \in 1..(n - 1) \/ j = n
        BY <1>4
      <3>2. l \in 1..(n - 1) \/ l = n
        BY <1>4
      <3>3. CASE j \in 1..(n - 1) /\ l \in 1..(n - 1)
        BY <3>3, <1>1, <1>4 DEF Edges
      <3> QED
        BY <3>1, <3>2, <3>3, <1>4, <1>7
    <2>6. \A j \in DOMAIN discovery' : parent'[rels'[discovery'[j]].to] = discovery'[j]
      <3> SUFFICES ASSUME NEW j \in 1..n
                   PROVE  parent'[rels[discovery'[j]].to] = discovery'[j]
        BY <1>4
      <3>1. CASE j = n
        BY <3>1, <1>1, <1>2, <1>3, <1>4 DEF TreeType
      <3>2. CASE j \in 1..(n - 1)
        <4>1. parent[rels[discovery[j]].to] = discovery[j]
          BY <3>2, <1>1, <1>4 DEF Edges
        <4>2. discovery \in Seq(DOMAIN rels) /\ parent \in [Dataset -> Nat]
          BY <1>1 DEF TreeType
        <4>3. discovery[j] \in DOMAIN rels
          BY <3>2, <4>2, <1>4
        <4>4. rels[discovery[j]].to \in Dataset /\ rels[discovery[j]].to # d
          BY <3>2, <4>3, <1>3, <1>7
        <4> QED
          BY <3>2, <4>1, <4>2, <4>4, <1>2, <1>4
      <3> QED
        BY <3>1, <3>2, <1>4
    <2> QED
      BY <2>1, <2>2, <2>3, <2>4, <2>5, <2>6 DEF Edges
  <1>10. Reachable'
    <2> SUFFICES ASSUME NEW S \in SUBSET Dataset, root \in S, Closed(S)
                 PROVE  visited \cup {d} \subseteq S
      BY <1>2 DEF Reachable, Closed
    <2>1. visited \subseteq S
      BY <1>1 DEF Reachable
    <2> QED
      BY <2>1, <1>3, <1>6 DEF Closed
  <1>11. Frontier'
    <2>1. \A k \in DOMAIN queue' : queue'[k] \in visited'
      BY <1>1, <1>2, <1>5 DEF Frontier
    <2>2. ASSUME NEW x \in DOMAIN rels, rels[x].from \in visited', rels[x].to \notin visited'
          PROVE  \E k \in DOMAIN queue' : queue'[k] = rels[x].from /\ (k = 1 => at' <= x)
      <3>1. CASE rels[x].from = d
        BY <3>1, <1>5
      <3>2. CASE rels[x].from \in visited
        <4>1. PICK k \in DOMAIN queue : queue[k] = rels[x].from /\ (k = 1 => at <= x)
          BY <2>2, <3>2, <1>1, <1>2 DEF Frontier
        <4>2. x # at
          BY <2>2, <1>2
        <4>3. x \in Nat /\ at \in Nat
          BY <1>1, <1>3, RelFacts
        <4> QED
          BY <4>1, <4>2, <4>3, <1>2, <1>5
      <3> QED
        BY <2>2, <3>1, <3>2, <1>2
    <2> QED
      BY <2>1, <2>2 DEF Frontier
  <1>12. Tried'
    BY <1>1, <1>2 DEF Tried, Searching, Skipped, Reaches, Closed
  <1> QED
    BY <1>2, <1>8, <1>9, <1>10, <1>11, <1>12 DEF TreeInv, Walking

(* The other iterations of the search, and its end                           *)
LEMMA SearchKeeps ==
  ASSUME TreeInv, Discover \/ NextInQueue \/ SearchDone, rels' = rels
  PROVE  TreeInv'
  <1>1. TreeType /\ Tried /\ Edges /\ Reachable /\ Frontier /\ jpc = "scan"
    BY DEF Discover, NextInQueue, SearchDone, TreeInv, Searching
  <1>2. at \in Nat \ {0} /\ Len(rels) \in Nat /\ DOMAIN rels = 1..Len(rels)
    BY <1>1, RelFacts DEF TreeType
  <1>3. queue \in Seq(Dataset) /\ DOMAIN queue = 1..Len(queue) /\ Len(queue) \in Nat
    BY <1>1 DEF TreeType
  <1>4. CASE Discover /\ NewEdge(rels[at])
    BY <1>4, NewEdgeKeeps
  <1>5. CASE Discover /\ ~NewEdge(rels[at])
    <2>1. /\ at' = at + 1 /\ queue # <<>> /\ at \in DOMAIN rels /\ jpc' = jpc
          /\ UNCHANGED <<visited, parent, discovery, queue, required, try, root,
                         unwalked, cur, needed, joins>>
      BY <1>2, <1>5 DEF Discover
    <2>2. TreeType' /\ Edges' /\ Reachable' /\ Tried'
      <3>1. TreeType'
        BY <1>1, <1>2, <2>1 DEF TreeType
      <3>2. Edges' /\ Reachable'
        BY <1>1, <2>1 DEF Edges, Reachable, Closed
      <3>3. Tried'
        BY <1>1, <2>1 DEF Tried, Closed, Searching, Skipped, Reaches
      <3> QED
        BY <3>1, <3>2, <3>3
    <2>3. Frontier'
      <3>1. ASSUME NEW x \in DOMAIN rels, rels[x].from \in visited, rels[x].to \notin visited
            PROVE  \E k \in DOMAIN queue : queue[k] = rels[x].from /\ (k = 1 => at + 1 <= x)
        <4>1. PICK k \in DOMAIN queue : queue[k] = rels[x].from /\ (k = 1 => at <= x)
          BY <3>1, <1>1 DEF Frontier
        <4>2. k = 1 => x # at
          BY <4>1, <3>1, <1>5, <1>3, <2>1, TailFacts DEF NewEdge
        <4> QED
          BY <4>1, <4>2, <1>2
      <3> QED
        BY <3>1, <2>1, <1>1 DEF Frontier
    <2> QED
      BY <1>1, <2>1, <2>2, <2>3 DEF TreeInv, Walking
  <1>6. CASE NextInQueue
    <2>1. /\ queue # <<>> /\ at > Len(rels) /\ queue' = Tail(queue) /\ at' = 1 /\ jpc' = jpc
          /\ UNCHANGED <<visited, parent, discovery, required, try, root,
                         unwalked, cur, needed, joins>>
      BY <1>6 DEF NextInQueue
    <2>2. /\ queue' \in Seq(Dataset) /\ DOMAIN queue' = 1..(Len(queue) - 1)
          /\ \A j \in 1..(Len(queue) - 1) : queue'[j] = queue[j + 1]
      BY <1>3, <2>1, TailFacts
    <2>3. TreeType' /\ Edges' /\ Reachable' /\ Tried'
      <3>1. TreeType'
        BY <1>1, <2>1, <2>2 DEF TreeType
      <3>2. Edges' /\ Reachable'
        BY <1>1, <2>1 DEF Edges, Reachable, Closed
      <3>3. Tried'
        BY <1>1, <2>1 DEF Tried, Closed, Searching, Skipped, Reaches
      <3> QED
        BY <3>1, <3>2, <3>3
    <2>4. \A k \in DOMAIN queue' : queue'[k] \in visited'
      <3> SUFFICES ASSUME NEW k \in 1..(Len(queue) - 1) PROVE queue[k + 1] \in visited
        BY <2>1, <2>2
      <3>1. k + 1 \in DOMAIN queue
        BY <1>3
      <3> QED
        BY <3>1, <1>1 DEF Frontier
    <2>5. ASSUME NEW x \in DOMAIN rels, rels[x].from \in visited, rels[x].to \notin visited
          PROVE  \E k \in DOMAIN queue' : queue'[k] = rels[x].from /\ (k = 1 => 1 <= x)
      <3>1. PICK k \in DOMAIN queue : queue[k] = rels[x].from /\ (k = 1 => at <= x)
        BY <2>5, <1>1 DEF Frontier
      <3>2. k # 1 /\ k - 1 \in 1..(Len(queue) - 1) /\ (k - 1) + 1 = k
        BY <3>1, <1>2, <1>3, <2>1
      <3> QED
        BY <3>1, <3>2, <1>2, <2>2
    <2>6. Frontier'
      BY <2>1, <2>4, <2>5 DEF Frontier
    <2> QED
      BY <1>1, <2>1, <2>3, <2>6 DEF TreeInv, Walking
  <1>7. CASE SearchDone
    <2>1. /\ jpc' = "walk" /\ queue = <<>> /\ unwalked' = required /\ cur' = root /\ needed' = {}
          /\ UNCHANGED <<visited, parent, discovery, queue, at, required, try, root, joins>>
      BY <1>7 DEF SearchDone
    <2>2. TreeType' /\ Edges' /\ Reachable' /\ Tried'
      BY <1>1, <2>1 DEF TreeType, Edges, Reachable, Tried, Closed, Searching, Skipped, Reaches, JPCs
    <2>3. Closed(visited)
      BY <1>1, <1>3, <2>1 DEF Frontier, Closed
    <2>4. Needed'
      BY <1>1, <2>1 DEF Needed, Edges
    <2> QED
      BY <2>1, <2>2, <2>3, <2>4 DEF TreeInv, Walking, Closed
  <1> QED
    BY <1>4, <1>5, <1>6, <1>7

(* A dataset visited other than the root has a discovered edge as its parent *)
LEMMA ParentFacts ==
  ASSUME TreeType, Edges, NEW d \in visited, d # root
  PROVE  /\ parent[d] \in DOMAIN rels /\ rels[parent[d]].to = d
         /\ rels[parent[d]].from \in visited
         /\ \E j \in DOMAIN discovery : discovery[j] = parent[d]
  <1>1. PICK j \in DOMAIN discovery : rels[discovery[j]].to = d
    BY DEF Edges
  <1>2. parent[d] = discovery[j]
    BY <1>1 DEF Edges
  <1>3. discovery \in Seq(DOMAIN rels)
    BY DEF TreeType
  <1>4. discovery[j] \in DOMAIN rels /\ DOMAIN discovery = 1..Len(discovery) /\ Len(discovery) \in Nat
    BY <1>1, <1>3
  <1>5. rels[discovery[j]].from \in visited
    <2>1. CASE rels[discovery[j]].from = root
      BY <2>1 DEF Edges
    <2>2. CASE rels[discovery[j]].from # root
      <3>1. PICK l \in 1..(j - 1) : rels[discovery[l]].to = rels[discovery[j]].from
        BY <2>2, <1>1 DEF Edges
      <3>2. l \in DOMAIN discovery
        BY <1>4
      <3> QED
        BY <3>1, <3>2 DEF Edges
    <2> QED
      BY <2>1, <2>2
  <1> QED
    BY <1>1, <1>2, <1>4, <1>5

(* The walks up from the required datasets                                   *)
LEMMA WalkKeeps ==
  ASSUME TreeInv, (\E ds \in unwalked : WalkFrom(ds)) \/ WalkUp \/ WalkDone, rels' = rels
  PROVE  TreeInv'
  <1>1. TreeType /\ Tried /\ Edges /\ Reachable /\ Needed /\ Closed(visited) /\ jpc = "walk"
    BY DEF WalkFrom, WalkUp, WalkDone, TreeInv, Searching, Walking
  <1>2. ASSUME NEW ds \in unwalked, WalkFrom(ds), ds \in visited
        PROVE  TreeInv'
    <2>1. /\ cur = root /\ cur' = ds /\ unwalked' = unwalked \ {ds} /\ jpc' = jpc /\ try' = try
          /\ UNCHANGED <<visited, parent, discovery, queue, at, required, root, needed, joins>>
      BY <1>2 DEF WalkFrom
    <2>2. TreeType'
      BY <1>1, <1>2, <2>1 DEF TreeType
    <2>3. Edges' /\ Reachable' /\ Closed(visited)'
      BY <1>1, <2>1 DEF Edges, Reachable, Closed
    <2>4. Tried'
      BY <1>1, <2>1 DEF Tried, Closed, Searching, Skipped, Reaches
    <2>5. Needed'
      BY <1>1, <1>2, <2>1 DEF Needed
    <2> QED
      BY <1>1, <2>1, <2>2, <2>3, <2>4, <2>5 DEF TreeInv, Walking
  <1>3. ASSUME NEW ds \in unwalked, WalkFrom(ds), ds \notin visited
        PROVE  TreeInv'
    <2>1. /\ jpc' = "root" /\ try' = try + 1 /\ required' = required /\ unwalked' = unwalked \ {ds}
          /\ UNCHANGED <<visited, parent, discovery, queue, at, root, needed, joins, cur>>
      BY <1>3 DEF WalkFrom
    <2>2. TreeType'
      BY <1>1, <2>1 DEF TreeType, JPCs
    <2>3. root \in visited /\ visited \in SUBSET Dataset /\ ds \in required /\ try \in Nat
      BY <1>1, <1>3 DEF Edges, TreeType, Needed
    <2>4. ~Reaches(root, required)
      BY <2>3, <1>1, <1>3 DEF Reaches
    <2>5. root = Candidate(try)
      BY <1>1 DEF Tried, Searching
    <2>6. \A j \in 1..(try - 1) : j <= Candidates /\ ~Skipped(j) => ~Reaches(Candidate(j), required)
      BY <1>1 DEF Tried
    <2>7. \A j \in 1..(try' - 1) : j <= Candidates /\ ~Skipped(j) => ~Reaches(Candidate(j), required)
      BY <2>1, <2>3, <2>4, <2>5, <2>6
    <2>8. Tried'
      BY <2>1, <2>7 DEF Tried, Closed, Searching, Skipped, Reaches
    <2> QED
      BY <2>1, <2>2, <2>8 DEF TreeInv, Walking, Searching
  <1>4. CASE WalkUp
    <2> DEFINE e == parent[cur]
    <2>1. /\ cur # root /\ needed' = needed \cup {e} /\ cur' = rels[e].from /\ jpc' = jpc
          /\ UNCHANGED <<visited, parent, discovery, queue, at, required, root, try, joins, unwalked>>
      BY <1>4 DEF WalkUp
    <2>2. /\ cur \in visited /\ e \in DOMAIN rels /\ rels[e].to = cur /\ rels[e].from \in visited
          /\ \E j \in DOMAIN discovery : discovery[j] = e
      BY <1>1, <2>1, ParentFacts DEF Needed
    <2>3. TreeType'
      BY <1>1, <2>1, <2>2 DEF TreeType
    <2>4. Edges' /\ Reachable' /\ Closed(visited)'
      BY <1>1, <2>1 DEF Edges, Reachable, Closed
    <2>5. Tried'
      BY <1>1, <2>1 DEF Tried, Closed, Searching, Skipped, Reaches
    <2>6. \A f \in needed' : \E j \in DOMAIN discovery : discovery[j] = f
      BY <1>1, <2>1, <2>2 DEF Needed
    <2>7. \A f \in needed' : rels[f].from \in {root, cur'} \/ parent[rels[f].from] \in needed'
      BY <1>1, <2>1 DEF Needed
    <2>8. \A f \in needed' : rels[f].to \in required \/ \E h \in needed' : rels[h].from = rels[f].to
      <3>1. rels[e].to \in required \/ \E h \in needed : rels[h].from = rels[e].to
        BY <1>1, <2>1, <2>2 DEF Needed
      <3>2. \A f \in needed : rels[f].to \in required \/ \E h \in needed : rels[h].from = rels[f].to
        BY <1>1 DEF Needed
      <3> QED
        BY <3>1, <3>2, <2>1
    <2>9. \A ds \in required \ unwalked : ds \in visited /\ (ds \in {root, cur'} \/ parent[ds] \in needed')
      BY <1>1, <2>1 DEF Needed
    <2>10. cur' \in visited /\ (\E f \in needed' : rels[f].from = cur') /\ unwalked \subseteq required
      BY <1>1, <2>1, <2>2 DEF Needed
    <2>11. Needed'
      BY <2>1, <2>6, <2>7, <2>8, <2>9, <2>10 DEF Needed
    <2> QED
      BY <1>1, <2>1, <2>3, <2>4, <2>5, <2>11 DEF TreeInv, Walking
  <1>5. CASE WalkDone
    <2>1. /\ cur = root /\ unwalked = {} /\ at' = 1 /\ joins' = <<>> /\ jpc' = "collect"
          /\ UNCHANGED <<visited, parent, discovery, queue, required, root, try, unwalked, cur, needed>>
      BY <1>5 DEF WalkDone
    <2>2. TreeType'
      BY <1>1, <2>1 DEF TreeType, JPCs
    <2>3. Edges' /\ Reachable' /\ Closed(visited)'
      BY <1>1, <2>1 DEF Edges, Reachable, Closed
    <2>4. Tried'
      BY <1>1, <2>1 DEF Tried, Closed, Searching, Skipped, Reaches
    <2>5. Needed' /\ Ordered'
      BY <1>1, <2>1 DEF Needed, Ordered
    <2> QED
      BY <2>1, <2>2, <2>3, <2>4, <2>5 DEF TreeInv, Walking
  <1> QED
    BY <1>2, <1>3, <1>4, <1>5

(* The collection of the joins, in discovery order                           *)
LEMMA CollectKeeps ==
  ASSUME TreeInv, Collect \/ CollectDone, rels' = rels
  PROVE  TreeInv'
  <1>1. /\ TreeType /\ Tried /\ Edges /\ Reachable /\ Needed /\ Closed(visited) /\ Ordered
        /\ jpc = "collect"
    BY DEF Collect, CollectDone, TreeInv, Searching, Walking
  <1>2. /\ discovery \in Seq(DOMAIN rels) /\ joins \in Seq(DOMAIN rels) /\ at \in Nat \ {0}
        /\ DOMAIN discovery = 1..Len(discovery) /\ Len(discovery) \in Nat
        /\ DOMAIN joins = 1..Len(joins) /\ Len(joins) \in Nat
    BY <1>1 DEF TreeType
  <1>3. UNCHANGED <<visited, parent, discovery, queue, required, root, try, unwalked, cur, needed>>
    BY DEF Collect, CollectDone
  <1>4. Edges' /\ Reachable' /\ Closed(visited)' /\ Needed'
    BY <1>1, <1>3 DEF Edges, Reachable, Closed, Needed
  <1>5. CASE CollectDone
    <2>1. at > Len(discovery) /\ jpc' = "found" /\ at' = at /\ joins' = joins
      BY <1>5 DEF CollectDone
    <2>2. TreeType' /\ Ordered'
      BY <1>1, <1>3, <2>1 DEF TreeType, JPCs, Ordered
    <2>3. Tried'
      BY <1>1, <1>3, <2>1 DEF Tried, Closed, Searching, Skipped, Reaches
    <2> QED
      BY <1>3, <1>4, <2>1, <2>2, <2>3 DEF TreeInv, Walking
  <1>6. CASE Collect
    <2> DEFINE e == discovery[at]
    <2>1. at \in DOMAIN discovery /\ e \in DOMAIN rels /\ at' = at + 1 /\ jpc' = jpc /\ joins' = Kept(e)
      BY <1>2, <1>6 DEF Collect
    <2>2. joins' \in Seq(DOMAIN rels)
      <3>1. Append(joins, e) \in Seq(DOMAIN rels)
        BY <1>2, <2>1, AppendFacts
      <3> QED
        BY <1>2, <2>1, <3>1 DEF Kept
    <2>3. TreeType'
      BY <1>1, <1>3, <2>1, <2>2 DEF TreeType
    <2>4. Tried'
      BY <1>1, <1>3, <2>1 DEF Tried, Closed, Searching, Skipped, Reaches
    <2>5. CASE e \notin needed
      <3>1. joins' = joins
        BY <2>1, <2>5 DEF Kept
      <3>2. \A j \in DOMAIN joins : \E l \in 1..at : l \in DOMAIN discovery /\ discovery[l] = joins[j]
        BY <1>1, <1>2 DEF Ordered
      <3>3. \A l \in 1..at : l \in DOMAIN discovery /\ discovery[l] \in needed =>
              \E j \in DOMAIN joins : joins[j] = discovery[l]
        BY <1>1, <1>2, <2>5 DEF Ordered
      <3>4. at' - 1 = at
        BY <1>2, <2>1
      <3>5. Ordered'
        BY <1>1, <1>3, <3>1, <3>2, <3>3, <3>4 DEF Ordered
      <3> QED
        BY <1>1, <1>4, <2>1, <2>3, <2>4, <3>5 DEF TreeInv, Walking
    <2>6. CASE e \in needed
      <3> DEFINE n == Len(joins) + 1
      <3>1. /\ DOMAIN joins' = 1..n /\ DOMAIN joins = 1..(n - 1) /\ n \in Nat
            /\ \A j \in 1..(n - 1) : joins'[j] = joins[j]
            /\ joins'[n] = e
        BY <1>2, <2>1, <2>6, AppendFacts DEF Kept
      <3>2. at' - 1 = at
        BY <1>2, <2>1
      <3>3. \A j \in 1..n : \E l \in 1..at : l \in DOMAIN discovery /\ discovery[l] = joins'[j]
        <4> SUFFICES ASSUME NEW j \in 1..n
                     PROVE  \E l \in 1..at : l \in DOMAIN discovery /\ discovery[l] = joins'[j]
          OBVIOUS
        <4>1. CASE j = n
          BY <4>1, <3>1, <2>1, <1>2
        <4>2. CASE j \in 1..(n - 1)
          <5>1. PICK l \in 1..(at - 1) : l \in DOMAIN discovery /\ discovery[l] = joins[j]
            BY <4>2, <3>1, <1>1 DEF Ordered
          <5> QED
            BY <4>2, <5>1, <3>1, <1>2
        <4> QED
          BY <4>1, <4>2, <3>1
      <3>4. \A l \in 1..at : l \in DOMAIN discovery /\ discovery[l] \in needed =>
              \E j \in 1..n : joins'[j] = discovery[l]
        <4> SUFFICES ASSUME NEW l \in 1..at, l \in DOMAIN discovery, discovery[l] \in needed
                     PROVE  \E j \in 1..n : joins'[j] = discovery[l]
          OBVIOUS
        <4>1. CASE l = at
          BY <4>1, <3>1
        <4>2. CASE l # at
          <5>1. PICK j \in DOMAIN joins : joins[j] = discovery[l]
            BY <4>2, <1>1, <1>2 DEF Ordered
          <5> QED
            BY <5>1, <3>1
        <4> QED
          BY <4>1, <4>2
      <3>5. \A j \in 1..n : joins'[j] \in needed
        <4>1. \A j \in 1..(n - 1) : joins[j] \in needed
          BY <1>1, <3>1 DEF Ordered
        <4>2. \A j \in 1..n : j = n \/ j \in 1..(n - 1)
          BY <3>1
        <4> QED
          BY <4>1, <4>2, <2>6, <3>1
      <3>6. ASSUME NEW j \in 1..n
            PROVE  /\ rels[joins'[j]].from \in {root} \cup {rels[joins'[l]].to : l \in 1..(j - 1)}
                   /\ rels[joins'[j]].to \notin {root} \cup {rels[joins'[l]].to : l \in 1..(j - 1)}
        <4>1. CASE j \in 1..(n - 1)
          <5>1. /\ rels[joins[j]].from \in {root} \cup {rels[joins[l]].to : l \in 1..(j - 1)}
                /\ rels[joins[j]].to \notin {root} \cup {rels[joins[l]].to : l \in 1..(j - 1)}
            BY <4>1, <3>1, <1>1 DEF Ordered
          <5>2. joins'[j] = joins[j] /\ \A l \in 1..(j - 1) : joins'[l] = joins[l]
            BY <4>1, <3>1
          <5>3. {rels[joins'[l]].to : l \in 1..(j - 1)} = {rels[joins[l]].to : l \in 1..(j - 1)}
            BY <5>2
          <5> QED
            BY <5>1, <5>2, <5>3
        <4>2. CASE j = n
          <5>1. rels[e].from \in {root} \cup {rels[joins'[l]].to : l \in 1..(n - 1)}
            <6>1. CASE rels[e].from = root
              BY <6>1
            <6>2. CASE rels[e].from # root
              <7>1. PICK l \in 1..(at - 1) : rels[discovery[l]].to = rels[e].from
                BY <6>2, <2>1, <1>1 DEF Edges
              <7>2. l \in DOMAIN discovery
                BY <1>2, <2>1
              <7>3. parent[rels[e].from] = discovery[l]
                BY <7>1, <7>2, <1>1 DEF Edges
              <7>4. discovery[l] \in needed
                BY <7>3, <6>2, <2>6, <1>1 DEF Needed, Ordered
              <7>5. PICK m \in DOMAIN joins : joins[m] = discovery[l]
                BY <7>2, <7>4, <1>1 DEF Ordered
              <7>6. m \in 1..(n - 1) /\ joins'[m] = joins[m]
                BY <7>5, <3>1
              <7> QED
                BY <7>1, <7>5, <7>6
            <6> QED
              BY <6>1, <6>2
          <5>2. rels[e].to # root
            BY <2>1, <1>1 DEF Edges
          <5>3. ASSUME NEW m \in 1..(n - 1), rels[joins'[m]].to = rels[e].to
                PROVE  FALSE
            <6>1. joins'[m] = joins[m] /\ m \in DOMAIN joins
              BY <3>1
            <6>2. PICK l \in 1..(at - 1) : l \in DOMAIN discovery /\ discovery[l] = joins[m]
              BY <6>1, <1>1 DEF Ordered
            <6>3. l = at
              BY <5>3, <6>1, <6>2, <2>1, <1>1 DEF Edges
            <6> QED
              BY <6>2, <6>3, <1>2
          <5> QED
            BY <4>2, <3>1, <5>1, <5>2, <5>3
        <4> QED
          BY <4>1, <4>2, <3>1
      <3>7. cur' = root' /\ unwalked' = {}
        BY <1>1, <1>3 DEF Ordered
      <3>8. Ordered'
        <4>1. \A j \in 1..n :
                /\ rels[joins'[j]].from \in {root} \cup {rels[joins'[l]].to : l \in 1..(j - 1)}
                /\ rels[joins'[j]].to \notin {root} \cup {rels[joins'[l]].to : l \in 1..(j - 1)}
          BY <3>6
        <4>2. \A j \in DOMAIN joins' :
                /\ rels'[joins'[j]].from \in {root'} \cup {rels'[joins'[l]].to : l \in 1..(j - 1)}
                /\ rels'[joins'[j]].to \notin {root'} \cup {rels'[joins'[l]].to : l \in 1..(j - 1)}
          BY <4>1, <3>1, <1>3
        <4>3. \A j \in DOMAIN joins' : \E l \in 1..(at' - 1) : l \in DOMAIN discovery' /\ discovery'[l] = joins'[j]
          BY <3>1, <3>2, <3>3, <1>3
        <4>4. \A l \in 1..(at' - 1) : l \in DOMAIN discovery' /\ discovery'[l] \in needed' =>
                \E j \in DOMAIN joins' : joins'[j] = discovery'[l]
          BY <3>1, <3>2, <3>4, <1>3
        <4>5. \A j \in DOMAIN joins' : joins'[j] \in needed'
          BY <3>1, <3>5, <1>3
        <4> QED
          BY <3>7, <4>2, <4>3, <4>4, <4>5 DEF Ordered
      <3> QED
        BY <1>1, <1>4, <2>1, <2>3, <2>4, <3>8 DEF TreeInv, Walking
    <2> QED
      BY <2>5, <2>6
  <1> QED
    BY <1>5, <1>6

LEMMA TreeKeeps ==
  ASSUME TreeInv, TreeStep, rels' = rels
  PROVE  TreeInv'
  BY TryRootKeeps, RootStepsKeep, SearchKeeps, WalkKeeps, CollectKeeps DEF TreeStep

-----------------------------------------------------------------------------
(* What the invariant says when joinTree returns *)

LEMMA FoundConnects ==
  ASSUME TreeInv, jpc = "found"
  PROVE  /\ required \subseteq InTree /\ required \subseteq visited
         /\ \A e \in needed : \E j \in DOMAIN joins : joins[j] = e
  <1>1. TreeType /\ Edges /\ Needed /\ Ordered /\ at > Len(discovery)
    BY DEF TreeInv, Searching, Walking
  <1>2. /\ discovery \in Seq(DOMAIN rels) /\ at \in Nat \ {0}
        /\ DOMAIN discovery = 1..Len(discovery) /\ Len(discovery) \in Nat
    BY <1>1 DEF TreeType
  <1>3. ASSUME NEW e \in needed
        PROVE  \E j \in DOMAIN joins : joins[j] = e
    <2>1. PICK l \in DOMAIN discovery : discovery[l] = e
      BY <1>1 DEF Needed
    <2>2. l \in 1..(at - 1)
      BY <1>1, <1>2
    <2> QED
      BY <1>1, <2>1, <2>2 DEF Ordered
  <1>4. ASSUME NEW ds \in required
        PROVE  ds \in InTree /\ ds \in visited
    <2>1. ds \in visited /\ (ds = root \/ parent[ds] \in needed)
      BY <1>1 DEF Needed, Ordered
    <2>2. CASE ds # root
      <3>1. PICK j \in DOMAIN joins : joins[j] = parent[ds]
        BY <1>3, <2>1, <2>2
      <3>2. rels[parent[ds]].to = ds
        BY <1>1, <2>1, <2>2, ParentFacts
      <3> QED
        BY <2>1, <3>1, <3>2 DEF InTree
    <2> QED
      BY <2>1, <2>2 DEF InTree
  <1> QED
    BY <1>3, <1>4

LEMMA FoundIsConnected == TreeInv => JoinsConnect
  BY FoundConnects DEF TreeInv, Ordered, JoinsConnect

LEMMA FoundIsDirect == TreeInv => NoDetour
  <1> SUFFICES ASSUME TreeInv, jpc = "found" PROVE NoDetour
    BY DEF NoDetour
  <1>1. TreeType /\ Needed /\ Ordered /\ Tried
    BY DEF TreeInv, Walking
  <1>2. ASSUME root \notin required, NEW d \in required
        PROVE  ~Reaches(d, required)
    <2>1. d \in Dataset
      BY <1>1 DEF TreeType
    <2>2. PICK j \in DOMAIN DatasetOrder : DatasetOrder[j] = d
      BY <2>1, OrderAssumption
    <2>3. j \in 1..Len(DatasetOrder) /\ Len(DatasetOrder) \in Nat /\ Candidate(j) = d /\ ~Skipped(j)
      BY <2>2, OrderAssumption DEF Candidate, Skipped
    <2>4. try \in Nat /\ try <= Candidates /\ ~Skipped(try) /\ root = Candidate(try)
      BY <1>1 DEF Tried, TreeType, Searching
    <2>5. try > Len(DatasetOrder)
      BY <1>2, <2>3, <2>4 DEF Skipped, Candidate
    <2> QED
      BY <1>1, <2>3, <2>4, <2>5, OrderFacts DEF Tried
  <1>3. ASSUME NEW j \in DOMAIN joins
        PROVE  \/ rels[joins[j]].to \in required
               \/ \E l \in DOMAIN joins : rels[joins[l]].from = rels[joins[j]].to
    BY <1>1, FoundConnects DEF Needed, Ordered
  <1> QED
    BY <1>2, <1>3 DEF NoDetour

LEMMA NoneIsReal == TreeInv => NoPathIsReal
  <1> SUFFICES ASSUME TreeInv, jpc = "none", NEW d \in Dataset PROVE ~Reaches(d, required)
    BY DEF NoPathIsReal
  <1>1. PICK j \in DOMAIN DatasetOrder : DatasetOrder[j] = d
    BY OrderAssumption
  <1> DEFINE c == j + Len(DatasetOrder)
  <1>2. /\ j \in 1..Len(DatasetOrder) /\ Len(DatasetOrder) \in Nat
        /\ c \in Nat /\ c > Len(DatasetOrder) /\ c - Len(DatasetOrder) = j
    BY <1>1, OrderAssumption
  <1>3. Candidate(c) = d /\ ~Skipped(c) /\ c <= Candidates /\ c >= 1
    BY <1>1, <1>2 DEF Candidate, Skipped, Candidates
  <1>4. try \in Nat /\ try > Candidates
    BY DEF TreeInv, Tried, TreeType
  <1>5. c \in 1..(try - 1)
    BY <1>2, <1>3, <1>4, OrderFacts
  <1> QED
    BY <1>3, <1>5 DEF TreeInv, Tried

LEMMA FoundReaches ==
  ASSUME TreeInv, jpc = "found"
  PROVE  Reaches(root, required)
  <1>1. Reachable /\ required \subseteq visited
    BY FoundConnects DEF TreeInv, Searching
  <1> QED
    BY <1>1 DEF Reachable, Reaches

(* Without a cycle no two datasets reach each other                          *)
LEMMA NoMutualReach ==
  ASSUME TreeType, Acyclic(rels), NEW R \in SUBSET Dataset, NEW c \in R, NEW r \in R,
         Reaches(c, R), Reaches(r, R)
  PROVE  c = r
  <1>1. PICK rank \in [Dataset -> 1..Cardinality(Dataset)] :
               \A e \in DOMAIN rels : rank[rels[e].from] < rank[rels[e].to]
    BY DEF Acyclic
  <1>2. \A d \in Dataset : rank[d] \in Nat
    BY <1>1
  <1> DEFINE Above(x) == {x} \cup {d \in Dataset : rank[d] > rank[x]}
  <1>3. ASSUME NEW x \in Dataset PROVE Closed(Above(x)) /\ Above(x) \in SUBSET Dataset /\ x \in Above(x)
    <2>1. ASSUME NEW e \in DOMAIN rels, rels[e].from \in Above(x) PROVE rels[e].to \in Above(x)
      <3>1. rels[e].from \in Dataset /\ rels[e].to \in Dataset
        BY RelFacts
      <3>2. rank[rels[e].from] < rank[rels[e].to] /\ rank[rels[e].from] >= rank[x]
        BY <1>1, <1>2, <2>1, <3>1
      <3> QED
        BY <3>1, <3>2, <1>2
    <2> QED
      BY <2>1 DEF Closed
  <1>4. r \in Above(c) /\ c \in Above(r)
    BY <1>3 DEF Reaches
  <1> QED
    BY <1>2, <1>4

-----------------------------------------------------------------------------
(* The invariant of Build *)

(* The datasets that joinTree was called for                                 *)
Linked ==
    /\ pc = "resolve" => inline = <<>>
    /\ pc \in {"resolve", "partition", "ratio", "flat", "base"} => queries = <<>>
    /\ pc \notin {"resolve", "error"} => asked \cup rowFilters \subseteq base
    /\ \A x \in DOMAIN inline : Datasets(metrics[inline[x]]) \subseteq base
    /\ \A s \in DOMAIN split : metrics[split[s]].den # NoTerm
    /\ pc = "ratio" => /\ i \in DOMAIN metrics /\ metrics[i].den # NoTerm
                       /\ required = base \cup Datasets(metrics[i])
    /\ pc \in {"flat", "base"} => required = base
    /\ pc = "base" => split # <<>> /\ i = 1
    /\ pc = "flat" => split = <<>>
    /\ pc \in {"num", "den"} => i \in DOMAIN split /\ required = SideRequired(Side)

(* An inline ratio was safe for the root it was judged against               *)
Judged == \A x \in DOMAIN inline :
    metrics[inline[x]].den # NoTerm => RatioSafe(metrics[inline[x]], ownRoot[inline[x]])

(* The root of the combined query                                            *)
Combined == pc \in {"num", "den", "done"} /\ inline # <<>> =>
    /\ queries # <<>> /\ CombinedRoot \in Dataset /\ Reaches(CombinedRoot, base)
    /\ CombinedRoot \notin base => \A d \in base : ~Reaches(d, base)

(* The sides rendered so far                                                  *)
Exact(qs, t, k) == \E j \in DOMAIN qs :
    /\ qs[j].kind = k /\ qs[j].terms = {t}
    /\ \/ CountDistinct(t) \/ t.ds = {qs[j].root}
       \/ qs[j].dedup /\ t.ds \subseteq Keyed
Sides == \A s \in DOMAIN split :
    /\ pc = "done" \/ (pc \in {"num", "den"} /\ s < i) =>
         /\ Exact(queries, metrics[split[s]].num, "num")
         /\ Exact(queries, metrics[split[s]].den, "den")
    /\ pc = "den" /\ s = i => Exact(queries, metrics[split[s]].num, "num")

BuildInv == TypeBuild /\ rels \in Graphs /\ Linked /\ Judged /\ Combined /\ Sides /\ QueriesAreGoverned

IInv == TreeInv /\ BuildInv

LEMMA TermFacts ==
  ASSUME NEW m \in Metric
  PROVE  /\ m.num \in Term /\ m.den \in Term \cup {NoTerm} /\ m.num.ds \subseteq Dataset
         /\ m.den # NoTerm => m.den \in Term /\ m.den.ds \subseteq Dataset /\ Datasets(m) = m.num.ds \cup m.den.ds
         /\ m.den = NoTerm => Datasets(m) = m.num.ds
         /\ Datasets(m) \subseteq Dataset /\ TermsOf(m) \subseteq Term
         /\ \A t \in TermsOf(m) : t.ds \subseteq Datasets(m)
  <1>1. m \in MetricExpr
    BY PlannerAssumption
  <1>2. m.num \in Term /\ m.den \in Term \cup {NoTerm}
    BY <1>1 DEF MetricExpr
  <1>3. \A t \in Term : t.ds \subseteq Dataset
    BY DEF Term
  <1> QED
    BY <1>2, <1>3 DEF Datasets, TermsOf

LEMMA TreeUnchanged ==
  ASSUME TreeInv, UNCHANGED <<rels, treeVars>>
  PROVE  TreeInv'
  <1> USE DEF treeVars
  <1>1. TreeType' /\ Searching' = Searching /\ Walking' = Walking
    BY DEF TreeInv, TreeType, Searching, Walking
  <1>2. Searching => Edges' /\ Reachable'
    BY DEF TreeInv, Edges, Reachable, Closed
  <1>3. jpc = "scan" => Frontier'
    BY DEF TreeInv, Frontier
  <1>4. Walking => Needed' /\ Closed(visited)'
    BY DEF TreeInv, Needed, Closed
  <1>5. jpc \in {"collect", "found"} => Ordered'
    BY DEF TreeInv, Ordered
  <1>6. Tried'
    BY DEF TreeInv, Tried, Searching, Skipped, Reaches, Closed
  <1> QED
    BY <1>1, <1>2, <1>3, <1>4, <1>5, <1>6 DEF TreeInv

LEMMA InTreeType == ASSUME TreeInv PROVE InTree \in SUBSET Dataset
  <1>1. TreeType /\ joins \in Seq(DOMAIN rels) /\ root \in Dataset
    BY DEF TreeInv, TreeType
  <1>2. \A j \in DOMAIN joins : joins[j] \in DOMAIN rels
    BY <1>1
  <1> QED
    BY <1>1, <1>2, RelFacts DEF InTree

(* Rendering a subquery over a tree that was found                            *)
LEMMA RenderFacts ==
  ASSUME TreeInv, TypeBuild, QueriesAreGoverned, jpc = "found",
         NEW k \in {"flat", "base", "num", "den"}, NEW ts \in SUBSET Term, NEW dd \in BOOLEAN,
         Render(k, ts, dd), UNCHANGED request,
         asked \cup rowFilters \cup UNION {t.ds : t \in ts} \subseteq required,
         failure' = failure
  PROVE  /\ queries' \in Seq(Query) /\ QueriesAreGoverned'
         /\ DOMAIN queries = 1..Len(queries) /\ Len(queries) \in Nat
         /\ DOMAIN queries' = 1..(Len(queries) + 1) /\ queries' # <<>>
         /\ \A j \in 1..Len(queries) : queries'[j] = queries[j]
         /\ queries'[Len(queries) + 1] = [kind |-> k, terms |-> ts, root |-> root,
                                          tree |-> InTree, dedup |-> dd]
  <1> DEFINE q == [kind |-> k, terms |-> ts, root |-> root, tree |-> InTree, dedup |-> dd]
  <1>1. q \in Query /\ queries \in Seq(Query) /\ queries' = Append(queries, q)
    BY InTreeType DEF TreeInv, TreeType, TypeBuild, Query, Render
  <1>2. /\ queries' \in Seq(Query)
        /\ DOMAIN queries = 1..Len(queries) /\ Len(queries) \in Nat
        /\ DOMAIN queries' = 1..(Len(queries) + 1)
        /\ \A j \in 1..Len(queries) : queries'[j] = queries[j]
        /\ queries'[Len(queries) + 1] = q
    BY <1>1, AppendFacts
  <1>3. q.tree = InTree /\ q.terms = ts
    OBVIOUS
  <1>4. asked \cup rowFilters \cup UNION {t.ds : t \in q.terms} \subseteq q.tree
    BY <1>3, FoundConnects
  <1>5. \A j \in DOMAIN queries' :
          asked \cup rowFilters \cup UNION {t.ds : t \in queries'[j].terms} \subseteq queries'[j].tree
    <2> SUFFICES ASSUME NEW j \in 1..(Len(queries) + 1)
                 PROVE  asked \cup rowFilters \cup UNION {t.ds : t \in queries'[j].terms} \subseteq queries'[j].tree
      BY <1>2
    <2> HIDE DEF q
    <2>1. CASE j = Len(queries) + 1
      BY <2>1, <1>2, <1>4
    <2>2. CASE j \in 1..Len(queries)
      BY <2>2, <1>2 DEF QueriesAreGoverned
    <2> QED
      BY <2>1, <2>2, <1>2
  <1>6. QueriesAreGoverned'
    BY <1>5 DEF QueriesAreGoverned, request
  <1> QED
    BY <1>2, <1>6

-----------------------------------------------------------------------------
(* Build preserves it, action by action *)

LEMMA InitHolds == Init => IInv
  <1> SUFFICES ASSUME Init PROVE IInv
    OBVIOUS
  <1>1. DatasetOrder[1] \in Dataset /\ NoParent \in [Dataset -> Nat]
    BY OrderAssumption DEF NoParent
  <1>2. rels \in Graphs /\ rels \in Seq(Relationship)
    BY PlannerAssumption DEF Init
  <1>3. TreeType
    BY <1>1, <1>2 DEF Init, TreeInit, TreeType, JPCs
  <1>4. TreeInv
    BY <1>3 DEF Init, TreeInit, TreeInv, Tried, Searching, Walking
  <1>5. metrics \in Seq(Metric)
    BY DEF Init, BoundedSeq
  <1>6. asked \subseteq Dataset /\ rowFilters \subseteq Dataset
    BY PlannerAssumption DEF Init
  <1>7. ownRoot \in [DOMAIN metrics -> Dataset]
    BY <1>1 DEF Init, TreeInit
  <1>8. TypeBuild
    BY <1>5, <1>6, <1>7 DEF Init, TypeBuild, PCs, Failures
  <1>9. Linked /\ Judged /\ Combined /\ Sides /\ QueriesAreGoverned
    BY DEF Init, Linked, Judged, Combined, Sides, QueriesAreGoverned
  <1> QED
    BY <1>2, <1>4, <1>8, <1>9 DEF IInv, BuildInv

LEMMA ResolveKeeps == ASSUME IInv, Resolve PROVE IInv'
  <1> USE DEF Resolve, request
  <1>1. TreeInv'
    BY TreeUnchanged DEF IInv
  <1>2. TypeBuild /\ Linked /\ Judged /\ QueriesAreGoverned /\ rels \in Graphs
    BY DEF IInv, BuildInv
  <1>3. TypeBuild' /\ rels' \in Graphs
    BY <1>2 DEF TypeBuild, PCs, Failures, Fail
  <1>4. Linked'
    BY <1>2 DEF Linked, Fail
  <1>5. Judged' /\ Combined' /\ Sides' /\ QueriesAreGoverned'
    BY <1>2 DEF Judged, Combined, Sides, QueriesAreGoverned, Fail
  <1> QED
    BY <1>1, <1>3, <1>4, <1>5 DEF IInv, BuildInv

LEMMA MetricFacts ==
  ASSUME TypeBuild
  PROVE  /\ Len(metrics) \in Nat /\ DOMAIN metrics = 1..Len(metrics)
         /\ \A j \in DOMAIN metrics : metrics[j] \in Metric
         /\ Len(inline) \in Nat /\ DOMAIN inline = 1..Len(inline)
         /\ \A x \in DOMAIN inline : inline[x] \in DOMAIN metrics
         /\ Len(split) \in Nat /\ DOMAIN split = 1..Len(split)
         /\ \A s \in DOMAIN split : split[s] \in DOMAIN metrics
  BY DEF TypeBuild

(* The partition appends a metric to the inline ones                          *)
LEMMA InlineGrows ==
  ASSUME TypeBuild, Linked, i \in DOMAIN metrics, inline' = Append(inline, i),
         base \subseteq base', Datasets(metrics[i]) \subseteq base', metrics' = metrics
  PROVE  /\ inline' \in Seq(DOMAIN metrics)
         /\ \A x \in DOMAIN inline' : Datasets(metrics[inline'[x]]) \subseteq base'
         /\ \A x \in DOMAIN inline' : inline'[x] = i \/ \E y \in DOMAIN inline : inline'[x] = inline[y]
  <1>1. inline \in Seq(DOMAIN metrics)
    BY DEF TypeBuild
  <1>2. /\ inline' \in Seq(DOMAIN metrics) /\ Len(inline) \in Nat
        /\ DOMAIN inline = 1..Len(inline) /\ DOMAIN inline' = 1..(Len(inline) + 1)
        /\ \A x \in 1..Len(inline) : inline'[x] = inline[x]
        /\ inline'[Len(inline) + 1] = i
    BY <1>1, AppendFacts
  <1>3. \A x \in DOMAIN inline' : inline'[x] = i \/ \E y \in DOMAIN inline : inline'[x] = inline[y]
    <2> SUFFICES ASSUME NEW x \in 1..(Len(inline) + 1)
                 PROVE  inline'[x] = i \/ \E y \in DOMAIN inline : inline'[x] = inline[y]
      BY <1>2
    <2>1. x = Len(inline) + 1 \/ x \in 1..Len(inline)
      BY <1>2
    <2> QED
      BY <2>1, <1>2
  <1>4. \A x \in DOMAIN inline' : Datasets(metrics[inline'[x]]) \subseteq base'
    BY <1>3 DEF Linked
  <1> QED
    BY <1>2, <1>3, <1>4

LEMMA PartitionKeeps == ASSUME IInv, PartitionPlain \/ PartitionRatio PROVE IInv'
  <1>1. TypeBuild /\ Linked /\ Judged /\ QueriesAreGoverned /\ rels \in Graphs /\ TreeInv /\ TreeType
    BY DEF IInv, BuildInv, TreeInv
  <1>2. /\ i \in DOMAIN metrics /\ metrics[i] \in Metric /\ i \in Nat \ {0} /\ base \subseteq Dataset
        /\ pc = "partition"
    BY <1>1, MetricFacts DEF PartitionPlain, PartitionRatio, TypeBuild
  <1>3. CASE PartitionPlain
    <2>1. /\ inline' = Append(inline, i) /\ base' = base \cup metrics[i].num.ds /\ i' = i + 1
          /\ metrics[i].den = NoTerm
          /\ UNCHANGED <<rels, metrics, asked, rowFilters, pc, split, ownRoot, queries, failure>>
          /\ UNCHANGED <<rels, treeVars>>
      BY <1>3 DEF PartitionPlain, request
    <2>2. TreeInv'
      BY <1>1, <2>1, TreeUnchanged
    <2>3. /\ base \subseteq base' /\ base' \subseteq Dataset /\ Datasets(metrics[i]) \subseteq base'
      BY <1>2, <2>1, TermFacts
    <2>4. /\ inline' \in Seq(DOMAIN metrics)
          /\ \A x \in DOMAIN inline' : Datasets(metrics[inline'[x]]) \subseteq base'
          /\ \A x \in DOMAIN inline' : inline'[x] = i \/ \E y \in DOMAIN inline : inline'[x] = inline[y]
      BY <1>1, <1>2, <2>1, <2>3, InlineGrows
    <2>5. TypeBuild' /\ rels' \in Graphs
      BY <1>1, <1>2, <2>1, <2>3, <2>4 DEF TypeBuild
    <2>6. Linked'
      BY <1>1, <1>2, <2>1, <2>3, <2>4 DEF Linked
    <2>7. Judged'
      BY <1>1, <2>1, <2>4 DEF Judged, RatioSafe, TermSafe
    <2>8. Combined' /\ Sides' /\ QueriesAreGoverned'
      BY <1>1, <1>2, <2>1 DEF Combined, Sides, QueriesAreGoverned
    <2> QED
      BY <2>2, <2>5, <2>6, <2>7, <2>8 DEF IInv, BuildInv
  <1>4. CASE PartitionRatio
    <2>1. /\ CallJoinTree(base \cup Datasets(metrics[i])) /\ pc' = "ratio" /\ metrics[i].den # NoTerm
          /\ UNCHANGED <<rels, metrics, asked, rowFilters, i, base, inline, split, ownRoot, queries, failure>>
      BY <1>4 DEF PartitionRatio, request
    <2>2. base \cup Datasets(metrics[i]) \in SUBSET Dataset
      BY <1>2, TermFacts
    <2>3. TreeInv' /\ required' = base \cup Datasets(metrics[i])
      BY <1>1, <2>1, <2>2, CallKeeps
    <2>4. TypeBuild' /\ rels' \in Graphs
      BY <1>1, <2>1 DEF TypeBuild, PCs
    <2>5. Linked'
      BY <1>1, <1>2, <2>1, <2>3 DEF Linked, Datasets
    <2>6. Judged'
      BY <1>1, <2>1 DEF Judged, RatioSafe, TermSafe
    <2>7. Combined' /\ Sides' /\ QueriesAreGoverned'
      BY <1>1, <2>1 DEF Combined, Sides, QueriesAreGoverned
    <2> QED
      BY <2>3, <2>4, <2>5, <2>6, <2>7 DEF IInv, BuildInv
  <1> QED
    BY <1>3, <1>4

LEMMA JudgedKeeps == ASSUME IInv, RatioJudged PROVE IInv'
  <1>1. TypeBuild /\ Linked /\ Judged /\ QueriesAreGoverned /\ rels \in Graphs /\ TreeInv /\ TreeType
    BY DEF IInv, BuildInv, TreeInv
  <1>2. /\ pc = "ratio" /\ pc' = "partition" /\ i' = i + 1 /\ TreeIdle
        /\ UNCHANGED <<rels, metrics, asked, rowFilters, queries, failure>>
    BY DEF RatioJudged, request
  <1>3. /\ i \in DOMAIN metrics /\ required = base \cup Datasets(metrics[i]) /\ i \in Nat \ {0}
        /\ required \subseteq Dataset /\ root \in Dataset
    BY <1>1, <1>2 DEF Linked, TypeBuild, TreeType
  <1>4. TreeInv'
    BY <1>1, <1>2, IdleKeeps
  <1>5. Combined' /\ Sides' /\ QueriesAreGoverned'
    BY <1>1, <1>2 DEF Combined, Sides, QueriesAreGoverned
  <1>6. CASE Inline(metrics[i])
    <2>1. /\ inline' = Append(inline, i) /\ base' = required /\ split' = split
          /\ ownRoot' = [ownRoot EXCEPT ![i] = root]
          /\ RatioSafe(metrics[i], root)
      BY <1>6 DEF RatioJudged, Inline
    <2>2. /\ inline' \in Seq(DOMAIN metrics)
          /\ \A x \in DOMAIN inline' : Datasets(metrics[inline'[x]]) \subseteq base'
          /\ \A x \in DOMAIN inline' : inline'[x] = i \/ \E y \in DOMAIN inline : inline'[x] = inline[y]
      BY <1>1, <1>2, <1>3, <2>1, InlineGrows
    <2>3. TypeBuild' /\ rels' \in Graphs
      BY <1>1, <1>2, <1>3, <2>1, <2>2 DEF TypeBuild, PCs
    <2>4. Linked'
      BY <1>1, <1>2, <1>3, <2>1, <2>2 DEF Linked
    <2>5. ownRoot'[i] = root /\ \A j \in DOMAIN metrics : j # i => ownRoot'[j] = ownRoot[j]
      BY <1>1, <1>3, <2>1 DEF TypeBuild
    <2>6. ASSUME NEW x \in DOMAIN inline', metrics[inline'[x]].den # NoTerm
          PROVE  RatioSafe(metrics[inline'[x]], ownRoot'[inline'[x]])
      <3>1. CASE inline'[x] = i
        BY <3>1, <2>1, <2>5
      <3>2. CASE inline'[x] # i
        <4>1. PICK y \in DOMAIN inline : inline'[x] = inline[y]
          BY <3>2, <2>2
        <4>2. inline[y] \in DOMAIN metrics /\ ownRoot'[inline[y]] = ownRoot[inline[y]]
          BY <1>1, <3>2, <4>1, <2>5, MetricFacts
        <4> QED
          BY <1>1, <2>6, <4>1, <4>2 DEF Judged
      <3> QED
        BY <3>1, <3>2
    <2>7. Judged'
      BY <1>2, <2>6 DEF Judged, RatioSafe, TermSafe
    <2> QED
      BY <1>4, <1>5, <2>3, <2>4, <2>7 DEF IInv, BuildInv
  <1>7. CASE ~Inline(metrics[i])
    <2>1. split' = Append(split, i) /\ UNCHANGED <<inline, base, ownRoot>>
      BY <1>7 DEF RatioJudged
    <2>2. /\ split \in Seq(DOMAIN metrics) /\ metrics[i].den # NoTerm
      BY <1>1, <1>2 DEF TypeBuild, Linked
    <2>3. /\ split' \in Seq(DOMAIN metrics) /\ Len(split) \in Nat
          /\ DOMAIN split = 1..Len(split) /\ DOMAIN split' = 1..(Len(split) + 1)
          /\ \A x \in 1..Len(split) : split'[x] = split[x]
          /\ split'[Len(split) + 1] = i
      BY <1>3, <2>1, <2>2, AppendFacts
    <2>4. \A s \in DOMAIN split' : metrics[split'[s]].den # NoTerm
      <3> SUFFICES ASSUME NEW s \in 1..(Len(split) + 1) PROVE metrics[split'[s]].den # NoTerm
        BY <2>3
      <3>1. s = Len(split) + 1 \/ s \in 1..Len(split)
        BY <2>3
      <3> QED
        BY <3>1, <2>2, <2>3, <1>1 DEF Linked
    <2>5. TypeBuild' /\ rels' \in Graphs
      BY <1>1, <1>2, <1>3, <2>1, <2>3 DEF TypeBuild, PCs
    <2>6. Linked'
      BY <1>1, <1>2, <2>1, <2>4 DEF Linked, Datasets
    <2>7. Judged'
      BY <1>1, <1>2, <2>1 DEF Judged, RatioSafe, TermSafe
    <2> QED
      BY <1>4, <1>5, <2>5, <2>6, <2>7 DEF IInv, BuildInv
  <1> QED
    BY <1>6, <1>7

LEMMA SideRequiredType ==
  ASSUME TypeBuild, NEW t \in Term
  PROVE  SideRequired(t) \in SUBSET Dataset
  BY DEF TypeBuild, SideRequired, Term

LEMMA DoneKeeps == ASSUME IInv, PartitionDone PROVE IInv'
  <1>1. TypeBuild /\ Linked /\ Judged /\ QueriesAreGoverned /\ rels \in Graphs /\ TreeInv /\ TreeType
    BY DEF IInv, BuildInv, TreeInv
  <1>2. /\ pc = "partition" /\ i' = 1 /\ pc' \in {"flat", "base", "num"}
        /\ UNCHANGED <<rels, metrics, asked, rowFilters, base, inline, split, ownRoot, queries, failure>>
    BY DEF PartitionDone, request
  <1>3. TypeBuild' /\ rels' \in Graphs
    BY <1>1, <1>2 DEF TypeBuild, PCs
  <1>4. Judged' /\ QueriesAreGoverned'
    BY <1>1, <1>2 DEF Judged, RatioSafe, TermSafe, QueriesAreGoverned
  <1>5. Sides'
    BY <1>1, <1>2, MetricFacts DEF Sides
  <1>6. CASE pc' \in {"flat", "base"}
    <2>1. /\ CallJoinTree(base) /\ base \in SUBSET Dataset
          /\ (pc' = "base" => split # <<>>) /\ (pc' = "flat" => split = <<>>)
      BY <1>1, <1>6 DEF PartitionDone, TypeBuild
    <2>2. TreeInv' /\ required' = base
      BY <1>1, <1>2, <2>1, CallKeeps
    <2>3. Linked' /\ Combined'
      BY <1>1, <1>2, <1>6, <2>1, <2>2 DEF Linked, Combined, Datasets
    <2> QED
      BY <1>3, <1>4, <1>5, <2>2, <2>3 DEF IInv, BuildInv
  <1>7. CASE pc' = "num"
    <2> DEFINE t == metrics[split[1]].num
    <2>1. CallJoinTree(SideRequired(t)) /\ split # <<>> /\ inline = <<>>
      BY <1>7 DEF PartitionDone
    <2>2. 1 \in DOMAIN split /\ t \in Term
      BY <1>1, <2>1, MetricFacts, TermFacts DEF TypeBuild
    <2>3. TreeInv' /\ required' = SideRequired(t)
      BY <1>1, <1>2, <2>1, <2>2, CallKeeps, SideRequiredType
    <2>4. SideRequired(Side)' = SideRequired(t)
      BY <1>2, <1>7 DEF SideRequired, Side
    <2>5. Linked' /\ Combined'
      BY <1>1, <1>2, <1>7, <2>1, <2>2, <2>3, <2>4 DEF Linked, Combined, Datasets
    <2> QED
      BY <1>3, <1>4, <1>5, <2>3, <2>5 DEF IInv, BuildInv
  <1> QED
    BY <1>2, <1>6, <1>7

(* Every subquery asks for the whole policy, so the tree holds it             *)
LEMMA PolicyInTree ==
  ASSUME IInv, pc \in {"flat", "base", "num", "den"}
  PROVE  /\ asked \cup rowFilters \subseteq required
         /\ jpc = "found" => rowFilters \subseteq InTree
  <1>1. asked \cup rowFilters \subseteq required
    BY DEF IInv, BuildInv, Linked, SideRequired
  <1> QED
    BY <1>1, FoundConnects DEF IInv

LEMMA ErrorKeeps ==
  ASSUME IInv, pc' = "error", failure' \in Failures \ {"internal"}, TreeIdle, UNCHANGED request,
         UNCHANGED <<i, base, inline, split, ownRoot, queries>>
  PROVE  IInv'
  <1>1. TypeBuild /\ Linked /\ Judged /\ QueriesAreGoverned /\ rels \in Graphs /\ TreeInv /\ TreeType
    BY DEF IInv, BuildInv, TreeInv
  <1>2. UNCHANGED <<rels, metrics, asked, rowFilters>>
    BY DEF request
  <1>3. TreeInv'
    BY <1>1, <1>2, IdleKeeps
  <1>4. TypeBuild' /\ rels' \in Graphs
    BY <1>1, <1>2 DEF TypeBuild, PCs
  <1>5. Linked' /\ Combined' /\ Sides'
    BY <1>1, <1>2 DEF Linked, Combined, Sides, Datasets
  <1>6. Judged' /\ QueriesAreGoverned'
    BY <1>1, <1>2 DEF Judged, RatioSafe, TermSafe, QueriesAreGoverned
  <1> QED
    BY <1>3, <1>4, <1>5, <1>6 DEF IInv, BuildInv

LEMMA NoTreeFails ==
  ASSUME IInv, pc \in {"flat", "base", "num", "den"}, NoTree
  PROVE  pc' = "error" /\ failure' \in Failures \ {"internal"}
  BY PolicyInTree DEF NoTree, Fail, Failures

LEMMA InlineTermsFacts ==
  ASSUME TypeBuild, Linked
  PROVE  InlineTerms \subseteq Term /\ UNION {t.ds : t \in InlineTerms} \subseteq base
  <1>1. ASSUME NEW t \in InlineTerms PROVE t \in Term /\ t.ds \subseteq base
    <2>1. PICK x \in DOMAIN inline : t \in TermsOf(metrics[inline[x]])
      BY DEF InlineTerms
    <2>2. metrics[inline[x]] \in Metric
      BY MetricFacts
    <2> QED
      BY <2>1, <2>2, TermFacts DEF Linked
  <1> QED
    BY <1>1

(* The root of a tree for base is the root of the combined query              *)
LEMMA CombinedRendered ==
  ASSUME IInv, jpc = "found", required = base, queries = <<>>,
         NEW k \in {"flat", "base"}, Render(k, InlineTerms, FALSE), rels' = rels, base' = base
  PROVE  Combined'
  <1>1. queries'[1].root = root /\ queries' # <<>>
    BY DEF Render
  <1>2. root \in Dataset /\ Reaches(root, base)
    BY FoundReaches DEF IInv, TreeInv, TreeType
  <1>3. root \notin base => \A d \in base : ~Reaches(d, base)
    BY FoundIsDirect DEF IInv, NoDetour
  <1> QED
    BY <1>1, <1>2, <1>3 DEF Combined, CombinedRoot, Reaches, Closed

LEMMA FlatKeeps == ASSUME IInv, FlatQuery PROVE IInv'
  <1>1. TypeBuild /\ Linked /\ Judged /\ QueriesAreGoverned /\ rels \in Graphs /\ TreeInv /\ TreeType
    BY DEF IInv, BuildInv, TreeInv
  <1>2. /\ pc = "flat" /\ TreeIdle
        /\ UNCHANGED <<rels, metrics, asked, rowFilters, i, base, inline, split, ownRoot>>
        /\ UNCHANGED request
    BY DEF FlatQuery, request
  <1>3. CASE NoTree /\ UNCHANGED queries
    BY <1>2, <1>3, NoTreeFails, ErrorKeeps
  <1>4. CASE HaveTree /\ Render("flat", InlineTerms, FALSE) /\ pc' = "done" /\ UNCHANGED failure
    <2>1. jpc = "found" /\ required = base /\ queries = <<>> /\ split = <<>>
      BY <1>1, <1>2, <1>4 DEF Linked, HaveTree
    <2>2. asked \cup rowFilters \cup UNION {t.ds : t \in InlineTerms} \subseteq required
      BY <1>1, <1>2, <2>1, InlineTermsFacts, PolicyInTree
    <2>3. queries' \in Seq(Query) /\ QueriesAreGoverned'
      BY <1>1, <1>2, <1>4, <2>1, <2>2, InlineTermsFacts, RenderFacts
    <2>4. Combined'
      BY <1>2, <1>4, <2>1, CombinedRendered
    <2>5. TreeInv'
      BY <1>1, <1>2, IdleKeeps
    <2>6. TypeBuild' /\ rels' \in Graphs
      BY <1>1, <1>2, <1>4, <2>3 DEF TypeBuild, PCs
    <2>7. Linked' /\ Sides'
      BY <1>1, <1>2, <1>4, <2>1 DEF Linked, Sides, Datasets
    <2>8. Judged'
      BY <1>1, <1>2 DEF Judged, RatioSafe, TermSafe
    <2> QED
      BY <2>3, <2>4, <2>5, <2>6, <2>7, <2>8 DEF IInv, BuildInv
  <1> QED
    BY <1>3, <1>4 DEF FlatQuery

LEMMA BaseKeeps == ASSUME IInv, BaseQuery PROVE IInv'
  <1>1. TypeBuild /\ Linked /\ Judged /\ QueriesAreGoverned /\ rels \in Graphs /\ TreeInv /\ TreeType
    BY DEF IInv, BuildInv, TreeInv
  <1>2. /\ pc = "base"
        /\ UNCHANGED <<rels, metrics, asked, rowFilters, i, base, inline, split, ownRoot>>
        /\ UNCHANGED request
    BY DEF BaseQuery, request
  <1>3. CASE NoTree /\ TreeIdle /\ UNCHANGED queries
    BY <1>2, <1>3, NoTreeFails, ErrorKeeps
  <1>4. CASE /\ HaveTree /\ Render("base", InlineTerms, FALSE)
             /\ CallJoinTree(SideRequired(metrics[split[1]].num))
             /\ pc' = "num" /\ UNCHANGED failure
    <2> DEFINE t == metrics[split[1]].num
    <2>1. jpc = "found" /\ required = base /\ queries = <<>> /\ split # <<>> /\ i = 1
      BY <1>1, <1>2, <1>4 DEF Linked, HaveTree
    <2>2. asked \cup rowFilters \cup UNION {u.ds : u \in InlineTerms} \subseteq required
      BY <1>1, <1>2, <2>1, InlineTermsFacts, PolicyInTree
    <2>3. queries' \in Seq(Query) /\ QueriesAreGoverned'
      BY <1>1, <1>2, <1>4, <2>1, <2>2, InlineTermsFacts, RenderFacts
    <2>4. Combined'
      BY <1>2, <1>4, <2>1, CombinedRendered
    <2>5. 1 \in DOMAIN split /\ t \in Term
      BY <1>1, <2>1, MetricFacts, TermFacts DEF TypeBuild
    <2>6. TreeInv' /\ required' = SideRequired(t)
      BY <1>1, <1>2, <1>4, <2>5, CallKeeps, SideRequiredType
    <2>7. TypeBuild' /\ rels' \in Graphs
      BY <1>1, <1>2, <1>4, <2>3 DEF TypeBuild, PCs
    <2>8. SideRequired(Side)' = SideRequired(t)
      BY <1>2, <1>4, <2>1 DEF SideRequired, Side
    <2>9. Linked'
      BY <1>1, <1>2, <1>4, <2>1, <2>5, <2>6, <2>8 DEF Linked, Datasets
    <2>10. Sides'
      BY <1>1, <1>2, <1>4, <2>1, MetricFacts DEF Sides
    <2>11. Judged'
      BY <1>1, <1>2 DEF Judged, RatioSafe, TermSafe
    <2> QED
      BY <2>3, <2>4, <2>6, <2>7, <2>9, <2>10, <2>11 DEF IInv, BuildInv
  <1> QED
    BY <1>3, <1>4 DEF BaseQuery

(* Rendering one side of a split ratio                                        *)
LEMMA SideRendered ==
  ASSUME IInv, pc \in {"num", "den"}, HaveTree, SideSafe(Side) \/ Dedup(Side),
         Render(pc, {Side}, Dedup(Side)), UNCHANGED failure, UNCHANGED request,
         UNCHANGED <<base, inline, split, ownRoot>>
  PROVE  /\ queries' \in Seq(Query) /\ QueriesAreGoverned'
         /\ inline # <<>> => queries' # <<>> /\ queries'[1] = queries[1] /\ queries # <<>>
         /\ \A j \in DOMAIN queries : j \in DOMAIN queries' /\ queries'[j] = queries[j]
         /\ Exact(queries', Side, pc)
  <1>1. TypeBuild /\ Linked /\ QueriesAreGoverned /\ TreeInv /\ Combined
    BY DEF IInv, BuildInv
  <1>2. i \in DOMAIN split /\ required = SideRequired(Side) /\ metrics[split[i]].den # NoTerm
    BY <1>1 DEF Linked
  <1>3. Side \in Term
    BY <1>1, <1>2, MetricFacts, TermFacts DEF Side
  <1>4. asked \cup rowFilters \cup UNION {t.ds : t \in {Side}} \subseteq required
    BY <1>2 DEF SideRequired
  <1>5. Dedup(Side) \in BOOLEAN /\ {Side} \in SUBSET Term
    BY <1>3 DEF Dedup, SideSafe
  <1>6. jpc = "found"
    BY DEF HaveTree
  <1>7. /\ queries' \in Seq(Query) /\ QueriesAreGoverned'
        /\ DOMAIN queries = 1..Len(queries) /\ Len(queries) \in Nat
        /\ DOMAIN queries' = 1..(Len(queries) + 1) /\ queries' # <<>>
        /\ \A j \in 1..Len(queries) : queries'[j] = queries[j]
        /\ queries'[Len(queries) + 1] = [kind |-> pc, terms |-> {Side}, root |-> root,
                                         tree |-> InTree, dedup |-> Dedup(Side)]
    BY <1>1, <1>4, <1>5, <1>6, RenderFacts
  <1>8. inline # <<>> => queries # <<>> /\ 1 \in DOMAIN queries
    BY <1>1, <1>7 DEF Combined, TypeBuild
  <1>9. CountDistinct(Side) \/ Side.ds = {root} \/ (Dedup(Side) /\ Side.ds \subseteq Keyed)
    BY DEF SideSafe, Dedup
  <1>10. Exact(queries', Side, pc)
    BY <1>7, <1>9 DEF Exact
  <1> QED
    BY <1>7, <1>8, <1>10

LEMMA ExactKept ==
  ASSUME NEW qs, NEW rs, NEW t, NEW k, \A j \in DOMAIN qs : j \in DOMAIN rs /\ rs[j] = qs[j],
         Exact(qs, t, k)
  PROVE  Exact(rs, t, k)
  BY DEF Exact

LEMMA SideKeeps == ASSUME IInv, SideQuery PROVE IInv'
  <1>1. /\ TypeBuild /\ Linked /\ Judged /\ QueriesAreGoverned /\ rels \in Graphs
        /\ TreeInv /\ TreeType /\ Combined /\ Sides
    BY DEF IInv, BuildInv, TreeInv
  <1>2. /\ pc \in {"num", "den"}
        /\ UNCHANGED <<rels, metrics, asked, rowFilters, base, inline, split, ownRoot>>
        /\ UNCHANGED request
    BY DEF SideQuery, request
  <1>3. i \in DOMAIN split /\ i \in Nat /\ DOMAIN split = 1..Len(split) /\ Len(split) \in Nat
    BY <1>1, <1>2, MetricFacts DEF Linked
  <1>4. CASE NoTree /\ TreeIdle /\ UNCHANGED <<i, queries>>
    BY <1>2, <1>4, NoTreeFails, ErrorKeeps
  <1>5. CASE HaveTree /\ CannotDedup(Side) /\ TreeIdle /\ UNCHANGED <<i, queries>>
    <2>1. pc' = "error" /\ failure' \in Failures \ {"internal"}
      BY <1>5 DEF CannotDedup, Fail, Failures
    <2> QED
      BY <1>2, <1>5, <2>1, ErrorKeeps
  <1>6. CASE /\ HaveTree /\ (SideSafe(Side) \/ Dedup(Side))
             /\ Render(pc, {Side}, Dedup(Side)) /\ NextSide /\ UNCHANGED failure
    <2>1. /\ queries' \in Seq(Query) /\ QueriesAreGoverned'
          /\ inline # <<>> => queries' # <<>> /\ queries'[1] = queries[1] /\ queries # <<>>
          /\ \A j \in DOMAIN queries : j \in DOMAIN queries' /\ queries'[j] = queries[j]
          /\ Exact(queries', Side, pc)
      BY <1>2, <1>6, SideRendered
    <2>2. /\ pc' \in {"num", "den", "done"} /\ i' \in Nat \ {0}
          /\ pc' = "num" => pc = "den" /\ i' = i + 1 /\ i' \in DOMAIN split
          /\ pc' = "den" => pc = "num" /\ i' = i
          /\ pc' = "done" => pc = "den" /\ i' = i /\ i = Len(split)
      BY <1>3, <1>6 DEF NextSide
    <2>3. Combined'
      BY <1>1, <1>2, <2>1, <2>2 DEF Combined, CombinedRoot, Reaches, Closed
    <2>4. TypeBuild' /\ rels' \in Graphs
      BY <1>1, <1>2, <1>6, <2>1, <2>2 DEF TypeBuild, PCs
    <2>5. Judged'
      BY <1>1, <1>2 DEF Judged, RatioSafe, TermSafe
    <2>6. \A t, k : Exact(queries, t, k) => Exact(queries', t, k)
      BY <2>1, ExactKept
    <2>7. ASSUME NEW s \in DOMAIN split
          PROVE  /\ pc' = "done" \/ (pc' \in {"num", "den"} /\ s < i') =>
                      /\ Exact(queries', metrics[split[s]].num, "num")
                      /\ Exact(queries', metrics[split[s]].den, "den")
                 /\ pc' = "den" /\ s = i' => Exact(queries', metrics[split[s]].num, "num")
      <3>1. CASE pc = "num"
        <4>1. Exact(queries', metrics[split[i]].num, "num")
          BY <3>1, <2>1 DEF Side
        <4>2. pc' = "den" /\ i' = i
          BY <3>1, <2>2
        <4> QED
          BY <3>1, <4>1, <4>2, <2>6, <1>1, <1>3 DEF Sides
      <3>2. CASE pc = "den"
        <4>1. Exact(queries', metrics[split[i]].den, "den")
          BY <3>2, <2>1 DEF Side
        <4>2. Exact(queries', metrics[split[i]].num, "num")
          BY <3>2, <2>6, <1>1, <1>3 DEF Sides
        <4>3. s < i => /\ Exact(queries', metrics[split[s]].num, "num")
                       /\ Exact(queries', metrics[split[s]].den, "den")
          BY <3>2, <2>6, <1>1 DEF Sides
        <4>4. (pc' = "done" \/ (pc' = "num" /\ s < i')) => s < i \/ s = i
          BY <3>2, <2>2, <1>3
        <4>5. pc' # "den"
          BY <3>2, <2>2
        <4> QED
          BY <4>1, <4>2, <4>3, <4>4, <4>5
      <3> QED
        BY <1>2, <3>1, <3>2
    <2>8. Sides'
      BY <1>2, <2>7 DEF Sides
    <2>9. CASE pc' = "done"
      <3>1. TreeIdle
        BY <1>6, <2>9 DEF NextSide
      <3>2. TreeInv'
        BY <1>1, <1>2, <3>1, IdleKeeps
      <3>3. Linked'
        BY <1>1, <1>2, <2>9 DEF Linked, Datasets
      <3> QED
        BY <2>1, <2>3, <2>4, <2>5, <2>8, <3>2, <3>3 DEF IInv, BuildInv
    <2>10. CASE pc' \in {"num", "den"}
      <3> DEFINE t == IF pc' = "num" THEN metrics[split[i']].num ELSE metrics[split[i']].den
      <3>1. CallJoinTree(SideRequired(t)) /\ i' \in DOMAIN split
        BY <1>3, <1>6, <2>2, <2>10 DEF NextSide
      <3>2. t \in Term
        BY <1>1, <3>1, MetricFacts, TermFacts DEF Linked
      <3>3. TreeInv' /\ required' = SideRequired(t)
        BY <1>1, <1>2, <3>1, <3>2, CallKeeps, SideRequiredType
      <3>4. SideRequired(Side)' = SideRequired(t)
        BY <1>2 DEF SideRequired, Side
      <3> HIDE DEF t
      <3>5. Linked'
        BY <1>1, <1>2, <2>10, <3>1, <3>3, <3>4 DEF Linked, Datasets
      <3> QED
        BY <2>1, <2>3, <2>4, <2>5, <2>8, <3>3, <3>5 DEF IInv, BuildInv
    <2> QED
      BY <2>2, <2>9, <2>10
  <1> QED
    BY <1>4, <1>5, <1>6 DEF SideQuery

LEMMA TreeRunsKeeps == ASSUME IInv, JoinTreeRuns PROVE IInv'
  <1>1. TreeStep /\ UNCHANGED <<rels, metrics, asked, rowFilters, pc, i, base, inline, split,
                                ownRoot, queries, failure>>
    BY DEF JoinTreeRuns, request, build
  <1>2. TreeInv'
    BY <1>1, TreeKeeps DEF IInv
  <1>3. required' = required
    BY <1>1 DEF TreeStep, TryRoot, SkipRoot, NoRoot, Discover, NextInQueue, SearchDone, WalkFrom,
                WalkUp, WalkDone, Collect, CollectDone
  <1>4. TypeBuild' /\ rels' \in Graphs
    BY <1>1 DEF IInv, BuildInv, TypeBuild
  <1>5. Linked'
    BY <1>1, <1>3 DEF IInv, BuildInv, Linked, Datasets, SideRequired, Side
  <1>6. Judged' /\ Combined' /\ Sides' /\ QueriesAreGoverned'
    BY <1>1 DEF IInv, BuildInv, Judged, RatioSafe, TermSafe, Combined, CombinedRoot, Reaches, Closed,
                Sides, QueriesAreGoverned
  <1> QED
    BY <1>2, <1>4, <1>5, <1>6 DEF IInv, BuildInv

LEMMA StutterKeeps == ASSUME IInv, UNCHANGED vars PROVE IInv'
  <1>1. UNCHANGED <<rels, metrics, asked, rowFilters, pc, i, base, inline, split, ownRoot, queries,
                    failure, required>>
    BY DEF vars, request, build, treeVars
  <1>2. TreeInv'
    BY TreeUnchanged DEF IInv, vars, request
  <1>3. TypeBuild' /\ rels' \in Graphs /\ Linked'
    BY <1>1 DEF IInv, BuildInv, TypeBuild, Linked, Datasets, SideRequired, Side
  <1>4. Judged' /\ Combined' /\ Sides' /\ QueriesAreGoverned'
    BY <1>1 DEF IInv, BuildInv, Judged, RatioSafe, TermSafe, Combined, CombinedRoot, Reaches, Closed,
                Sides, QueriesAreGoverned
  <1> QED
    BY <1>2, <1>3, <1>4 DEF IInv, BuildInv

LEMMA NextHolds == IInv /\ [Next]_vars => IInv'
  BY ResolveKeeps, PartitionKeeps, JudgedKeeps, DoneKeeps, FlatKeeps, BaseKeeps, SideKeeps,
     TreeRunsKeeps, StutterKeeps DEF Next, Terminated

LEMMA Inductive == Spec => []IInv
  BY InitHolds, NextHolds, PTL DEF Spec

-----------------------------------------------------------------------------
(* What the invariant says of the statement *)

(* A root that reaches everything, and has an aggregate's rows, is the only   *)
(* one, so that the combined query has it too                                 *)
LEMMA TermStaysSafe ==
  ASSUME IInv, pc = "done", inline # <<>>, NEW r \in Dataset, Reaches(r, base),
         NEW t \in Term, t.ds \subseteq base, TermSafe(t, r)
  PROVE  TermSafe(t, CombinedRoot)
  <1>1. CASE CountDistinct(t) \/ t.ds = {}
    BY <1>1 DEF TermSafe
  <1>2. CASE t.ds # {} /\ t.ds \subseteq {r}
    <2>1. r \in base
      BY <1>2
    <2>2. CombinedRoot \in base /\ Reaches(CombinedRoot, base)
      BY <2>1 DEF IInv, BuildInv, Combined
    <2>3. TreeType /\ Acyclic(rels) /\ base \in SUBSET Dataset
      BY PlannerAssumption DEF IInv, TreeInv, BuildInv, TypeBuild
    <2>4. CombinedRoot = r
      BY <2>1, <2>2, <2>3, NoMutualReach
    <2> QED
      BY <2>4
  <1> QED
    BY <1>1, <1>2 DEF TermSafe

LEMMA InlineStaysSafe == IInv => SafeUnlessOutgrown
  <1> SUFFICES ASSUME IInv, pc = "done", NEW j \in InlineRatios, Reaches(ownRoot[j], base)
               PROVE  RatioSafe(metrics[j], CombinedRoot)
    BY DEF SafeUnlessOutgrown
  <1>1. PICK x \in DOMAIN inline : j = inline[x] /\ metrics[j].den # NoTerm
    BY DEF InlineRatios
  <1>2. TypeBuild /\ Linked /\ Judged
    BY DEF IInv, BuildInv
  <1>3. j \in DOMAIN metrics /\ metrics[j] \in Metric /\ inline # <<>>
    BY <1>1, <1>2, MetricFacts
  <1>4. ownRoot[j] \in Dataset
    BY <1>2, <1>3 DEF TypeBuild
  <1>5. RatioSafe(metrics[j], ownRoot[j]) /\ Datasets(metrics[j]) \subseteq base
    BY <1>1, <1>2 DEF Judged, Linked
  <1>6. /\ metrics[j].num \in Term /\ metrics[j].num.ds \subseteq base
        /\ metrics[j].den \in Term /\ metrics[j].den.ds \subseteq base
    BY <1>1, <1>3, <1>5, TermFacts
  <1>7. TermSafe(metrics[j].num, CombinedRoot)
    BY <1>3, <1>4, <1>5, <1>6, TermStaysSafe DEF RatioSafe
  <1>8. TermSafe(metrics[j].den, CombinedRoot)
    BY <1>3, <1>4, <1>5, <1>6, TermStaysSafe DEF RatioSafe
  <1> QED
    BY <1>7, <1>8 DEF RatioSafe

LEMMA DoneIsComplete == IInv => SplitsAreComplete
  <1> SUFFICES ASSUME IInv, pc = "done", NEW s \in DOMAIN split
               PROVE  /\ Exact(queries, metrics[split[s]].num, "num")
                      /\ Exact(queries, metrics[split[s]].den, "den")
    BY DEF SplitsAreComplete, Exact
  <1> QED
    BY DEF IInv, BuildInv, Sides

LEMMA WellTyped == IInv => TypeOK
  <1> SUFFICES ASSUME IInv PROVE TypeOK
    OBVIOUS
  <1>1. jpc = "walk" => cur \in visited
    BY DEF IInv, TreeInv, Walking, Needed
  <1>2. TypeTree
    BY <1>1 DEF IInv, TreeInv, TreeType, TypeTree
  <1> QED
    BY <1>2 DEF IInv, BuildInv, TypeOK

-----------------------------------------------------------------------------
(* Every variable of Build, joinTree and reach keeps its type; in particular  *)
(* reach follows parents only from datasets it has visited.                   *)
THEOREM TypeCorrect == Spec => []TypeOK
  BY Inductive, WellTyped, PTL

(* Whatever the join graph, the joins that joinTree returns can be written in *)
(* the order of fromClause: each hangs on a table before it, no alias occurs  *)
(* twice, and every required dataset is joined.                               *)
THEOREM JoinsAreConnected == Spec => []JoinsConnect
  <1>1. IInv => JoinsConnect
    BY FoundIsConnected DEF IInv
  <1> QED
    BY Inductive, <1>1, PTL

(* joinTree takes a root nobody asked for only when no required dataset        *)
(* reaches the others, and joins no dataset that leads nowhere.                *)
THEOREM NoDetours == Spec => []NoDetour
  <1>1. IInv => NoDetour
    BY FoundIsDirect DEF IInv
  <1> QED
    BY Inductive, <1>1, PTL

(* joinTree reports that no join path exists only when no dataset of the model *)
(* reaches all the required ones: the breadth-first search of reach misses     *)
(* none.                                                                       *)
THEOREM NoPathOnlyWhenNone == Spec => []NoPathIsReal
  <1>1. IInv => NoPathIsReal
    BY NoneIsReal DEF IInv
  <1> QED
    BY Inductive, <1>1, PTL

(* Every subquery that Build renders joins the datasets of all row filters,    *)
(* and whereClauses never meets its internal error.                            *)
THEOREM AlwaysGoverned == Spec => []QueriesAreGoverned
  <1>1. IInv => QueriesAreGoverned
    BY DEF IInv, BuildInv
  <1> QED
    BY Inductive, <1>1, PTL

(* compositeQuery renders both sides of every split ratio, each free of        *)
(* fan-out or deduplicated on a declared key.                                  *)
THEOREM SplitsComplete == Spec => []SplitsAreComplete
  BY Inductive, DoneIsComplete, PTL

(* The one way an inline ratio can come to fan out in the combined query is a  *)
(* later metric whose dataset the ratio's own root does not reach.             *)
THEOREM SafeUnlessRootMoved == Spec => []SafeUnlessOutgrown
  BY Inductive, InlineStaysSafe, PTL
=============================================================================
