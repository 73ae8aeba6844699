-------------------------- MODULE ModelStoreProofs --------------------------
(***************************************************************************)
(* Proofs about ModelStore: type correctness, that a caught-up store       *)
(* serves the latest of every decodable artifact, and that Service.Resolve *)
(* never guesses, for any ConfigMaps, names and models, any number of      *)
(* writes and of broken watches.                                           *)
(***************************************************************************)
EXTENDS ModelStore, FiniteSetTheorems, TLAPS

(* The inductive invariant behind ServesLatest: what is under way to the    *)
(* indexer, and to the store, ends in what is there.                        *)

\* What a queue of changes has to say of a ConfigMap: nothing, or the last of
\* the changes that name it is among G.
Silent(q, r) == \A i \in DOMAIN q : q[i].cm # r
LastWord(q, i, r) == q[i].cm = r /\ \A j \in DOMAIN q : j > i => q[j].cm # r
Ends(q, r, G) == \A i \in DOMAIN q : LastWord(q, i, r) => q[i] \in G

\* The last event under way, or else the indexer, has the ConfigMap as it is.
AsItIs(r) == {e \in Event : e.blob = cms[r]}
StreamInv(r) ==
    watching => /\ Silent(stream, r) => indexer[r] = cms[r]
                /\ Ends(stream, r, AsItIs(r))

\* The last notice under way, or else the store, has the model the indexer has.
AsIndexed(r) == {n \in Notice : n.kind = "set" /\ n.blob = indexer[r]}
NoticeInv(r) ==
    indexer[r] \in Model => /\ Silent(notices, r) => store[r] = indexer[r]
                            /\ Ends(notices, r, AsIndexed(r))

\* What the running call has seen of the store.
CallInv ==
    /\ pc \in {"get", "ambiguous"} =>
          want # None /\ Cardinality(ByName(store, want)) \in publishers
    /\ pc \in {"single", "list"} => want = None
    /\ pc # "idle" => reply = None

SyncInv ==
    /\ ~watching => stream = <<>>
    /\ \A r \in Resource : StreamInv(r) /\ NoticeInv(r)

IInv == TypeOK /\ SyncInv /\ CallInv /\ AnswersHeld
-----------------------------------------------------------------------------
(* Queues and listings *)

\* SetToSeq lists every element of a finite set.
LEMMA Listing ==
    ASSUME NEW S, IsFiniteSet(S)
    PROVE  /\ SetToSeq(S) \in Seq(S)
           /\ \A x \in S : \E i \in DOMAIN SetToSeq(S) : SetToSeq(S)[i] = x
<1> DEFINE n == Cardinality(S)
<1>1. n \in Nat /\ ExistsBijection(1 .. n, S)
  BY FS_CardinalityType
<1> HIDE DEF n
<1>2. \E f \in [1 .. n -> S] : IsInjective(f)
  BY <1>1 DEF ExistsBijection, Bijection, Injection
<1>3. SetToSeq(S) \in [1 .. n -> S] /\ IsInjective(SetToSeq(S))
  BY <1>2 DEF SetToSeq, n
<1> DEFINE f == SetToSeq(S)
<1> HIDE DEF f
<1>4. f \in Injection(1 .. n, S)
  BY <1>3 DEF Injection, f
<1>5. Cardinality(1 .. n) = n
  BY <1>1, FS_Interval
<1>6. f \in Surjection(1 .. n, S)
  BY <1>4, <1>5, FS_Injection DEF n
<1>7. f \in Seq(S) /\ DOMAIN f = 1 .. n
  BY <1>1, <1>3 DEF f
<1> QED
  BY <1>6, <1>7 DEF Surjection, f

\* What a queue says once a change has joined it.
LEMMA Joined ==
    ASSUME NEW S, NEW q \in Seq(S), NEW e \in S, NEW r, NEW G
    PROVE  /\ Append(q, e) \in Seq(S)
           /\ Silent(Append(q, e), r) => Silent(q, r) /\ e.cm # r
           /\ e.cm = r /\ e \in G => Ends(Append(q, e), r, G)
           /\ e.cm # r /\ Ends(q, r, G) => Ends(Append(q, e), r, G)
<1> DEFINE a == Append(q, e)
<1>1. /\ a \in Seq(S) /\ DOMAIN q = 1 .. Len(q) /\ DOMAIN a = 1 .. Len(q) + 1 /\ Len(q) \in Nat
      /\ a[Len(q) + 1] = e /\ \A i \in 1 .. Len(q) : a[i] = q[i]
  OBVIOUS
<1> HIDE DEF a
<1>2. Silent(a, r) => Silent(q, r) /\ e.cm # r
  BY <1>1 DEF Silent
<1>3. ASSUME NEW i \in DOMAIN a, LastWord(a, i, r)
      PROVE  \/ e.cm = r /\ a[i] = e
             \/ e.cm # r /\ i \in DOMAIN q /\ LastWord(q, i, r) /\ a[i] = q[i]
  <2>1. CASE i = Len(q) + 1
    BY <1>1, <1>3, <2>1 DEF LastWord
  <2>2. CASE i \in 1 .. Len(q)
    <3>1. e.cm # r
      BY <1>1, <1>3, <2>2 DEF LastWord
    <3>2. LastWord(q, i, r)
      BY <1>1, <1>3, <2>2 DEF LastWord
    <3> QED
      BY <1>1, <2>2, <3>1, <3>2
  <2> QED
    BY <1>1, <2>1, <2>2
<1> QED
  BY <1>1, <1>2, <1>3 DEF Ends, a

\* What a queue says once its first change is taken.
LEMMA Taken ==
    ASSUME NEW S, NEW q \in Seq(S), q # <<>>, NEW r, NEW G
    PROVE  /\ Head(q) \in S /\ Tail(q) \in Seq(S)
           /\ Silent(Tail(q), r) /\ Head(q).cm # r => Silent(q, r)
           /\ Silent(Tail(q), r) /\ Head(q).cm = r /\ Ends(q, r, G) => Head(q) \in G
           /\ Ends(q, r, G) => Ends(Tail(q), r, G)
<1> DEFINE t == Tail(q)
<1>1. /\ t \in Seq(S) /\ Head(q) \in S /\ Head(q) = q[1] /\ Len(q) \in Nat \ {0}
      /\ DOMAIN q = 1 .. Len(q) /\ DOMAIN t = 1 .. Len(q) - 1
      /\ \A i \in 1 .. Len(q) - 1 : t[i] = q[i + 1]
  OBVIOUS
<1> HIDE DEF t
<1>2. \A j \in 2 .. Len(q) : q[j] = t[j - 1] /\ j - 1 \in DOMAIN t
  BY <1>1
<1>3. Silent(t, r) => \A j \in 2 .. Len(q) : q[j].cm # r
  BY <1>2 DEF Silent
<1>4. Silent(t, r) /\ Head(q).cm # r => Silent(q, r)
  BY <1>1, <1>3 DEF Silent
<1>5. Silent(t, r) /\ Head(q).cm = r => 1 \in DOMAIN q /\ LastWord(q, 1, r) /\ q[1] = Head(q)
  BY <1>1, <1>3 DEF LastWord
<1>6. ASSUME NEW i \in DOMAIN t, LastWord(t, i, r)
      PROVE  i + 1 \in DOMAIN q /\ LastWord(q, i + 1, r) /\ t[i] = q[i + 1]
  <2>1. i + 1 \in DOMAIN q /\ t[i] = q[i + 1]
    BY <1>1
  <2>2. ASSUME NEW j \in DOMAIN q, j > i + 1 PROVE q[j].cm # r
    <3>1. j - 1 \in DOMAIN t /\ j - 1 > i /\ q[j] = t[j - 1]
      BY <1>1, <2>2
    <3> QED
      BY <1>6, <3>1 DEF LastWord
  <2> QED
    BY <1>6, <2>1, <2>2 DEF LastWord
<1> QED
  BY <1>1, <1>4, <1>5, <1>6 DEF Ends, t

\* What a queue says of a ConfigMap once changes that name it, and then others
\* that do not, have joined it.
LEMMA JoinedAll ==
    ASSUME NEW T, NEW q \in Seq(T), NEW a \in Seq(T), NEW b \in Seq(T), NEW r, NEW G,
           \E i \in DOMAIN a : a[i].cm = r, \A i \in DOMAIN b : b[i].cm # r,
           \A i \in DOMAIN a : a[i].cm = r => a[i] \in G
    PROVE  /\ q \o a \o b \in Seq(T)
           /\ ~Silent(q \o a \o b, r) /\ Ends(q \o a \o b, r, G)
<1> DEFINE all == q \o a \o b
<1>1. /\ all \in Seq(T) /\ DOMAIN all = 1 .. Len(q) + Len(a) + Len(b)
      /\ DOMAIN a = 1 .. Len(a) /\ DOMAIN b = 1 .. Len(b)
      /\ Len(q) \in Nat /\ Len(a) \in Nat /\ Len(b) \in Nat
  OBVIOUS
<1>2. \A j \in 1 .. Len(a) : all[Len(q) + j] = a[j]
  OBVIOUS
<1>3. \A j \in 1 .. Len(b) : all[Len(q) + Len(a) + j] = b[j]
  OBVIOUS
<1> HIDE DEF all
<1>4. PICK k \in 1 .. Len(a) : a[k].cm = r
  BY <1>1
<1>5. Len(q) + k \in DOMAIN all /\ all[Len(q) + k].cm = r
  BY <1>1, <1>2, <1>4
<1>6. ASSUME NEW i \in DOMAIN all, LastWord(all, i, r)
      PROVE  all[i] \in G
  <2>1. all[i].cm = r /\ ~(Len(q) + k > i)
    BY <1>5, <1>6 DEF LastWord
  <2>2. CASE i <= Len(q) + Len(a)
    <3>1. i - Len(q) \in 1 .. Len(a) /\ all[i] = a[i - Len(q)]
      BY <1>1, <1>2, <2>1, <2>2
    <3> QED
      BY <1>1, <2>1, <3>1
  <2>3. CASE i > Len(q) + Len(a)
    <3>1. i - Len(q) - Len(a) \in 1 .. Len(b) /\ all[i] = b[i - Len(q) - Len(a)]
      BY <1>1, <1>3, <2>1, <2>3
    <3> QED
      BY <1>1, <2>1, <3>1
  <2> QED
    BY <1>1, <2>1, <2>2, <2>3
<1> QED
  BY <1>1, <1>5, <1>6 DEF Silent, Ends, all
-----------------------------------------------------------------------------
(* The informer *)

USE StoreAssumption

LEMMA InitIInv == Init => IInv
<1> SUFFICES ASSUME Init PROVE IInv
  OBVIOUS
<1>1. /\ Absent \in [Resource -> Blob] /\ Absent \in [Resource -> Model \cup {None}]
      /\ <<>> \in Seq(Event) /\ <<>> \in Seq(Notice)
      /\ 0 \in 0 .. MaxWrites /\ 0 \in 0 .. MaxBreaks
  BY DEF Absent, Blob
<1>2. TypeOK
  BY <1>1 DEF Init, TypeOK, Blob
<1>3. SyncInv
  BY DEF Init, SyncInv, StreamInv, NoticeInv, Absent
<1>4. CallInv /\ AnswersHeld
  BY DEF Init, CallInv, AnswersHeld
<1> QED
  BY <1>2, <1>3, <1>4 DEF IInv

\* A step that leaves the store and the call alone keeps what the call has seen.
LEMMA CallAside ==
    ASSUME IInv, UNCHANGED <<store, call>>
    PROVE  CallInv' /\ AnswersHeld'
BY DEF IInv, CallInv, AnswersHeld, ByName, call

\* A ConfigMap is written or deleted (Write).
LEMMA WriteInv ==
    ASSUME IInv, NEW x \in Resource, NEW blob \in Model \cup {Garbage, None}, Write(x, blob)
    PROVE  IInv'
<1> DEFINE e == [cm |-> x, blob |-> blob]
<1>1. /\ cms' = [cms EXCEPT ![x] = blob] /\ writes < MaxWrites /\ writes' = writes + 1
      /\ stream' = IF watching THEN Append(stream, e) ELSE stream
      /\ UNCHANGED <<watching, breaks, listed, indexer, notices, store, synced, call>>
  BY DEF Write, informer
<1>2. e \in Event /\ e.cm = x /\ e.blob = blob /\ blob \in Blob
  BY DEF Event, Blob
<1> HIDE DEF e
<1>3. TypeOK'
  <2>1. writes' \in 0 .. MaxWrites
    BY <1>1 DEF IInv, TypeOK
  <2>2. stream' \in Seq(Event) /\ cms' \in [Resource -> Blob]
    BY <1>1, <1>2 DEF IInv, TypeOK
  <2> QED
    BY <1>1, <2>1, <2>2 DEF IInv, TypeOK, call
<1>4. ASSUME NEW r \in Resource PROVE StreamInv(r)'
  <2>1. CASE watching
    <3> DEFINE G == AsItIs(r)'
    <3>1. stream' = Append(stream, e) /\ stream \in Seq(Event)
      BY <1>1, <2>1 DEF IInv, TypeOK
    <3>2. cms'[x] = blob /\ (r # x => cms'[r] = cms[r]) /\ indexer' = indexer
      BY <1>1 DEF IInv, TypeOK
    <3>3. StreamInv(r)
      BY DEF IInv, SyncInv
    <3>4. Silent(stream', r) => indexer'[r] = cms'[r]
      BY <1>2, <2>1, <3>1, <3>2, <3>3, Joined DEF StreamInv
    <3>5. r = x => e \in G
      BY <1>2, <3>2 DEF AsItIs
    <3>6. r # x => Ends(stream, r, G)
      BY <2>1, <3>2, <3>3 DEF StreamInv, AsItIs
    <3> HIDE DEF G
    <3>7. Ends(stream', r, G)
      BY <1>2, <3>1, <3>5, <3>6, Joined
    <3> QED
      BY <3>4, <3>7 DEF StreamInv, G
  <2>2. CASE ~watching
    BY <1>1, <2>2 DEF StreamInv
  <2> QED
    BY <2>1, <2>2
<1>5. ASSUME NEW r \in Resource PROVE NoticeInv(r)'
  BY <1>1 DEF IInv, SyncInv, NoticeInv, AsIndexed
<1> QED
  BY <1>1, <1>3, <1>4, <1>5, CallAside DEF IInv, SyncInv

\* A watch breaks and its events are lost (WatchBreaks).
LEMMA WatchBreaksInv == IInv /\ WatchBreaks => IInv'
<1> SUFFICES ASSUME IInv, WatchBreaks PROVE IInv'
  OBVIOUS
<1>1. /\ watching' = FALSE /\ stream' = <<>> /\ breaks' = breaks + 1 /\ breaks < MaxBreaks
      /\ UNCHANGED <<cms, writes, listed, indexer, notices, store, synced, call>>
  BY DEF WatchBreaks, informer
<1>2. breaks' \in 0 .. MaxBreaks /\ <<>> \in Seq(Event)
  BY <1>1 DEF IInv, TypeOK
<1>3. TypeOK'
  BY <1>1, <1>2 DEF IInv, TypeOK, call
<1>4. SyncInv'
  BY <1>1 DEF IInv, SyncInv, StreamInv, NoticeInv, AsIndexed
<1> QED
  BY <1>1, <1>3, <1>4, CallAside DEF IInv

\* One event goes through the indexer (Observe).
LEMMA ObserveInv == IInv /\ Observe => IInv'
<1> SUFFICES ASSUME IInv, Observe PROVE IInv'
  OBVIOUS
<1> DEFINE e == Head(stream)
           n == [kind |-> IF e.blob = None THEN "delete" ELSE "set", cm |-> e.cm, blob |-> e.blob]
<1>1. /\ stream # <<>> /\ stream' = Tail(stream)
      /\ indexer' = [indexer EXCEPT ![e.cm] = e.blob] /\ notices' = Append(notices, n)
      /\ UNCHANGED <<cms, watching, writes, breaks, listed, store, synced, call>>
  BY DEF Observe
<1>2. /\ stream \in Seq(Event) /\ notices \in Seq(Notice) /\ indexer \in [Resource -> Blob]
  BY DEF IInv, TypeOK
<1>3. e \in Event /\ Tail(stream) \in Seq(Event)
  BY <1>1, <1>2, Taken
<1>4. /\ n \in Notice /\ n.cm = e.cm /\ n.blob = e.blob /\ (e.blob \in Model => n.kind = "set")
      /\ e.cm \in Resource /\ e.blob \in Blob
  BY <1>3 DEF Event, Notice
<1> HIDE DEF n
<1>5. notices' \in Seq(Notice)
  BY <1>1, <1>2, <1>4, Joined
<1>6. /\ indexer'[e.cm] = e.blob /\ indexer' \in [Resource -> Blob]
      /\ \A r \in Resource : r # e.cm => indexer'[r] = indexer[r]
  BY <1>1, <1>2, <1>4
<1>7. TypeOK'
  BY <1>1, <1>3, <1>5, <1>6 DEF IInv, TypeOK, call
<1>8. ASSUME NEW r \in Resource PROVE StreamInv(r)'
  <2> DEFINE G == AsItIs(r)
  <2>1. watching => (Silent(stream, r) => indexer[r] = cms[r]) /\ Ends(stream, r, G)
    BY DEF IInv, SyncInv, StreamInv
  <2>2. e \in G => e.blob = cms[r]
    BY DEF AsItIs
  <2>3. G' = G
    BY <1>1 DEF AsItIs
  <2> HIDE DEF G
  <2>4. watching => Ends(stream', r, G)
    BY <1>1, <1>2, <2>1, Taken
  <2>5. watching /\ Silent(stream', r) => indexer'[r] = cms[r]
    <3>1. CASE e.cm = r
      BY <1>1, <1>2, <1>6, <2>1, <2>2, <3>1, Taken
    <3>2. CASE e.cm # r
      BY <1>1, <1>2, <1>6, <2>1, <3>2, Taken
    <3> QED
      BY <3>1, <3>2
  <2> QED
    BY <1>1, <2>3, <2>4, <2>5 DEF StreamInv, G
<1>9. ASSUME NEW r \in Resource PROVE NoticeInv(r)'
  <2> SUFFICES ASSUME indexer'[r] \in Model
               PROVE  /\ Silent(notices', r) => store'[r] = indexer'[r]
                      /\ Ends(notices', r, AsIndexed(r)')
    BY DEF NoticeInv
  <2> DEFINE G == AsIndexed(r)'
  <2>1. CASE e.cm = r
    <3>1. n \in G
      BY <1>4, <1>6, <2>1 DEF AsIndexed
    <3> HIDE DEF G
    <3>2. ~Silent(notices', r) /\ Ends(notices', r, G)
      BY <1>1, <1>2, <1>4, <2>1, <3>1, Joined
    <3> QED
      BY <3>2 DEF G
  <2>2. CASE e.cm # r
    <3>1. indexer'[r] = indexer[r] /\ store' = store
      BY <1>1, <1>6, <2>2
    <3>2. (Silent(notices, r) => store[r] = indexer[r]) /\ Ends(notices, r, G)
      BY <3>1 DEF IInv, SyncInv, NoticeInv, AsIndexed
    <3> HIDE DEF G
    <3>3. /\ Silent(notices', r) => Silent(notices, r)
          /\ Ends(notices', r, G)
      BY <1>1, <1>2, <1>4, <2>2, <3>2, Joined
    <3> QED
      BY <3>1, <3>2, <3>3 DEF G
  <2> QED
    BY <2>1, <2>2
<1> QED
  BY <1>1, <1>7, <1>8, <1>9, CallAside DEF IInv, SyncInv

\* A function on 1 .. n is a sequence.
LEMMA IsSequence ==
    ASSUME NEW T, NEW n \in Nat, NEW f \in [1 .. n -> T]
    PROVE  f \in Seq(T)
OBVIOUS

\* A listing of the indexer, or of the API server, reports each ConfigMap that
\* is there, as it is.
LEMMA ReportedMeans ==
    ASSUME NEW there \in [Resource -> Blob]
    PROVE  /\ Reported(there) \in Seq(Notice)
           /\ \A i \in DOMAIN Reported(there) :
                 /\ Reported(there)[i].kind = "set"
                 /\ Reported(there)[i].blob = there[Reported(there)[i].cm]
           /\ \A r \in Resource : there[r] # None =>
                 \E i \in DOMAIN Reported(there) : Reported(there)[i].cm = r
<1> DEFINE S == {r \in Resource : there[r] # None}
           q == Listed(there)
           n == Len(q)
           Said(i) == [kind |-> "set", cm |-> q[i], blob |-> there[q[i]]]
           a == [i \in DOMAIN q |-> Said(i)]
<1>1. IsFiniteSet(S)
  BY FS_Subset
<1>2. q \in Seq(S) /\ \A x \in S : \E i \in DOMAIN q : q[i] = x
  BY <1>1, Listing DEF Listed
<1> HIDE DEF q
<1>3. n \in Nat /\ DOMAIN q = 1 .. n /\ \A i \in DOMAIN q : q[i] \in Resource
  BY <1>2
<1> HIDE DEF n
<1>4. \A i \in DOMAIN q :
         Said(i) \in Notice /\ Said(i).kind = "set" /\ Said(i).cm = q[i] /\ Said(i).blob = there[q[i]]
  BY <1>3 DEF Notice
<1> HIDE DEF Said
<1>5. a \in [1 .. n -> Notice] /\ \A i \in 1 .. n : a[i] = Said(i)
  BY <1>3, <1>4
<1>6. a = Reported(there)
  BY DEF Reported, q, Said
<1> HIDE DEF a
<1>7. a \in Seq(Notice)
  BY <1>3, <1>5, IsSequence
<1>8. DOMAIN a = 1 .. n
  BY <1>5
<1>9. ASSUME NEW r \in Resource, there[r] # None PROVE \E i \in DOMAIN a : a[i].cm = r
  <2>1. PICK i \in DOMAIN q : q[i] = r
    BY <1>2, <1>9
  <2>2. i \in DOMAIN a /\ a[i].cm = r
    BY <1>3, <1>4, <1>5, <1>8, <2>1
  <2> QED
    BY <2>2
<1>10. \A i \in DOMAIN a : a[i].kind = "set" /\ a[i].blob = there[a[i].cm]
  BY <1>3, <1>4, <1>5, <1>8
<1> QED
  BY <1>6, <1>7, <1>9, <1>10

\* What has gone is reported, and nothing else (Tombstones).
LEMMA TombstonesMean ==
    ASSUME indexer \in [Resource -> Blob]
    PROVE  /\ Tombstones \in Seq(Notice)
           /\ \A i \in DOMAIN Tombstones : cms[Tombstones[i].cm] = None
<1> DEFINE S == {r \in Resource : cms[r] = None /\ indexer[r] # None}
           n == Len(Gone)
           Said(i) == [kind |-> "tombstone", cm |-> Gone[i], blob |-> indexer[Gone[i]]]
           b == [i \in DOMAIN Gone |-> Said(i)]
<1>1. IsFiniteSet(S)
  BY FS_Subset
<1>2. Gone \in Seq(S)
  BY <1>1, Listing DEF Gone
<1>3. n \in Nat /\ DOMAIN Gone = 1 .. n /\ \A i \in DOMAIN Gone : Gone[i] \in S
  BY <1>2
<1> HIDE DEF n
<1>4. \A i \in DOMAIN Gone : Said(i) \in Notice /\ Said(i).cm = Gone[i]
  BY <1>3 DEF Notice
<1> HIDE DEF Said
<1>5. b \in [1 .. n -> Notice] /\ \A i \in 1 .. n : b[i] = Said(i)
  BY <1>3, <1>4
<1>6. b = Tombstones
  BY DEF Tombstones, Said
<1> HIDE DEF b
<1>7. b \in Seq(Notice)
  BY <1>3, <1>5, IsSequence
<1>8. DOMAIN b = 1 .. n
  BY <1>5
<1>9. \A i \in DOMAIN b : cms[b[i].cm] = None
  BY <1>3, <1>4, <1>5, <1>8
<1> QED
  BY <1>6, <1>7, <1>9

\* The list replaces the indexer and reports the difference (Relist).
LEMMA RelistInv == IInv /\ Relist => IInv'
<1> SUFFICES ASSUME IInv, Relist PROVE IInv'
  OBVIOUS
<1> DEFINE a == Reported(cms)
           b == Tombstones
<1>1. /\ ~watching /\ watching' = TRUE /\ listed' = TRUE /\ indexer' = cms
      /\ notices' = notices \o a \o b
      /\ UNCHANGED <<cms, stream, writes, breaks, store, synced, call>>
  BY DEF Relist
<1>2. cms \in [Resource -> Blob] /\ indexer \in [Resource -> Blob] /\ notices \in Seq(Notice)
  BY DEF IInv, TypeOK
<1>3. /\ a \in Seq(Notice)
      /\ \A i \in DOMAIN a : a[i].kind = "set" /\ a[i].blob = cms[a[i].cm]
      /\ \A r \in Resource : cms[r] # None => \E i \in DOMAIN a : a[i].cm = r
  BY <1>2, ReportedMeans
<1>4. b \in Seq(Notice) /\ \A i \in DOMAIN b : cms[b[i].cm] = None
  BY <1>2, TombstonesMean
<1> HIDE DEF a, b
<1>5. notices' \in Seq(Notice)
  BY <1>1, <1>2, <1>3, <1>4
<1>6. TypeOK'
  BY <1>1, <1>2, <1>5 DEF IInv, TypeOK, call
<1>7. ASSUME NEW r \in Resource PROVE NoticeInv(r)'
  <2> SUFFICES ASSUME cms[r] \in Model
               PROVE  /\ Silent(notices', r) => store'[r] = cms[r]
                      /\ Ends(notices', r, AsIndexed(r)')
    BY <1>1 DEF NoticeInv
  <2> DEFINE G == AsIndexed(r)'
  <2>1. cms[r] # None
    OBVIOUS
  <2>2. \A i \in DOMAIN a : a[i] \in Notice
    BY <1>3
  <2>3. \A i \in DOMAIN a : a[i].cm = r => a[i] \in G
    BY <1>1, <1>3, <2>2 DEF AsIndexed
  <2> HIDE DEF G
  <2>4. ~Silent(notices', r) /\ Ends(notices', r, G)
    <3>1. \E i \in DOMAIN a : a[i].cm = r
      BY <1>3, <2>1
    <3>2. \A i \in DOMAIN b : b[i].cm # r
      BY <1>4, <2>1
    <3> QED
      BY <1>1, <1>2, <1>3, <1>4, <2>3, <3>1, <3>2, JoinedAll
  <2> QED
    BY <2>4 DEF G
<1>8. ASSUME NEW r \in Resource PROVE StreamInv(r)'
  <2>1. stream' = <<>>
    BY <1>1 DEF IInv, SyncInv
  <2> QED
    BY <1>1, <2>1 DEF StreamInv, Ends
<1> QED
  BY <1>1, <1>6, <1>7, <1>8, CallAside DEF IInv, SyncInv

\* The indexer is reported again (Resync).
LEMMA ResyncInv == IInv /\ Resync => IInv'
<1> SUFFICES ASSUME IInv, Resync PROVE IInv'
  OBVIOUS
<1> DEFINE a == Reported(indexer)
<1>1. /\ notices' = a
      /\ UNCHANGED <<cms, stream, watching, writes, breaks, listed, indexer, store, synced, call>>
  BY DEF Resync, api
<1>2. indexer \in [Resource -> Blob]
  BY DEF IInv, TypeOK
<1>3. /\ a \in Seq(Notice)
      /\ \A i \in DOMAIN a : a[i].kind = "set" /\ a[i].blob = indexer[a[i].cm]
      /\ \A r \in Resource : indexer[r] # None => \E i \in DOMAIN a : a[i].cm = r
  BY <1>2, ReportedMeans
<1> HIDE DEF a
<1>4. TypeOK'
  BY <1>1, <1>3 DEF IInv, TypeOK, call
<1>5. ASSUME NEW r \in Resource PROVE NoticeInv(r)'
  <2> SUFFICES ASSUME indexer[r] \in Model
               PROVE  ~Silent(a, r) /\ Ends(a, r, AsIndexed(r)')
    BY <1>1 DEF NoticeInv
  <2>1. ~Silent(a, r)
    BY <1>3 DEF Silent
  <2>2. \A i \in DOMAIN a : a[i] \in Notice
    BY <1>3
  <2>3. \A i \in DOMAIN a : a[i].cm = r => a[i] \in AsIndexed(r)'
    BY <1>1, <1>3, <2>2 DEF AsIndexed
  <2> QED
    BY <2>1, <2>3 DEF Ends, LastWord
<1>6. (~watching' => stream' = <<>>) /\ \A r \in Resource : StreamInv(r)'
  BY <1>1 DEF IInv, SyncInv, StreamInv, AsItIs
<1> QED
  BY <1>1, <1>4, <1>5, <1>6, CallAside DEF IInv, SyncInv
-----------------------------------------------------------------------------
(* The event handlers and the running call *)

\* There are finitely many publishers of a name.
LEMMA Publishers ==
    ASSUME NEW s, NEW n
    PROVE  /\ IsFiniteSet(ByName(s, n)) /\ Cardinality(ByName(s, n)) \in Nat
           /\ \A r : ByName(s, n) = {r} => Cardinality(ByName(s, n)) = 1
<1>1. ByName(s, n) \in SUBSET Resource
  BY DEF ByName
<1>2. IsFiniteSet(ByName(s, n))
  BY <1>1, FS_Subset
<1> QED
  BY <1>2, FS_CardinalityType, FS_Singleton

\* The call has seen every store that was there while it ran (SetStore).
LEMMA StoreSeen ==
    ASSUME IInv, NEW s, SetStore(s), UNCHANGED <<pc, want, visible, reply>>
    PROVE  CallInv' /\ AnswersHeld' /\ publishers' \subseteq Nat
<1>1. publishers \subseteq publishers'
  BY DEF SetStore
<1>2. publishers' \subseteq Nat
  BY Publishers DEF SetStore, IInv, TypeOK
<1>3. CallInv'
  BY <1>1 DEF SetStore, IInv, CallInv, ByName
<1>4. AnswersHeld'
  BY <1>1 DEF IInv, AnswersHeld
<1> QED
  BY <1>2, <1>3, <1>4

\* A notice reaches the store (HandleNotice).
LEMMA HandleNoticeInv == IInv /\ HandleNotice => IInv'
<1> SUFFICES ASSUME IInv, HandleNotice PROVE IInv'
  OBVIOUS
<1> DEFINE n == Head(notices)
           s == IF n.kind = "set" /\ Ingests(n) THEN [store EXCEPT ![n.cm] = n.blob]
                ELSE IF Removes(n) THEN [store EXCEPT ![n.cm] = None]
                ELSE store
<1>1. /\ notices # <<>> /\ notices' = Tail(notices) /\ SetStore(s)
      /\ UNCHANGED <<api, listed, indexer, synced, pc, want, visible, reply>>
  BY DEF HandleNotice
<1>2. /\ notices \in Seq(Notice) /\ store \in [Resource -> Model \cup {None}]
      /\ indexer \in [Resource -> Blob]
  BY DEF IInv, TypeOK
<1>3. n \in Notice /\ notices' \in Seq(Notice)
  BY <1>1, <1>2, Taken
<1> HIDE DEF n
<1>4. /\ n.cm \in Resource
      /\ n.kind = "set" /\ n.blob \in Model => s = [store EXCEPT ![n.cm] = n.blob]
      /\ s \in [Resource -> Model \cup {None}]
      /\ \A r \in Resource : r # n.cm => s[r] = store[r]
  BY <1>2, <1>3 DEF Notice, Ingests, Removes
<1> HIDE DEF s
<1>5. store' = s
  BY <1>1 DEF SetStore
<1>6. CallInv' /\ AnswersHeld' /\ publishers' \subseteq Nat
  BY <1>1, StoreSeen
<1>7. TypeOK'
  BY <1>1, <1>3, <1>4, <1>5, <1>6 DEF IInv, TypeOK, api
<1>8. ASSUME NEW r \in Resource PROVE NoticeInv(r)'
  <2> SUFFICES ASSUME indexer[r] \in Model
               PROVE  /\ Silent(notices', r) => s[r] = indexer[r]
                      /\ Ends(notices', r, AsIndexed(r)')
    BY <1>1, <1>5 DEF NoticeInv
  <2> DEFINE G == AsIndexed(r)
  <2>1. (Silent(notices, r) => store[r] = indexer[r]) /\ Ends(notices, r, G)
    BY DEF IInv, SyncInv, NoticeInv
  <2>2. n \in G => n.kind = "set" /\ n.blob = indexer[r]
    BY DEF AsIndexed
  <2>3. G' = G
    BY <1>1 DEF AsIndexed
  <2> HIDE DEF G
  <2>4. Ends(notices', r, G)
    BY <1>1, <1>2, <2>1, Taken
  <2>5. CASE n.cm = r
    <3>1. Silent(notices', r) => n \in G
      BY <1>1, <1>2, <2>1, <2>5, Taken DEF n
    <3>2. n \in G => s[r] = indexer[r]
      BY <1>2, <1>4, <2>2, <2>5
    <3> QED
      BY <2>3, <2>4, <3>1, <3>2 DEF G
  <2>6. CASE n.cm # r
    <3>1. Silent(notices', r) => Silent(notices, r)
      BY <1>1, <1>2, <2>6, Taken DEF n
    <3> QED
      BY <1>4, <2>1, <2>3, <2>4, <2>6, <3>1 DEF G
  <2> QED
    BY <2>5, <2>6
<1>9. (~watching' => stream' = <<>>) /\ \A r \in Resource : StreamInv(r)'
  BY <1>1 DEF IInv, SyncInv, StreamInv, AsItIs, api
<1> QED
  BY <1>6, <1>7, <1>8, <1>9 DEF IInv, SyncInv

\* What the watch has delivered depends on these five alone.
LEMMA SyncKept ==
    ASSUME SyncInv, UNCHANGED <<cms, stream, watching, indexer, notices, store>>
    PROVE  SyncInv'
<1>1. ASSUME NEW r \in Resource PROVE StreamInv(r)' /\ NoticeInv(r)'
  <2>1. StreamInv(r) /\ NoticeInv(r)
    BY DEF SyncInv
  <2>2. AsItIs(r)' = AsItIs(r) /\ AsIndexed(r)' = AsIndexed(r)
    BY DEF AsItIs, AsIndexed
  <2>3. StreamInv(r)'
    BY <2>1, <2>2 DEF StreamInv
  <2>4. NoticeInv(r)'
    BY <2>1, <2>2 DEF NoticeInv
  <2> QED
    BY <2>3, <2>4
<1> QED
  BY <1>1 DEF SyncInv

\* The call's own steps leave the rest alone.
LEMMA SyncAside ==
    ASSUME IInv, UNCHANGED <<api, informer, store, synced>>, pc' \in {"idle", "single", "list", "get", "ambiguous"},
           want' \in Name \cup {None}, visible' \subseteq Name, reply' \in Reply \cup {None},
           publishers' \subseteq Nat
    PROVE  TypeOK' /\ SyncInv'
<1>1. UNCHANGED <<cms, stream, watching, writes, breaks, listed, indexer, notices, store>>
  BY DEF api, informer
<1>2. TypeOK'
  BY <1>1 DEF IInv, TypeOK
<1>3. SyncInv'
  BY <1>1, SyncKept DEF IInv
<1> QED
  BY <1>2, <1>3

\* Service.Resolve begins (Ask).
LEMMA AskInv ==
    ASSUME IInv, NEW n \in Name \cup {None}, Ask(n)
    PROVE  IInv'
<1>1. TypeOK' /\ SyncInv'
  BY SyncAside, Publishers DEF Ask
<1>2. CallInv' /\ AnswersHeld'
  BY DEF Ask, CallInv, AnswersHeld, ByName
<1> QED
  BY <1>1, <1>2 DEF IInv

\* No name was given (Single, ListVisible).
LEMMA UnnamedInv == IInv /\ (Single \/ ListVisible) => IInv'
<1> SUFFICES ASSUME IInv, Single \/ ListVisible PROVE IInv'
  OBVIOUS
<1>1. /\ UNCHANGED <<api, informer, store, synced>>
      /\ visible \subseteq Name /\ want = None /\ reply \in Reply \cup {None}
      /\ publishers \subseteq Nat /\ store \in [Resource -> Model \cup {None}]
  BY DEF Single, ListVisible, StoreUnchanged, IInv, TypeOK, CallInv
<1>2. CASE Single
  <2>1. /\ want' = want /\ visible' = visible /\ publishers' = publishers
        /\ \/ \E r \in Resource : store[r] # None /\ Answer([kind |-> "model", model |-> store[r]])
           \/ pc' = "list" /\ reply' = reply
    BY <1>2 DEF Single
  <2>2. pc' \in {"idle", "list"} /\ reply' \in Reply \cup {None}
    <3>1. \A r \in Resource : store[r] # None => [kind |-> "model", model |-> store[r]] \in Reply
      BY <1>1 DEF Reply
    <3> QED
      BY <1>1, <2>1, <3>1 DEF Answer
  <2>3. CallInv' /\ AnswersHeld'
    BY <1>1, <1>2, <2>1, <2>2 DEF IInv, CallInv, AnswersHeld, Answer, Single
  <2> QED
    BY <1>1, <2>1, <2>2, <2>3, SyncAside DEF IInv
<1>3. CASE ListVisible
  <2>1. visible' \subseteq Name
    <3>1. Found(store) \cap Accessible \subseteq Model
      BY DEF Found
    <3> QED
      BY <1>3, <3>1 DEF ListVisible
  <2>2. \/ \E n \in Name : /\ want' = n /\ pc' = "get" /\ reply' = reply
                           /\ publishers' = {Cardinality(ByName(store, n))}
        \/ Answer([kind |-> "name required"]) /\ want' = want /\ publishers' = publishers
    BY <1>3, <2>1 DEF ListVisible
  <2>3. CASE \E n \in Name : /\ want' = n /\ pc' = "get" /\ reply' = reply
                             /\ publishers' = {Cardinality(ByName(store, n))}
    <3>1. TypeOK' /\ SyncInv'
      BY <1>1, <2>1, <2>3, Publishers, SyncAside
    <3>2. CallInv' /\ AnswersHeld'
      BY <1>1, <1>3, <2>3 DEF IInv, CallInv, AnswersHeld, ByName, ListVisible
    <3> QED
      BY <3>1, <3>2 DEF IInv
  <2>4. CASE Answer([kind |-> "name required"]) /\ want' = want /\ publishers' = publishers
    <3>1. [kind |-> "name required"] \in Reply
      BY DEF Reply
    <3>2. TypeOK' /\ SyncInv'
      BY <1>1, <2>1, <2>4, <3>1, SyncAside DEF Answer
    <3>3. CallInv' /\ AnswersHeld'
      BY <1>1, <2>4 DEF CallInv, AnswersHeld, Answer
    <3> QED
      BY <3>2, <3>3 DEF IInv
  <2> QED
    BY <2>2, <2>3, <2>4
<1> QED
  BY <1>2, <1>3

\* The name is looked up, and the failure explained (Get, Ambiguous): what is
\* answered is what the store held at that step.
LEMMA NamedInv == IInv /\ (Get \/ Ambiguous) => IInv'
<1> SUFFICES ASSUME IInv, Get \/ Ambiguous PROVE IInv'
  OBVIOUS
<1>1. /\ UNCHANGED <<api, informer, store, synced, want, visible, publishers>>
      /\ visible \subseteq Name /\ want \in Name \cup {None} /\ want # None /\ reply = None
      /\ publishers \subseteq Nat /\ store \in [Resource -> Model \cup {None}]
      /\ Cardinality(ByName(store, want)) \in publishers
  BY DEF Get, Ambiguous, StoreUnchanged, IInv, TypeOK, CallInv
<1>2. CASE Get
  <2>1. CASE GetUnique(store, want)
    <3>1. PICK r \in ByName(store, want) :
            ByName(store, want) = {r} /\ Answer([kind |-> "model", model |-> store[r]])
      BY <2>1 DEF GetUnique
    <3>2. 1 \in publishers
      BY <1>1, <3>1, Publishers
    <3>3. store[r] \in Model
      BY <1>1 DEF ByName
    <3>4. [kind |-> "model", model |-> store[r]] \in Reply
      BY <3>3 DEF Reply
    <3>5. TypeOK' /\ SyncInv'
      BY <1>1, <3>1, <3>4, SyncAside DEF Answer
    <3>6. CallInv' /\ AnswersHeld'
      BY <1>1, <3>1, <3>2 DEF CallInv, AnswersHeld, Answer
    <3> QED
      BY <3>5, <3>6 DEF IInv
  <2>2. CASE pc' = "ambiguous" /\ UNCHANGED reply
    <3>1. TypeOK' /\ SyncInv'
      BY <1>1, <2>2, SyncAside
    <3>2. CallInv' /\ AnswersHeld'
      BY <1>1, <2>2 DEF CallInv, AnswersHeld, ByName
    <3> QED
      BY <3>1, <3>2 DEF IInv
  <2> QED
    BY <1>2, <2>1, <2>2 DEF Get
<1>3. CASE Ambiguous
  <2>1. PICK k \in {"ambiguous", "unknown", "name required"} :
          /\ Answer([kind |-> k])
          /\ k = "ambiguous" => Cardinality(ByName(store, want)) > 1
    BY <1>3 DEF Ambiguous
  <2>2. [kind |-> k] \in Reply
    BY DEF Reply
  <2>3. TypeOK' /\ SyncInv'
    BY <1>1, <2>1, <2>2, SyncAside DEF Answer
  <2>4. CallInv' /\ AnswersHeld'
    BY <1>1, <2>1 DEF CallInv, AnswersHeld, Answer
  <2> QED
    BY <2>3, <2>4 DEF IInv
<1> QED
  BY <1>2, <1>3

\* Every step keeps the invariant.
LEMMA StepInv == IInv /\ [Next]_vars => IInv'
<1> SUFFICES ASSUME IInv, [Next]_vars PROVE IInv'
  OBVIOUS
<1>1. ASSUME NEW r \in Resource, NEW blob \in Model \cup {Garbage, None}, Write(r, blob)
      PROVE  IInv'
  BY <1>1, WriteInv
<1>2. CASE WatchBreaks \/ Relist \/ Observe \/ Resync \/ HandleNotice
  BY <1>2, WatchBreaksInv, RelistInv, ObserveInv, ResyncInv, HandleNoticeInv
<1>3. CASE MarkSynced
  <2>1. TypeOK'
    BY <1>3 DEF MarkSynced, IInv, TypeOK, api, informer, call
  <2>2. SyncInv'
    BY <1>3, SyncKept DEF MarkSynced, IInv, api, informer
  <2> QED
    BY <1>3, <2>1, <2>2, CallAside DEF IInv, MarkSynced
<1>4. ASSUME NEW n \in Name \cup {None}, Ask(n) PROVE IInv'
  BY <1>4, AskInv
<1>5. CASE Single \/ ListVisible \/ Get \/ Ambiguous
  BY <1>5, UnnamedInv, NamedInv
<1>6. CASE UNCHANGED vars
  <2>1. TypeOK'
    BY <1>6 DEF vars, IInv, TypeOK, api, informer, call
  <2>2. SyncInv'
    BY <1>6, SyncKept DEF vars, IInv, api, informer
  <2> QED
    BY <1>6, <2>1, <2>2, CallAside DEF IInv, vars
<1> QED
  BY <1>1, <1>2, <1>3, <1>4, <1>5, <1>6 DEF Next

\* The inductive invariant holds in every reachable state.
THEOREM Inductive == Spec => []IInv
BY InitIInv, StepInv, PTL DEF Spec

\* Every variable keeps its type: the store holds compiled models only (ingest).
THEOREM TypeCorrect == Spec => []TypeOK
<1>1. IInv => TypeOK
  BY DEF IInv
<1> QED
  BY <1>1, Inductive, PTL

\* Whatever watches broke and events were lost, a caught-up store serves every
\* decodable artifact at its latest version (WatchConfigMaps, ingest).
THEOREM LatestServed == Spec => []ServesLatest
<1>1. IInv => ServesLatest
  <2> SUFFICES ASSUME IInv, CaughtUp, NEW r \in Resource, cms[r] \in Model
               PROVE  store[r] = cms[r]
    BY DEF ServesLatest
  <2>1. indexer[r] = cms[r]
    BY DEF IInv, SyncInv, StreamInv, CaughtUp, Silent
  <2> QED
    BY <2>1 DEF IInv, SyncInv, NoticeInv, CaughtUp, Silent
<1> QED
  BY <1>1, Inductive, PTL

\* Service.Resolve never guesses: a model it returns for a name was the name's
\* only publication, and "ambiguous" was true, at some moment of the call.
THEOREM NeverGuesses == Spec => []AnswersHeld
<1>1. IInv => AnswersHeld
  BY DEF IInv
<1> QED
  BY <1>1, Inductive, PTL
=============================================================================
