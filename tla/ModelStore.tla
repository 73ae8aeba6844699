----------------------------- MODULE ModelStore -----------------------------
(***************************************************************************)
(* The server's compiled-model store and the ConfigMap informer that fills *)
(* it (internal/serving/store.go), with the lookups of Service.Resolve.    *)
(*                                                                         *)
(* The informer is client-go's: a watch stream feeds its indexer, and each *)
(* change is handed to the event handlers through a queue of its own, so   *)
(* the store runs behind the indexer.  When a watch breaks, the events in  *)
(* flight are lost and the relist reports an object that has gone in the   *)
(* meantime as a DeletedFinalStateUnknown tombstone.                       *)
(***************************************************************************)
EXTENDS Naturals, Sequences, FiniteSets, SequencesExt

CONSTANTS
    Resource,     \* names of the operator's ConfigMaps
    Name,         \* Ossie model names
    Model,        \* compiled models
    NameOf,       \* [Model -> Name]
    Accessible,   \* models whose governance lets the caller in
    Garbage,      \* ConfigMap data with no decodable compiled model
    None,         \* nothing there
    MaxWrites,    \* bound on writes and deletions of ConfigMaps
    MaxBreaks     \* bound on broken watches

ASSUME StoreAssumption ==
    /\ NameOf \in [Model -> Name] /\ Accessible \subseteq Model
    /\ Garbage \notin Model /\ None \notin Model \cup {Garbage} \cup Name
    /\ IsFiniteSet(Resource) /\ MaxWrites \in Nat /\ MaxBreaks \in Nat

VARIABLES
    cms,        \* the ConfigMaps in the API server
    stream,     \* watch events under way to the informer
    watching,   \* the watch is up
    listed,     \* the initial list has been through the indexer
    indexer,    \* the informer's copy
    notices,    \* notifications under way to the event handlers
    store,      \* Store.cms
    synced,     \* Store.synced
    pc, want, visible, reply,   \* one call of Service.Resolve
    publishers,                 \* history: publishers of want since the call began
    writes, breaks

api == <<cms, stream, watching, writes, breaks>>
informer == <<listed, indexer, notices>>
call == <<pc, want, visible, reply, publishers>>
vars == <<api, informer, store, synced, call>>

Absent == [r \in Resource |-> None]

Init ==
    /\ cms \in [Resource -> Model \cup {Garbage, None}]
    /\ stream = <<>> /\ watching = FALSE /\ writes = 0 /\ breaks = 0
    /\ listed = FALSE /\ indexer = Absent /\ notices = <<>>
    /\ store = Absent /\ synced = FALSE
    /\ pc = "idle" /\ want = None /\ visible = {} /\ reply = None /\ publishers = {}

-----------------------------------------------------------------------------
(* The API server *)

(* The operator writes, or anyone deletes, a ConfigMap                     *)
Write(r, blob) ==
    /\ writes < MaxWrites /\ writes' = writes + 1
    /\ cms[r] # blob
    /\ cms' = [cms EXCEPT ![r] = blob]
    /\ stream' = IF watching THEN Append(stream, [cm |-> r, blob |-> blob]) ELSE stream
    /\ UNCHANGED <<watching, breaks, informer, store, synced, call>>

WatchBreaks ==
    /\ watching /\ breaks < MaxBreaks
    /\ watching' = FALSE /\ stream' = <<>> /\ breaks' = breaks + 1
    /\ UNCHANGED <<cms, writes, informer, store, synced, call>>

-----------------------------------------------------------------------------
(* The informer *)

(* What is there in a listing, as the handlers are told of it              *)
Listed(there) == SetToSeq({r \in Resource : there[r] # None})
Reported(there) ==
    [i \in DOMAIN Listed(there) |->
       [kind |-> "set", cm |-> Listed(there)[i], blob |-> there[Listed(there)[i]]]]

(* What has gone since the last listing                                    *)
Gone == SetToSeq({r \in Resource : cms[r] = None /\ indexer[r] # None})
Tombstones ==
    [i \in DOMAIN Gone |-> [kind |-> "tombstone", cm |-> Gone[i], blob |-> indexer[Gone[i]]]]

(* The (re)list replaces the indexer: what is there is reported as added or *)
(* updated, what is missing as a tombstone                                  *)
Relist ==
    /\ ~watching
    /\ watching' = TRUE /\ listed' = TRUE
    /\ indexer' = cms
    /\ notices' = notices \o Reported(cms) \o Tombstones
    /\ UNCHANGED <<cms, stream, writes, breaks, store, synced, call>>

(* One watch event goes through the indexer to the handlers                *)
Observe ==
    LET e == Head(stream) IN
    /\ stream # <<>>
    /\ stream' = Tail(stream)
    /\ indexer' = [indexer EXCEPT ![e.cm] = e.blob]
    /\ notices' = Append(notices,
         [kind |-> IF e.blob = None THEN "delete" ELSE "set", cm |-> e.cm, blob |-> e.blob])
    /\ UNCHANGED <<cms, watching, writes, breaks, listed, store, synced, call>>

(* The ten-minute resync reports everything in the indexer again           *)
Resync ==
    /\ listed /\ notices = <<>> /\ Reported(indexer) # <<>>
    /\ notices' = Reported(indexer)
    /\ UNCHANGED <<api, listed, indexer, store, synced, call>>

-----------------------------------------------------------------------------
(* WatchConfigMaps: the event handlers and readiness *)

(* Publishers of a model name, Store.byName                                *)
ByName(s, n) == {r \in Resource : s[r] # None /\ NameOf[s[r]] = n}

(* The store changes under a running call                                  *)
SetStore(s) ==
    /\ store' = s
    /\ publishers' = IF pc = "idle" \/ want = None THEN publishers
                     ELSE publishers \cup {Cardinality(ByName(s, want))}

(* ingest: an undecodable blob leaves the last good model in place         *)
IngestsFirst(n) == store[n.cm] = None /\ n.blob \in Model
Ingests(n) == n.blob \in Model

(* DeleteFunc takes only a ConfigMap: a tombstone is not one               *)
Removes(n) == n.kind = "delete"

(* AddFunc, UpdateFunc and DeleteFunc                                      *)
HandleNotice ==
    LET n == Head(notices) IN
    /\ notices # <<>>
    /\ notices' = Tail(notices)
    /\ SetStore(IF n.kind = "set" /\ Ingests(n) THEN [store EXCEPT ![n.cm] = n.blob]
                ELSE IF Removes(n) THEN [store EXCEPT ![n.cm] = None]
                ELSE store)
    /\ UNCHANGED <<api, listed, indexer, synced, pc, want, visible, reply>>

(* WaitForCacheSync(inf.HasSynced) and MarkSynced                          *)
MarkSynced ==
    /\ listed /\ ~synced /\ synced' = TRUE
    /\ UNCHANGED <<api, informer, store, call>>

-----------------------------------------------------------------------------
(* Service.Resolve; each Store method takes the lock anew *)

Ask(n) ==
    /\ pc = "idle"
    /\ want' = n /\ reply' = None /\ visible' = {}
    /\ publishers' = IF n = None THEN {} ELSE {Cardinality(ByName(store, n))}
    /\ pc' = IF n = None THEN "single" ELSE "get"
    /\ UNCHANGED <<api, informer, store, synced>>

Answer(a) == reply' = a /\ pc' = "idle"
Found(s) == {s[r] : r \in {q \in Resource : s[q] # None}}
StoreUnchanged == UNCHANGED <<api, informer, store, synced>>

(* No name given: Store.Single                                             *)
Single ==
    LET held == {r \in Resource : store[r] # None} IN
    /\ pc = "single"
    /\ \/ \E r \in held : held = {r} /\ Answer([kind |-> "model", model |-> store[r]])
       \/ Cardinality(held) # 1 /\ pc' = "list" /\ UNCHANGED reply
    /\ UNCHANGED <<want, visible, publishers>> /\ StoreUnchanged

(* visibleNames over Store.All: the only accessible name, or an error       *)
ListVisible ==
    LET names == {NameOf[m] : m \in Found(store) \cap Accessible} IN
    /\ pc = "list"
    /\ visible' = names
    /\ \/ \E n \in names : /\ names = {n} /\ want' = n /\ pc' = "get"
                           /\ publishers' = {Cardinality(ByName(store, n))}
                           /\ UNCHANGED reply
       \/ /\ Cardinality(names) # 1
          /\ Answer([kind |-> "name required"]) /\ UNCHANGED <<want, publishers>>
    /\ StoreUnchanged

(* Store.Get: the model, only when exactly one resource publishes the name  *)
GetAny(s, n) == \E r \in ByName(s, n) : Answer([kind |-> "model", model |-> s[r]])
GetUnique(s, n) == \E r \in ByName(s, n) :
    ByName(s, n) = {r} /\ Answer([kind |-> "model", model |-> s[r]])
Get ==
    /\ pc = "get"
    /\ \/ GetUnique(store, want)
       \/ Cardinality(ByName(store, want)) # 1 /\ pc' = "ambiguous" /\ UNCHANGED reply
    /\ UNCHANGED <<want, visible, publishers>> /\ StoreUnchanged

(* Store.Ambiguous, and the errors                                         *)
Ambiguous ==
    /\ pc = "ambiguous"
    /\ \/ Cardinality(ByName(store, want)) > 1 /\ Answer([kind |-> "ambiguous"])
       \/ /\ Cardinality(ByName(store, want)) <= 1
          /\ Answer([kind |-> IF visible = {} THEN "unknown" ELSE "name required"])
    /\ UNCHANGED <<want, visible, publishers>> /\ StoreUnchanged

Next ==
    \/ \E r \in Resource, blob \in Model \cup {Garbage, None} : Write(r, blob)
    \/ WatchBreaks \/ Relist \/ Observe \/ Resync \/ HandleNotice \/ MarkSynced
    \/ \E n \in Name \cup {None} : Ask(n)
    \/ Single \/ ListVisible \/ Get \/ Ambiguous

Spec == Init /\ [][Next]_vars

(* The informer's goroutines run and the API server can be reached again    *)
Fairness == WF_vars(Relist) /\ WF_vars(Observe) /\ WF_vars(HandleNotice)
FairSpec == Spec /\ Fairness

-----------------------------------------------------------------------------
Blob == Model \cup {Garbage, None}
Event == [cm : Resource, blob : Blob]
Notice == [kind : {"set", "delete", "tombstone"}, cm : Resource, blob : Blob]
Reply == [kind : {"model"}, model : Model]
         \cup [kind : {"name required", "ambiguous", "unknown"}]

(* Every variable keeps its type: whatever a ConfigMap holds, the store      *)
(* holds compiled models only (ingest).                                      *)
TypeOK ==
    /\ cms \in [Resource -> Blob] /\ stream \in Seq(Event) /\ watching \in BOOLEAN
    /\ writes \in 0 .. MaxWrites /\ breaks \in 0 .. MaxBreaks
    /\ listed \in BOOLEAN /\ indexer \in [Resource -> Blob] /\ notices \in Seq(Notice)
    /\ store \in [Resource -> Model \cup {None}] /\ synced \in BOOLEAN
    /\ pc \in {"idle", "single", "list", "get", "ambiguous"}
    /\ want \in Name \cup {None} /\ visible \subseteq Name
    /\ reply \in Reply \cup {None} /\ publishers \subseteq Nat

CaughtUp == watching /\ listed /\ stream = <<>> /\ notices = <<>>

(* Whatever watches broke and events were lost, a caught-up store serves     *)
(* every decodable artifact at its latest version (ingest).                  *)
ServesLatest == CaughtUp => \A r \in Resource : cms[r] \in Model => store[r] = cms[r]

(* Once the cluster is quiet, every published artifact is served for good,   *)
(* although watches break and events are lost on the way.                    *)
EventuallyServed == \A r \in Resource, m \in Model :
    <>[](cms[r] = m) => <>[](store[r] = m)

(* Resolve never guesses: a model it returns for a name was the name's only  *)
(* publication, and "ambiguous" was true, at some moment of the call.        *)
AnswersHeld ==
    (reply # None /\ want # None) =>
       /\ reply.kind = "model" => 1 \in publishers
       /\ reply.kind = "ambiguous" => \E k \in publishers : k > 1

(* "Delete removes the model published by a deleted ConfigMap": a caught-up  *)
(* store holds no model whose ConfigMap is gone (WatchConfigMaps).           *)
DeletedIsRemoved == CaughtUp => \A r \in Resource : cms[r] = None => store[r] = None
=============================================================================
