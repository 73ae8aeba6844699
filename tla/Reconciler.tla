------------------------------ MODULE Reconciler ------------------------------
(***************************************************************************)
(* The operator's control loop for one SemanticModel resource:             *)
(* src/controllers/semanticmodel_controller.go, with the view publisher it *)
(* drives (src/internal/serving/views/views.go).                           *)
(*                                                                         *)
(* The reconciler reads the resource and its ConfigMap through informer    *)
(* caches that lag behind the API server, checks the document against the  *)
(* query engine, publishes the compiled artifact and creates the governed  *)
(* views.  Users edit and delete the resource meanwhile, calls fail (with  *)
(* or without having taken effect), and the operator may crash anywhere.   *)
(*                                                                         *)
(* Abstractions.  A spec document is an element of Doc, and SpecVersion, a *)
(* hash of the document, is the document itself.  resourceVersion is not a *)
(* number: smSeen, cmSeen and fresh say whether a copy is of the latest    *)
(* one, which is all that optimistic concurrency compares.  The informer   *)
(* jumps to the current object.  status.observedGeneration moves together  *)
(* with status.modelVersion (ver) and is left out.                         *)
(***************************************************************************)
EXTENDS Integers, Sequences, FiniteSets

CONSTANTS
    Doc,         \* spec documents a user may submit
    Valid,       \* documents ossie.ValidateSpec accepts
    Compilable,  \* documents planner.Compile accepts
    Fits,        \* documents whose artifact is within maxArtifactBytes
    Dataset,     \* physical tables
    DatasetsOf,  \* the tables a document binds
    Shape,       \* column sets (with types) a table can have
    Missing,     \* the shape of a table that is not there
    Accepts,     \* <<doc, dataset, shape>>: the columns doc needs are present
    View,        \* view names
    ViewsOf,     \* the views a document declares, in order
    Builds,      \* <<doc, view>>: planner.Build compiles the view
    Db,          \* view databases
    DbOf,        \* the view database of a document
    MaxEdits,    \* bound on the writes of users
    MaxFaults,   \* bound on failed calls, crashes and table changes
    NoSM, NoCM, NoDoc, NoView, NoShape, Unset

ASSUME DocAssumption ==
    /\ Valid \subseteq Doc /\ Compilable \subseteq Doc /\ Fits \subseteq Doc
    /\ DatasetsOf \in [Doc -> SUBSET Dataset]
    /\ Missing \in Shape
    /\ Accepts \subseteq (Doc \X Dataset \X (Shape \ {Missing}))
    /\ ViewsOf \in [Doc -> Seq(View)]
    /\ Builds \subseteq (Doc \X View)
    /\ DbOf \in [Doc -> Db]

ASSUME BoundAssumption == MaxEdits \in Nat /\ MaxFaults \in Nat

VARIABLES
    sm,        \* the SemanticModel in the API server, or NoSM
    cm,        \* the artifact ConfigMap in the API server, or NoCM
    smCache, smSeen,   \* informer copy of sm; whether it is the latest
    cmCache, cmSeen,   \* informer copy of cm; whether it is the latest
    tables,    \* shape of every physical table in the engine
    view,      \* the document a view in the engine was built from, or NoView
    queued,    \* the key is in the work queue
    timer,     \* a RequeueAfter is pending
    pc,        \* where the reconcile in progress is
    cur,       \* its in-memory SemanticModel
    fresh,     \* cur carries the resourceVersion of sm
    unbound,   \* datasets bind has still to describe
    types,     \* column types bind filled into the artifact
    drift,     \* bind found drift
    next,      \* index of the next view to create
    stale,     \* views still to drop
    failed,    \* a DROP VIEW of this reconcile failed
    edits, faults

apiVars    == <<sm, cm>>
cacheVars  == <<smCache, smSeen, cmCache, cmSeen>>
engineVars == <<tables, view>>
queueVars  == <<queued, timer>>
bindVars   == <<unbound, types, drift>>
viewVars   == <<next, stale, failed>>
jobVars    == <<pc, cur, fresh, bindVars, viewVars>>
vars == <<apiVars, cacheVars, engineVars, queueVars, jobVars, edits, faults>>

-----------------------------------------------------------------------------
(* State.                                                                   *)

Cond == {"Validated", "Compiled", "DriftDetected", "Published", "ViewsReady"}
Truth == {"Unknown", "True", "False"}
Status == [ver : Doc \cup {NoDoc}, cond : [Cond -> Truth]]
NoStatus == [ver |-> NoDoc, cond |-> [c \in Cond |-> "Unknown"]]

SemanticModel == [uid : Nat, doc : Doc, deleting : BOOLEAN, fin : BOOLEAN,
                  owned : Seq(View) \cup {Unset}, status : Status]
ConfigMap == [owner : Nat, doc : Doc, types : [Dataset -> Shape \cup {NoShape}]]

ASSUME SentinelAssumption ==
    /\ NoDoc \notin Doc /\ NoView \notin Doc /\ NoShape \notin Shape
    /\ Unset \notin Seq(View)
    /\ NoSM \notin SemanticModel /\ NoCM \notin ConfigMap

PCs == {"idle", "finalizer", "validate", "bind", "publish", "schema", "create",
        "drop", "annotate", "status", "statusResync", "statusFail",
        "finalDrop", "release"}

NoTypes == [d \in Dataset |-> NoShape]
NamesIn(s) == {s[i] : i \in DOMAIN s}
Owned(m) == IF m.owned = Unset THEN {} ELSE NamesIn(m.owned)
Declared(d) == NamesIn(ViewsOf[d])

SetCond(m, c, truth) == [m EXCEPT !.status.cond[c] = truth]

Init ==
    /\ sm = NoSM /\ smCache = NoSM /\ smSeen = TRUE
    /\ cm = NoCM /\ cmCache = NoCM /\ cmSeen = TRUE
    /\ tables \in [Dataset -> Shape]
    /\ view = [db \in Db |-> [v \in View |-> NoView]]
    /\ queued = FALSE /\ timer = FALSE
    /\ pc = "idle" /\ cur = NoSM /\ fresh = FALSE
    /\ unbound = {} /\ types = NoTypes /\ drift = FALSE
    /\ next = 1 /\ stale = {} /\ failed = FALSE
    /\ edits = 0 /\ faults = 0

-----------------------------------------------------------------------------
(* The API server: what a write of the reconciler meets.  An object whose   *)
(* last finalizer goes while it is being deleted disappears; a write that   *)
(* changes nothing makes no new resourceVersion.                            *)

Stored(m) == IF m.deleting /\ ~m.fin THEN NoSM ELSE m

Apply(m) ==
    /\ fresh
    /\ sm' = Stored(m)
    /\ smSeen' = (smSeen /\ sm' = sm)

Accepted(m) == Apply(m) /\ UNCHANGED faults

Conflict == ~fresh /\ sm # NoSM /\ UNCHANGED <<sm, smSeen, faults>>

NotFound == ~fresh /\ sm = NoSM /\ UNCHANGED <<sm, smSeen, faults>>

Fault == faults < MaxFaults /\ faults' = faults + 1

\* The call fails at the transport: the write may have been applied anyway.
CallFails(m) ==
    /\ Fault
    /\ \/ UNCHANGED <<sm, smSeen>>
       \/ Apply(m)

-----------------------------------------------------------------------------
(* Reconcile: how it ends.  controller-runtime puts the key back after an   *)
(* error, and after the resync period for a RequeueAfter.                   *)

\* Mutant: the view index starts at 0.
ResetJobFromZero ==
    /\ pc' = "idle" /\ cur' = NoSM /\ fresh' = FALSE
    /\ unbound' = {} /\ types' = NoTypes /\ drift' = FALSE
    /\ next' = 0 /\ stale' = {} /\ failed' = FALSE

ResetJob ==
    /\ pc' = "idle" /\ cur' = NoSM /\ fresh' = FALSE
    /\ unbound' = {} /\ types' = NoTypes /\ drift' = FALSE
    /\ next' = 1 /\ stale' = {} /\ failed' = FALSE

Return == ResetJob /\ UNCHANGED queueVars
\* Mutant: no RequeueAfter.
ReturnWithoutResync == ResetJob /\ UNCHANGED queueVars
ReturnResync == ResetJob /\ timer' = TRUE /\ UNCHANGED queued
\* Mutant: the error is swallowed.
ReturnErrorSwallowed == ResetJob /\ UNCHANGED queueVars
ReturnError == ResetJob /\ queued' = TRUE /\ UNCHANGED timer

Goto(label) == pc' = label

-----------------------------------------------------------------------------
(* Reconcile, from the cached read to validation.                           *)

Orphaned(m) == m # NoSM /\ m.deleting /\ ~m.fin

\* The worker takes the key and reads the resource from the informer cache.
StartReconcile ==
    /\ pc = "idle" /\ queued
    /\ queued' = FALSE
    /\ IF smCache = NoSM \/ Orphaned(smCache)
       THEN UNCHANGED jobVars
       ELSE /\ cur' = smCache /\ fresh' = smSeen
            /\ \/ /\ smCache.deleting
                  /\ stale' = Owned(smCache)
                  /\ Goto("finalDrop")
               \/ /\ ~smCache.deleting
                  /\ UNCHANGED stale
                  /\ Goto(IF smCache.fin THEN "validate" ELSE "finalizer")
            /\ UNCHANGED <<bindVars, next, failed>>
    /\ UNCHANGED <<apiVars, cacheVars, engineVars, timer, edits, faults>>

\* controllerutil.AddFinalizer and Update; a conflict ends the reconcile
\* quietly, any other error puts the key back.
AddFinalizer ==
    LET m == [cur EXCEPT !.fin = TRUE] IN
    /\ pc = "finalizer"
    /\ \/ /\ Accepted(m)
          /\ cur' = m /\ Goto("validate")
          /\ UNCHANGED <<fresh, bindVars, viewVars, queueVars>>
       \/ Conflict /\ Return
       \/ (NotFound \/ CallFails(m)) /\ ReturnError
    /\ UNCHANGED <<cm, smCache, cmCache, cmSeen, engineVars, edits>>

\* Steps 1 and 2, both pure: ValidateSpec, then Compile.
ValidateCompile ==
    LET m == [cur EXCEPT !.status.ver = cur.doc]
        ok == SetCond(m, "Validated", "True") IN
    /\ pc = "validate"
    /\ \/ /\ cur.doc \notin Valid
          /\ cur' = SetCond(m, "Validated", "False") /\ Goto("status")
          /\ UNCHANGED unbound
       \/ /\ cur.doc \in Valid \ Compilable
          /\ cur' = SetCond(ok, "Compiled", "False") /\ Goto("status")
          /\ UNCHANGED unbound
       \/ /\ cur.doc \in Valid \cap Compilable
          /\ cur' = ok /\ Goto("bind")
          /\ unbound' = DatasetsOf[cur.doc]
    /\ UNCHANGED <<apiVars, cacheVars, engineVars, queueVars, fresh, types, drift,
                   viewVars, edits, faults>>

-----------------------------------------------------------------------------
(* Step 3: bind, one DescribeTable per dataset.                             *)

\* Mutant: the drift of an earlier dataset is forgotten.
DescribedAfresh(d) ==
    /\ tables[d] # Missing
    /\ types' = [types EXCEPT ![d] = tables[d]]
    /\ drift' = (<<cur.doc, d, tables[d]>> \notin Accepts)
    /\ UNCHANGED faults

Described(d) ==
    /\ tables[d] # Missing
    /\ types' = [types EXCEPT ![d] = tables[d]]
    /\ drift' = (drift \/ <<cur.doc, d, tables[d]>> \notin Accepts)
    /\ UNCHANGED faults

\* Mutant: a table that cannot be described is skipped.
SkippedTable == UNCHANGED <<drift, types>>

\* DescribeTable fails and Ping succeeds: the table counts as drifted, also
\* when the failure was only momentary.
NotResolvable ==
    /\ drift' = TRUE
    /\ UNCHANGED types

BindDataset ==
    /\ pc = "bind"
    /\ \E d \in unbound :
          /\ unbound' = unbound \ {d}
          /\ \/ Described(d)
             \/ tables[d] = Missing /\ NotResolvable /\ UNCHANGED faults
             \/ Fault /\ NotResolvable
    /\ UNCHANGED <<apiVars, cacheVars, engineVars, queueVars, pc, cur, fresh,
                   viewVars, edits>>

\* DescribeTable fails and so does Ping: the engine is unreachable.  The
\* reconcile ends with an error and writes no status.
BindUnreachable ==
    /\ pc = "bind" /\ unbound # {}
    /\ Fault
    /\ ReturnError
    /\ UNCHANGED <<apiVars, cacheVars, engineVars, edits>>

BindDone ==
    /\ pc = "bind" /\ unbound = {}
    /\ IF drift
       THEN /\ cur' = SetCond(cur, "DriftDetected", "True")
            /\ Goto("statusResync")
       ELSE /\ cur' = SetCond(SetCond(cur, "DriftDetected", "False"), "Compiled", "True")
            /\ Goto("publish")
    /\ UNCHANGED <<apiVars, cacheVars, engineVars, queueVars, fresh, bindVars,
                   viewVars, edits, faults>>

-----------------------------------------------------------------------------
(* Step 4: publish.                                                         *)

Artifact == [owner |-> cur.uid, doc |-> cur.doc, types |-> types]

\* Past publish the artifact is only read for its document, so the column
\* types are dropped here.
Published ==
    /\ cur' = SetCond(cur, "Published", "True")
    /\ Goto(IF ViewsOf[cur.doc] = <<>> THEN "drop" ELSE "schema")
    /\ stale' = IF ViewsOf[cur.doc] = <<>> THEN Owned(cur) ELSE {}
    /\ types' = NoTypes

PublishFailed ==
    /\ cur' = SetCond(cur, "Published", "False")
    /\ Goto("statusFail")
    /\ UNCHANGED <<stale, types>>

\* cm' is the artifact, created or updated.
WriteArtifact ==
    /\ IF cmCache = NoCM THEN cm = NoCM ELSE cmSeen
    /\ cm' = Artifact
    /\ cmSeen' = FALSE

PublishTooLarge ==
    /\ pc = "publish" /\ cur.doc \notin Fits
    /\ cur' = SetCond(cur, "Published", "False")
    /\ Goto("status")
    /\ UNCHANGED <<apiVars, cacheVars, engineVars, queueVars, fresh, bindVars,
                   viewVars, edits, faults>>

\* The cached ConfigMap decides: absent, it is created; equal in owner, version
\* and data, nothing is written; otherwise it is rehomed and updated.
PublishArtifact ==
    /\ pc = "publish" /\ cur.doc \in Fits
    /\ \/ /\ cmCache = Artifact
          /\ Published /\ UNCHANGED <<cm, cmSeen, faults>>
       \/ /\ cmCache # Artifact
          /\ WriteArtifact /\ Published /\ UNCHANGED faults
       \/ /\ cmCache # Artifact
          /\ ~(IF cmCache = NoCM THEN cm = NoCM ELSE cmSeen)
          /\ PublishFailed /\ UNCHANGED <<cm, cmSeen, faults>>
       \/ /\ cmCache # Artifact
          /\ Fault /\ PublishFailed
          /\ WriteArtifact \/ UNCHANGED <<cm, cmSeen>>
    /\ UNCHANGED <<sm, smCache, smSeen, cmCache, engineVars, queueVars, fresh,
                   unbound, drift, next, failed, edits>>

-----------------------------------------------------------------------------
(* Step 5: governed views.                                                  *)

ViewsFailed == cur' = SetCond(cur, "ViewsReady", "False") /\ Goto("statusFail")

CreateSchema ==
    /\ pc = "schema"
    /\ \/ Goto("create") /\ UNCHANGED <<cur, faults>>
       \/ Fault /\ ViewsFailed
    /\ UNCHANGED <<apiVars, cacheVars, engineVars, queueVars, fresh, bindVars,
                   viewVars, edits>>

CreateViewIn(v) == view' = [view EXCEPT ![DbOf[cur.doc]][v] = cur.doc]

\* One CREATE OR REPLACE VIEW; the last one leads to the views to drop.
CreateView ==
    LET v == ViewsOf[cur.doc][next]
        last == next = Len(ViewsOf[cur.doc]) IN
    /\ pc = "create"
    /\ \/ /\ <<cur.doc, v>> \in Builds
          /\ CreateViewIn(v)
          /\ next' = IF last THEN 1 ELSE next + 1
          /\ Goto(IF last THEN "drop" ELSE "create")
          /\ stale' = IF last THEN Owned(cur) \ Declared(cur.doc) ELSE {}
          /\ UNCHANGED <<cur, faults>>
       \/ /\ <<cur.doc, v>> \notin Builds
          /\ ViewsFailed
          /\ UNCHANGED <<view, next, stale, faults>>
       \/ /\ <<cur.doc, v>> \in Builds
          /\ Fault /\ ViewsFailed
          /\ CreateViewIn(v) \/ UNCHANGED view
          /\ UNCHANGED <<next, stale>>
    /\ UNCHANGED <<apiVars, cacheVars, tables, queueVars, fresh, bindVars, failed, edits>>

\* Mutant: the loop returns after the first view.
DropFirst ==
    \E v \in stale :
        /\ stale' = {}
        /\ view' = [view EXCEPT ![DbOf[cur.doc]][v] = NoView]
        /\ UNCHANGED <<failed, faults>>

\* One DROP VIEW IF EXISTS in the document's own database; a failure is
\* remembered and the remaining views are still attempted.
DropOne ==
    \E v \in stale :
        /\ stale' = stale \ {v}
        /\ \/ /\ view' = [view EXCEPT ![DbOf[cur.doc]][v] = NoView]
              /\ UNCHANGED <<failed, faults>>
           \/ /\ Fault /\ failed' = TRUE
              /\ \/ view' = [view EXCEPT ![DbOf[cur.doc]][v] = NoView]
                 \/ UNCHANGED view

DropStale ==
    /\ pc = "drop"
    /\ \/ /\ stale # {} /\ DropOne
          /\ UNCHANGED <<pc, cur, next>>
       \/ /\ stale = {} /\ failed
          /\ ViewsFailed
          /\ UNCHANGED <<view, viewVars, faults>>
       \/ /\ stale = {} /\ ~failed
          /\ Goto("annotate")
          /\ UNCHANGED <<cur, view, viewVars, faults>>
    /\ UNCHANGED <<apiVars, cacheVars, tables, queueVars, fresh, bindVars, edits>>

\* What Update leaves in memory: the server's answer, with the stored status in
\* place of the one being computed once a status has been stored.
Decoded(m, inMemory) ==
    IF m.status = NoStatus THEN [m EXCEPT !.status = inMemory.status] ELSE m

\* The annotation records the created views.  Update puts the object the server
\* holds into memory.
RecordOwnedViews ==
    LET m == [sm EXCEPT !.owned = ViewsOf[cur.doc]]
        ready(x) == SetCond(x, "ViewsReady", "True") IN
    /\ pc = "annotate"
    /\ \/ /\ cur.owned = ViewsOf[cur.doc]
          /\ cur' = ready(cur) /\ Goto("statusResync")
          /\ UNCHANGED <<sm, smSeen, fresh, faults>>
       \/ /\ cur.owned # ViewsOf[cur.doc]
          /\ Accepted(m)
          /\ cur' = ready(Decoded(m, cur)) /\ Goto("statusResync")
          /\ UNCHANGED fresh
       \/ /\ cur.owned # ViewsOf[cur.doc]
          /\ \/ (Conflict \/ NotFound) /\ UNCHANGED fresh
             \/ CallFails(m) /\ fresh' = (fresh /\ sm' = sm)
          /\ ViewsFailed
    /\ UNCHANGED <<cm, smCache, cmCache, cmSeen, engineVars, queueVars, bindVars,
                   viewVars, edits>>

-----------------------------------------------------------------------------
(* Status writes.                                                           *)

\* statusUpdate: a conflict counts as success, other errors put the key back.
StatusUpdate ==
    LET m == [sm EXCEPT !.status = cur.status] IN
    /\ pc \in {"status", "statusResync"}
    /\ \/ /\ Accepted(m) \/ Conflict
          /\ IF pc = "status" THEN Return ELSE ReturnResync
       \/ (NotFound \/ CallFails(m)) /\ ReturnError
    /\ UNCHANGED <<cm, smCache, cmCache, cmSeen, engineVars, edits>>

\* On a failure of publish or of the views the status is written on a best
\* effort, and the error is returned whatever becomes of the write.
StatusBestEffort ==
    LET m == [sm EXCEPT !.status = cur.status] IN
    /\ pc = "statusFail"
    /\ Accepted(m) \/ Conflict \/ NotFound \/ CallFails(m)
    /\ ReturnError
    /\ UNCHANGED <<cm, smCache, cmCache, cmSeen, engineVars, edits>>

-----------------------------------------------------------------------------
(* finalize.                                                                *)

\* A failed drop is logged and the finalizer released all the same.
FinalizeDrop ==
    /\ pc = "finalDrop"
    /\ \/ /\ stale # {} /\ DropOne
          /\ UNCHANGED pc
       \/ /\ stale = {} /\ Goto("release")
          /\ UNCHANGED <<view, stale, failed, faults>>
    /\ UNCHANGED <<apiVars, cacheVars, tables, queueVars, cur, fresh, bindVars, next, edits>>

ReleaseFinalizer ==
    LET m == [cur EXCEPT !.fin = FALSE] IN
    /\ pc = "release"
    /\ \/ Accepted(m) /\ Return
       \/ (Conflict \/ NotFound \/ CallFails(m)) /\ ReturnError
    /\ UNCHANGED <<cm, smCache, cmCache, cmSeen, engineVars, edits>>

-----------------------------------------------------------------------------
(* The operator process around Reconcile.                                   *)

\* Watch events: the informer catches up and the key is queued.
SyncSM ==
    /\ ~smSeen
    /\ smCache' = sm /\ smSeen' = TRUE /\ queued' = TRUE
    /\ UNCHANGED <<apiVars, cmCache, cmSeen, engineVars, timer, jobVars, edits, faults>>

SyncCM ==
    /\ ~cmSeen
    /\ cmCache' = cm /\ cmSeen' = TRUE /\ queued' = TRUE
    /\ UNCHANGED <<apiVars, smCache, smSeen, engineVars, timer, jobVars, edits, faults>>

ResyncDue ==
    /\ timer
    /\ timer' = FALSE /\ queued' = TRUE
    /\ UNCHANGED <<apiVars, cacheVars, engineVars, jobVars, edits, faults>>

\* The process stops at any point; the restarted one lists every object anew
\* and queues it.
CrashRestart ==
    /\ Fault
    /\ ResetJob
    /\ smCache' = sm /\ smSeen' = TRUE /\ cmCache' = cm /\ cmSeen' = TRUE
    /\ queued' = TRUE /\ timer' = FALSE
    /\ UNCHANGED <<apiVars, engineVars, edits>>

-----------------------------------------------------------------------------
(* Users, the garbage collector and the owners of the tables.               *)

UserWrites == edits < MaxEdits /\ edits' = edits + 1

\* Another writer bumped sm: no copy of it is current any more.
Outdated == smSeen' = FALSE /\ fresh' = FALSE

UserVarsUnchanged ==
    UNCHANGED <<cm, smCache, cmCache, cmSeen, engineVars, queueVars, pc, cur,
                bindVars, viewVars, faults>>

CreateModel(d) ==
    /\ UserWrites /\ sm = NoSM
    /\ sm' = [uid |-> edits + 1, doc |-> d, deleting |-> FALSE, fin |-> FALSE,
              owned |-> Unset, status |-> NoStatus]
    /\ Outdated /\ UserVarsUnchanged

EditModel(d) ==
    /\ UserWrites /\ sm # NoSM
    /\ d # sm.doc
    /\ sm' = [sm EXCEPT !.doc = d]
    /\ Outdated /\ UserVarsUnchanged

DeleteModel ==
    /\ UserWrites /\ sm # NoSM
    /\ ~sm.deleting
    /\ sm' = Stored([sm EXCEPT !.deleting = TRUE])
    /\ Outdated /\ UserVarsUnchanged

\* A write that only touches labels or other metadata.
TouchModel ==
    /\ UserWrites /\ sm # NoSM
    /\ UNCHANGED sm
    /\ Outdated /\ UserVarsUnchanged

DeleteArtifact ==
    /\ UserWrites /\ cm # NoCM
    /\ cm' = NoCM /\ cmSeen' = FALSE
    /\ UNCHANGED <<sm, smCache, smSeen, cmCache, engineVars, queueVars, jobVars, faults>>

\* Kubernetes removes an artifact whose owner is gone.
GarbageCollect ==
    /\ cm # NoCM
    /\ sm # NoSM => sm.uid # cm.owner
    /\ cm' = NoCM /\ cmSeen' = FALSE
    /\ UNCHANGED <<sm, smCache, smSeen, cmCache, engineVars, queueVars, jobVars, edits, faults>>

AlterTable(d, s) ==
    /\ Fault
    /\ s # tables[d]
    /\ tables' = [tables EXCEPT ![d] = s]
    /\ UNCHANGED <<apiVars, cacheVars, view, queueVars, jobVars, edits>>

-----------------------------------------------------------------------------
ReconcileStep ==
    \/ StartReconcile \/ AddFinalizer \/ ValidateCompile
    \/ BindDataset \/ BindUnreachable \/ BindDone
    \/ PublishTooLarge \/ PublishArtifact
    \/ CreateSchema \/ CreateView \/ DropStale \/ RecordOwnedViews
    \/ StatusUpdate \/ StatusBestEffort
    \/ FinalizeDrop \/ ReleaseFinalizer

Environment ==
    \/ \E d \in Doc : CreateModel(d) \/ EditModel(d)
    \/ DeleteModel \/ TouchModel \/ DeleteArtifact
    \/ \E d \in Dataset, s \in Shape : AlterTable(d, s)
    \/ CrashRestart

Next ==
    \/ ReconcileStep
    \/ SyncSM \/ SyncCM \/ ResyncDue
    \/ GarbageCollect
    \/ Environment

Spec == Init /\ [][Next]_vars

\* The worker, the informers, the delayed queue and the garbage collector keep
\* running; users and faults owe nothing.
Fairness ==
    /\ WF_vars(ReconcileStep)
    /\ WF_vars(SyncSM) /\ WF_vars(SyncCM) /\ WF_vars(ResyncDue)
    /\ WF_vars(GarbageCollect)

FairSpec == Spec /\ Fairness
-----------------------------------------------------------------------------
(* Properties.                                                              *)

TypeObjects ==
    /\ sm \in SemanticModel \cup {NoSM}
    /\ smCache \in SemanticModel \cup {NoSM}
    /\ cur \in SemanticModel \cup {NoSM}
    /\ cm \in ConfigMap \cup {NoCM}
    /\ cmCache \in ConfigMap \cup {NoCM}

TypeEngine ==
    /\ tables \in [Dataset -> Shape]
    /\ view \in [Db -> [View -> Doc \cup {NoView}]]

TypeFlags ==
    /\ smSeen \in BOOLEAN /\ cmSeen \in BOOLEAN /\ fresh \in BOOLEAN
    /\ queued \in BOOLEAN /\ timer \in BOOLEAN
    /\ drift \in BOOLEAN /\ failed \in BOOLEAN

TypeJob ==
    /\ pc \in PCs
    /\ unbound \in SUBSET Dataset
    /\ types \in [Dataset -> Shape \cup {NoShape}]
    /\ next \in Nat \ {0}
    /\ stale \in SUBSET View

TypeBounds == edits \in 0..MaxEdits /\ faults \in 0..MaxFaults

TypeOK == TypeObjects /\ TypeEngine /\ TypeFlags /\ TypeJob /\ TypeBounds

Bound(d, t) == \A s \in DatasetsOf[d] : <<d, s, t[s]>> \in Accepts

Vetted(a) == a.doc \in Valid \cap Compilable \cap Fits /\ Bound(a.doc, a.types)

\* "An invalid new model never replaces the last version known to work": what
\* the ConfigMap holds passed validation, compilation, the size limit and, in
\* every table as it was when described, the drift check (Reconcile, publish).
PublishedIsVetted == cm # NoCM => Vetted(cm)

\* Nothing is queued, running or undelivered.
AtRest == pc = "idle" /\ ~queued /\ smSeen /\ cmSeen

Is(c, truth) == sm.status.cond[c] = truth

\* Everything the document asks for is in place, and the status says so.
InPlace ==
    /\ cm # NoCM /\ cm.doc = sm.doc /\ cm.owner = sm.uid
    /\ sm.owned = ViewsOf[sm.doc]
    /\ \A v \in Declared(sm.doc) : view[DbOf[sm.doc]][v] = sm.doc
    /\ \A c \in Cond : Is(c, IF c = "DriftDetected" THEN "False" ELSE "True")

\* When the operator has nothing left to do, the status is about the current
\* document and names what stands in its way, or all of it is in place: no
\* conflict, quiet return or failed call leaves a model half reconciled with
\* nothing to wake the reconciler up.  A deleted model is never left waiting.
RestIsExplained ==
    AtRest /\ sm # NoSM =>
        /\ sm.fin /\ ~sm.deleting /\ sm.status.ver = sm.doc
        /\ \/ sm.doc \notin Valid /\ Is("Validated", "False")
           \/ sm.doc \in Valid \ Compilable /\ Is("Compiled", "False")
           \/ Is("DriftDetected", "True") /\ timer
           \/ sm.doc \notin Fits /\ Is("Published", "False")
           \/ InPlace /\ timer

\* The object goes away under the finalizer only when no view named in its
\* annotation is left in its view database (finalize), unless a DROP VIEW of
\* that reconcile failed: such failures are logged and ignored.
ReleasedAfterDrop ==
    [][sm # NoSM /\ sm.fin /\ sm' = NoSM /\ ~failed =>
          \A v \in Owned(sm) : view'[DbOf[sm.doc]][v] = NoView]_vars

Publishable(d) ==
    /\ d \in Valid \cap Compilable \cap Fits
    /\ \A s \in DatasetsOf[d] : <<d, s, tables[s]>> \in Accepts
    /\ \A v \in Declared(d) : <<d, v>> \in Builds

\* Once users and faults are through, a publishable model ends up published,
\* with its views, and stays so; its artifact carries the current column types.
Converges ==
    <>[](sm # NoSM /\ ~sm.deleting /\ Publishable(sm.doc) =>
            InPlace /\ \A s \in DatasetsOf[sm.doc] : cm.types[s] = tables[s])

\* A deletion completes, whatever the engine does: finalize never blocks.
DeletionCompletes == \A u \in 1..MaxEdits :
    (sm # NoSM /\ sm.uid = u /\ sm.deleting) ~> (sm = NoSM \/ sm.uid # u)

\* operator.mdx: "Views removed from the model are dropped."  At rest, a view
\* in the engine is one the current document declares.
RemovedViewsAreDropped ==
    AtRest /\ sm # NoSM /\ InPlace =>
        \A db \in Db, v \in View : view[db][v] # NoView =>
            db = DbOf[sm.doc] /\ v \in Declared(sm.doc)
=============================================================================
