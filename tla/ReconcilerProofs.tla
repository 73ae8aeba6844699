--------------------------- MODULE ReconcilerProofs ---------------------------
(***************************************************************************)
(* Proofs about Reconciler, for any documents, tables, views, numbers of   *)
(* edits and of faults: type correctness; only a vetted artifact is ever   *)
(* published; a model at rest is explained by its status; a finalizer is   *)
(* released after the views are dropped.                                   *)
(***************************************************************************)
EXTENDS Reconciler, TLAPS

(* The inductive invariant behind PublishedIsVetted.                        *)

\* A cache that has seen the last event holds the object; a fresh in-memory
\* copy belongs to a running reconcile of an existing object.
CopiesInv ==
    /\ smSeen => smCache = sm
    /\ fresh => pc # "idle" /\ sm # NoSM
    /\ pc # "idle" => cur # NoSM
    /\ ~Orphaned(sm) /\ ~Orphaned(smCache)

\* What bind has established so far about the document being reconciled.
BindInv ==
    /\ pc \in {"bind", "publish"} => cur.doc \in Valid \cap Compilable
    /\ pc = "bind" /\ ~drift =>
          \A s \in DatasetsOf[cur.doc] \ unbound : <<cur.doc, s, types[s]>> \in Accepts
    /\ pc = "publish" => Bound(cur.doc, types)

IInv == TypeOK /\ CopiesInv /\ BindInv /\ PublishedIsVetted

USE DocAssumption, BoundAssumption, SentinelAssumption

\* Setting a condition keeps a SemanticModel a SemanticModel and touches nothing
\* but the status (setCondition).
LEMMA SetCondType ==
    ASSUME NEW m \in SemanticModel, NEW c \in Cond, NEW t \in Truth
    PROVE  /\ SetCond(m, c, t) \in SemanticModel
           /\ SetCond(m, c, t).doc = m.doc
           /\ SetCond(m, c, t).deleting = m.deleting
           /\ SetCond(m, c, t).fin = m.fin
BY DEF SetCond, SemanticModel, Status

\* The views an annotation names are views.
LEMMA OwnedType ==
    ASSUME NEW m \in SemanticModel
    PROVE  Owned(m) \in SUBSET View
BY DEF Owned, NamesIn, SemanticModel

\* The views a document declares are views.
LEMMA DeclaredType ==
    ASSUME NEW d \in Doc
    PROVE  Declared(d) \in SUBSET View
BY DEF Declared, NamesIn

\* Initially nothing is published and nothing runs.
LEMMA InitIInv == Init => IInv
<1> SUFFICES ASSUME Init PROVE IInv
  OBVIOUS
<1>1. TypeOK
  <2>1. TypeObjects
    BY DEF Init, TypeObjects
  <2>2. TypeEngine
    BY DEF Init, TypeEngine
  <2>3. TypeFlags
    BY Zenon DEF Init, TypeFlags
  <2>4. TypeJob
    BY DEF Init, TypeJob, PCs, NoTypes
  <2>5. TypeBounds
    BY DEF Init, TypeBounds
  <2> QED
    BY <2>1, <2>2, <2>3, <2>4, <2>5 DEF TypeOK
<1>2. CopiesInv
  BY DEF Init, CopiesInv, Orphaned
<1>3. BindInv
  BY DEF Init, BindInv
<1>4. PublishedIsVetted
  BY DEF Init, PublishedIsVetted
<1> QED
  BY <1>1, <1>2, <1>3, <1>4 DEF IInv
-----------------------------------------------------------------------------

\* A DROP VIEW costs at most one fault.
LEMMA DropOneFaults == DropOne => UNCHANGED faults \/ Fault
BY Zenon DEF DropOne

\* A DROP VIEW leaves one view fewer to drop.
LEMMA DropOneStale == DropOne /\ stale \in SUBSET View => stale' \in SUBSET View
BY DEF DropOne

\* Creating, replacing or dropping one view keeps the views well typed.
LEMMA ViewUpdate ==
    ASSUME NEW f \in [Db -> [View -> Doc \cup {NoView}]], NEW db \in Db,
           NEW v \in View, NEW x \in Doc \cup {NoView}
    PROVE  [f EXCEPT ![db][v] = x] \in [Db -> [View -> Doc \cup {NoView}]]
<1>1. [f[db] EXCEPT ![v] = x] \in [View -> Doc \cup {NoView}]
  OBVIOUS
<1> QED
  BY <1>1

\* A DROP VIEW keeps the engine's views well typed.
LEMMA DropOneEngine ==
    ASSUME DropOne, view \in [Db -> [View -> Doc \cup {NoView}]], stale \in SUBSET View,
           cur.doc \in Doc
    PROVE  view' \in [Db -> [View -> Doc \cup {NoView}]]
<1>1. PICK v \in stale : \/ view' = [view EXCEPT ![DbOf[cur.doc]][v] = NoView]
                         \/ view' = view
  BY Zenon DEF DropOne
<1>2. DbOf[cur.doc] \in Db /\ v \in View
  OBVIOUS
<1>3. [view EXCEPT ![DbOf[cur.doc]][v] = NoView] \in [Db -> [View -> Doc \cup {NoView}]]
  <2>1. NoView \in Doc \cup {NoView}
    OBVIOUS
  <2> QED
    BY <1>2, <2>1, ViewUpdate, Zenon
<1> QED
  BY <1>1, <1>3, Zenon

\* The flags stay Boolean.
LEMMA FlagsStep ==
    TypeFlags /\ [Next]_vars
        => TypeFlags'
<1> SUFFICES ASSUME TypeFlags, [Next]_vars
             PROVE  TypeFlags'
  OBVIOUS
<1> USE DEF TypeFlags, apiVars, cacheVars, engineVars, queueVars, bindVars,
            viewVars, jobVars, Return, ReturnResync, ReturnError, ResetJob, Apply,
            Accepted, Conflict, NotFound, CallFails, Outdated, UserVarsUnchanged,
            ViewsFailed, DropOne, Described, NotResolvable, Published,
            PublishFailed, WriteArtifact
<1>1. CASE StartReconcile \/ AddFinalizer \/ ValidateCompile \/ BindDataset \/
           BindUnreachable \/ BindDone \/ PublishTooLarge \/ PublishArtifact
  BY <1>1 DEF StartReconcile, AddFinalizer, ValidateCompile, BindDataset,
              BindUnreachable, BindDone, PublishTooLarge, PublishArtifact
<1>2. CASE CreateSchema \/ CreateView \/ DropStale \/ RecordOwnedViews \/
           StatusUpdate \/ StatusBestEffort \/ FinalizeDrop \/ ReleaseFinalizer
  BY <1>2 DEF CreateSchema, CreateView, DropStale, RecordOwnedViews, StatusUpdate,
              StatusBestEffort, FinalizeDrop, ReleaseFinalizer
<1>3. CASE SyncSM \/ SyncCM \/ ResyncDue \/ GarbageCollect \/ CrashRestart \/
           DeleteModel \/ TouchModel \/ DeleteArtifact
  BY <1>3 DEF SyncSM, SyncCM, ResyncDue, GarbageCollect, CrashRestart, DeleteModel,
              TouchModel, DeleteArtifact
<1>4. ASSUME NEW d \in Doc, CreateModel(d) PROVE TypeFlags'
  BY <1>4 DEF CreateModel
<1>5. ASSUME NEW d \in Doc, EditModel(d) PROVE TypeFlags'
  BY <1>5 DEF EditModel
<1>6. ASSUME NEW d \in Dataset, NEW s \in Shape, AlterTable(d, s) PROVE TypeFlags'
  BY <1>6 DEF AlterTable
<1>7. CASE UNCHANGED vars
  BY <1>7 DEF vars
<1> QED
  BY <1>1, <1>2, <1>3, <1>4, <1>5, <1>6, <1>7
  DEF Next, ReconcileStep, Environment

\* The budgets of edits and faults are respected.
LEMMA BoundsStep ==
    TypeBounds /\ [Next]_vars
        => TypeBounds'
<1> SUFFICES ASSUME TypeBounds, [Next]_vars
             PROVE  TypeBounds'
  OBVIOUS
<1> USE DEF TypeBounds, apiVars, cacheVars, engineVars, queueVars, bindVars,
            viewVars, jobVars, Apply, Accepted, Conflict, NotFound, CallFails,
            Outdated, UserVarsUnchanged, Fault, UserWrites
<1>1. CASE StartReconcile \/ AddFinalizer \/ ValidateCompile \/ BindUnreachable \/
           BindDone \/ PublishTooLarge \/ PublishArtifact \/ CreateSchema
  BY <1>1 DEF StartReconcile, AddFinalizer, ValidateCompile, BindUnreachable,
              BindDone, PublishTooLarge, PublishArtifact, CreateSchema
<1>2. CASE CreateView \/ RecordOwnedViews \/ StatusUpdate \/ StatusBestEffort \/
           ReleaseFinalizer \/ SyncSM \/ SyncCM \/ ResyncDue
  BY <1>2 DEF CreateView, RecordOwnedViews, StatusUpdate, StatusBestEffort,
              ReleaseFinalizer, SyncSM, SyncCM, ResyncDue
<1>3. CASE GarbageCollect \/ CrashRestart \/ DeleteModel \/ TouchModel \/
           DeleteArtifact
  BY <1>3 DEF GarbageCollect, CrashRestart, DeleteModel, TouchModel, DeleteArtifact
<1>4. CASE BindDataset
  BY <1>4 DEF BindDataset, Described
<1>5. CASE DropStale
  BY <1>5, DropOneFaults DEF DropStale
<1>6. CASE FinalizeDrop
  BY <1>6, DropOneFaults DEF FinalizeDrop
<1>7. ASSUME NEW d \in Doc, CreateModel(d) PROVE TypeBounds'
  BY <1>7 DEF CreateModel
<1>8. ASSUME NEW d \in Doc, EditModel(d) PROVE TypeBounds'
  BY <1>8 DEF EditModel
<1>9. ASSUME NEW d \in Dataset, NEW s \in Shape, AlterTable(d, s) PROVE TypeBounds'
  BY <1>9 DEF AlterTable
<1>10. CASE UNCHANGED vars
  BY <1>10 DEF vars
<1> QED
  BY <1>1, <1>2, <1>3, <1>4, <1>5, <1>6, <1>7, <1>8, <1>9, <1>10
  DEF Next, ReconcileStep, Environment

\* Tables and views stay well typed.
LEMMA EngineStep ==
    TypeObjects /\ TypeEngine /\ TypeJob /\ CopiesInv /\ [Next]_vars
        => TypeEngine'
<1> SUFFICES ASSUME TypeObjects, TypeEngine, TypeJob, CopiesInv, [Next]_vars
             PROVE  TypeEngine'
  OBVIOUS
<1> USE DEF TypeEngine, apiVars, cacheVars, engineVars, queueVars, bindVars,
            viewVars, jobVars, UserVarsUnchanged
<1>1. CASE StartReconcile \/ AddFinalizer \/ ValidateCompile \/ BindDataset \/
           BindUnreachable \/ BindDone \/ PublishTooLarge \/ PublishArtifact
  BY <1>1 DEF StartReconcile, AddFinalizer, ValidateCompile, BindDataset,
              BindUnreachable, BindDone, PublishTooLarge, PublishArtifact
<1>2. CASE CreateSchema \/ RecordOwnedViews \/ StatusUpdate \/ StatusBestEffort \/
           ReleaseFinalizer \/ SyncSM \/ SyncCM \/ ResyncDue
  BY <1>2 DEF CreateSchema, RecordOwnedViews, StatusUpdate, StatusBestEffort,
              ReleaseFinalizer, SyncSM, SyncCM, ResyncDue
<1>3. CASE GarbageCollect \/ CrashRestart \/ DeleteModel \/ TouchModel \/
           DeleteArtifact
  BY <1>3 DEF GarbageCollect, CrashRestart, DeleteModel, TouchModel, DeleteArtifact
<1>4. CASE CreateView
  <2>0. view \in [Db -> [View -> Doc \cup {NoView}]]
    OBVIOUS
  <2>1. cur.doc \in Doc /\ DbOf[cur.doc] \in Db
    BY <1>4 DEF CreateView, TypeObjects, CopiesInv, SemanticModel
  <2>2. view' = view \/ \E v \in View : view' = [view EXCEPT ![DbOf[cur.doc]][v] = cur.doc]
    BY <1>4, <2>1 DEF CreateView, CreateViewIn
  <2>3. ASSUME NEW v \in View
        PROVE  [view EXCEPT ![DbOf[cur.doc]][v] = cur.doc] \in [Db -> [View -> Doc \cup {NoView}]]
    <3>1. cur.doc \in Doc \cup {NoView}
      BY <2>1
    <3> QED
      BY <2>0, <2>1, <3>1, ViewUpdate, Zenon
  <2>4. view' \in [Db -> [View -> Doc \cup {NoView}]]
    <3>1. CASE view' = view
      BY <2>0, <3>1
    <3>2. CASE \E v \in View : view' = [view EXCEPT ![DbOf[cur.doc]][v] = cur.doc]
      <4>1. PICK v \in View : view' = [view EXCEPT ![DbOf[cur.doc]][v] = cur.doc]
        BY <3>2, Zenon
      <4>2. [view EXCEPT ![DbOf[cur.doc]][v] = cur.doc] \in [Db -> [View -> Doc \cup {NoView}]]
        BY <2>3, Zenon
      <4> QED
        BY <4>1, <4>2, Zenon
    <3> QED
      BY <2>2, <3>1, <3>2
  <2> QED
    BY <1>4, <2>4 DEF CreateView
<1>5. CASE DropStale
  BY <1>5, DropOneEngine DEF DropStale, TypeObjects, TypeJob, CopiesInv,
                             SemanticModel
<1>6. CASE FinalizeDrop
  BY <1>6, DropOneEngine DEF FinalizeDrop, TypeObjects, TypeJob, CopiesInv,
                             SemanticModel
<1>7. ASSUME NEW d \in Doc, CreateModel(d) PROVE TypeEngine'
  BY <1>7 DEF CreateModel
<1>8. ASSUME NEW d \in Doc, EditModel(d) PROVE TypeEngine'
  BY <1>8 DEF EditModel
<1>9. ASSUME NEW d \in Dataset, NEW s \in Shape, AlterTable(d, s) PROVE TypeEngine'
  BY <1>9 DEF AlterTable
<1>10. CASE UNCHANGED vars
  BY <1>10 DEF vars
<1> QED
  BY <1>1, <1>2, <1>3, <1>4, <1>5, <1>6, <1>7, <1>8, <1>9, <1>10
  DEF Next, ReconcileStep, Environment

\* What the three steps that rebuild the in-memory object leave behind.
LEMMA AddFinalizerCopy ==
    ASSUME TypeObjects, CopiesInv, AddFinalizer
    PROVE  [cur EXCEPT !.fin = TRUE] \in SemanticModel
BY DEF TypeObjects, CopiesInv, AddFinalizer, SemanticModel

LEMMA ValidateCompileCopy ==
    ASSUME TypeObjects, CopiesInv, ValidateCompile
    PROVE  cur' \in SemanticModel /\ cur'.doc = cur.doc
<1> DEFINE m == [cur EXCEPT !.status.ver = cur.doc]
<1>1. cur \in SemanticModel
  BY DEF ValidateCompile, CopiesInv, TypeObjects
<1>2. m \in SemanticModel /\ m.doc = cur.doc
  BY <1>1 DEF SemanticModel, Status
<1> HIDE DEF m
<1>3. \A c \in Cond, t \in Truth :
         SetCond(m, c, t) \in SemanticModel /\ SetCond(m, c, t).doc = cur.doc
  BY <1>2, SetCondType
<1>4. LET n == SetCond(SetCond(m, "Validated", "True"), "Compiled", "False")
      IN  n \in SemanticModel /\ n.doc = cur.doc
  BY <1>3, SetCondType DEF Cond, Truth
<1> QED
  BY <1>3, <1>4 DEF ValidateCompile, Cond, Truth, m

LEMMA RecordOwnedViewsCopy ==
    ASSUME TypeObjects, CopiesInv, RecordOwnedViews
    PROVE  cur' \in SemanticModel /\ sm' \in SemanticModel \cup {NoSM}
<1> DEFINE m == [sm EXCEPT !.owned = ViewsOf[cur.doc]]
<1>1. cur \in SemanticModel
  BY DEF RecordOwnedViews, CopiesInv, TypeObjects
<1>2. ViewsOf[cur.doc] \in Seq(View)
  BY <1>1 DEF SemanticModel
<1>3. fresh => m \in SemanticModel /\ Decoded(m, cur) \in SemanticModel
  BY <1>1, <1>2 DEF CopiesInv, TypeObjects, Decoded, SemanticModel
<1>4. sm' \in SemanticModel \cup {NoSM}
  BY <1>3 DEF RecordOwnedViews, Accepted, Apply, Conflict, NotFound, CallFails, Stored,
              TypeObjects
<1>5. cur' \in SemanticModel
  BY <1>1, <1>3, SetCondType
  DEF RecordOwnedViews, Accepted, Apply, ViewsFailed, Cond, Truth
<1> QED
  BY <1>4, <1>5

\* The objects and their copies stay well typed.
LEMMA ObjectsStep ==
    TypeObjects /\ TypeJob /\ TypeBounds /\ CopiesInv /\ [Next]_vars
        => TypeObjects'
<1> SUFFICES ASSUME TypeObjects, TypeJob, TypeBounds, CopiesInv, [Next]_vars
             PROVE  TypeObjects'
  OBVIOUS
<1> USE DEF TypeObjects, apiVars, cacheVars, engineVars, queueVars, bindVars,
            viewVars, jobVars, UserVarsUnchanged, Return, ReturnResync, ReturnError,
            ResetJob, Apply, Accepted, Conflict, NotFound, CallFails, Stored
<1>1. CASE StartReconcile \/ BindDataset \/ BindUnreachable \/ FinalizeDrop \/
           SyncSM \/ SyncCM \/ ResyncDue \/ GarbageCollect
  BY <1>1 DEF StartReconcile, BindDataset, BindUnreachable, FinalizeDrop, SyncSM,
              SyncCM, ResyncDue, GarbageCollect
<1>2. CASE CrashRestart \/ TouchModel \/ DeleteArtifact
  BY <1>2 DEF CrashRestart, TouchModel, DeleteArtifact
<1>3. CASE AddFinalizer
  BY <1>3, AddFinalizerCopy DEF AddFinalizer, CopiesInv, Goto
<1>4. CASE ValidateCompile
  BY <1>4, ValidateCompileCopy DEF ValidateCompile
<1>5. CASE BindDone
  BY <1>5, SetCondType DEF BindDone, CopiesInv, Cond, Truth, ViewsFailed
<1>6. CASE PublishTooLarge
  BY <1>6, SetCondType DEF PublishTooLarge, CopiesInv, Cond, Truth, ViewsFailed
<1>7. CASE PublishArtifact
  <2>1. cur \in SemanticModel
    BY <1>7 DEF PublishArtifact, CopiesInv
  <2>2. cur' \in SemanticModel
    BY <1>7, <2>1, SetCondType DEF PublishArtifact, Published, PublishFailed, Cond, Truth
  <2>3. Artifact \in ConfigMap
    BY <2>1 DEF Artifact, ConfigMap, SemanticModel, TypeJob
  <2>4. cm' = cm \/ cm' = Artifact
    BY <1>7 DEF PublishArtifact, WriteArtifact
  <2> QED
    BY <1>7, <2>2, <2>3, <2>4 DEF PublishArtifact
<1>8. CASE CreateSchema
  BY <1>8, SetCondType DEF CreateSchema, CopiesInv, Cond, Truth, ViewsFailed
<1>9. CASE CreateView
  BY <1>9, SetCondType DEF CreateView, CopiesInv, Cond, Truth, ViewsFailed
<1>10. CASE DropStale
  BY <1>10, SetCondType DEF DropStale, CopiesInv, Cond, Truth, ViewsFailed
<1>11. CASE RecordOwnedViews
  BY <1>11, RecordOwnedViewsCopy DEF RecordOwnedViews
<1>12. CASE StatusUpdate
  BY <1>12 DEF StatusUpdate, SemanticModel, CopiesInv
<1>13. CASE StatusBestEffort
  BY <1>13 DEF StatusBestEffort, SemanticModel, CopiesInv
<1>14. CASE ReleaseFinalizer
  BY <1>14 DEF ReleaseFinalizer, SemanticModel, CopiesInv
<1>15. CASE DeleteModel
  BY <1>15 DEF DeleteModel, SemanticModel, CopiesInv
<1>16. ASSUME NEW d \in Doc, CreateModel(d) PROVE TypeObjects'
  <2>1. NoStatus \in Status
    BY DEF NoStatus, Status, Truth
  <2>2. sm' \in SemanticModel
    BY <1>16, <2>1 DEF CreateModel, SemanticModel, UserWrites, TypeBounds
  <2> QED
    BY <1>16, <2>2 DEF CreateModel
<1>17. ASSUME NEW d \in Doc, EditModel(d) PROVE TypeObjects'
  BY <1>17 DEF EditModel, SemanticModel, CopiesInv
<1>18. ASSUME NEW d \in Dataset, NEW s \in Shape, AlterTable(d, s) PROVE TypeObjects'
  BY <1>18 DEF AlterTable
<1>19. CASE UNCHANGED vars
  BY <1>19 DEF vars
<1> QED
  BY <1>1, <1>2, <1>3, <1>4, <1>5, <1>6, <1>7, <1>8, <1>9, <1>10, <1>11, <1>12,
     <1>13, <1>14, <1>15, <1>16, <1>17, <1>18, <1>19
  DEF Next, ReconcileStep, Environment

\* The local variables of a reconcile stay well typed.
LEMMA JobStep ==
    TypeObjects /\ TypeEngine /\ TypeJob /\ CopiesInv /\ [Next]_vars
        => TypeJob'
<1> SUFFICES ASSUME TypeObjects, TypeEngine, TypeJob, CopiesInv, [Next]_vars
             PROVE  TypeJob'
  OBVIOUS
<1> USE DEF TypeJob, PCs, apiVars, cacheVars, engineVars, queueVars, bindVars,
            viewVars, jobVars, UserVarsUnchanged, Return, ReturnResync, ReturnError,
            ResetJob, Goto, NoTypes
<1>1. CASE AddFinalizer \/ BindUnreachable \/ BindDone \/ PublishTooLarge \/
           StatusUpdate \/ StatusBestEffort \/ ReleaseFinalizer \/ SyncSM
  BY <1>1 DEF AddFinalizer, BindUnreachable, BindDone, PublishTooLarge,
              StatusUpdate, StatusBestEffort, ReleaseFinalizer, SyncSM
<1>2. CASE SyncCM \/ ResyncDue \/ GarbageCollect \/ CrashRestart \/ DeleteModel \/
           TouchModel \/ DeleteArtifact
  BY <1>2 DEF SyncCM, ResyncDue, GarbageCollect, CrashRestart, DeleteModel,
              TouchModel, DeleteArtifact
<1>3. CASE StartReconcile
  <2>1. smCache # NoSM => Owned(smCache) \in SUBSET View
    BY OwnedType DEF TypeObjects
  <2> QED
    BY <1>3, <2>1 DEF StartReconcile
<1>4. CASE ValidateCompile
  BY <1>4 DEF ValidateCompile, TypeObjects, CopiesInv, SemanticModel
<1>5. CASE BindDataset
  BY <1>5 DEF BindDataset, Described, NotResolvable, TypeEngine
<1>6. CASE PublishArtifact
  <2>1. Owned(cur) \in SUBSET View
    BY <1>6, OwnedType DEF PublishArtifact, TypeObjects, CopiesInv
  <2>2. stale' \in SUBSET View /\ types' \in [Dataset -> Shape \cup {NoShape}] /\ pc' \in PCs
    BY <1>6, <2>1 DEF PublishArtifact, Published, PublishFailed
  <2> QED
    BY <1>6, <2>2 DEF PublishArtifact
<1>7. CASE CreateSchema
  BY <1>7 DEF CreateSchema, ViewsFailed
<1>8. CASE CreateView
  <2>1. Owned(cur) \in SUBSET View
    BY <1>8, OwnedType DEF CreateView, TypeObjects, CopiesInv
  <2>2. stale' \in SUBSET View /\ next' \in Nat \ {0} /\ pc' \in PCs
    BY <1>8, <2>1 DEF CreateView, ViewsFailed
  <2> QED
    BY <1>8, <2>2 DEF CreateView
<1>9. CASE DropStale
  BY <1>9, DropOneStale DEF DropStale, ViewsFailed
<1>10. CASE RecordOwnedViews
  <2>1. pc' \in PCs
    BY <1>10 DEF RecordOwnedViews, ViewsFailed
  <2> QED
    BY <1>10, <2>1 DEF RecordOwnedViews
<1>11. CASE FinalizeDrop
  BY <1>11, DropOneStale DEF FinalizeDrop
<1>12. ASSUME NEW d \in Doc, CreateModel(d) PROVE TypeJob'
  BY <1>12 DEF CreateModel
<1>13. ASSUME NEW d \in Doc, EditModel(d) PROVE TypeJob'
  BY <1>13 DEF EditModel
<1>14. ASSUME NEW d \in Dataset, NEW s \in Shape, AlterTable(d, s) PROVE TypeJob'
  BY <1>14 DEF AlterTable
<1>15. CASE UNCHANGED vars
  BY <1>15 DEF vars
<1> QED
  BY <1>1, <1>2, <1>3, <1>4, <1>5, <1>6, <1>7, <1>8, <1>9, <1>10, <1>11, <1>12,
     <1>13, <1>14, <1>15
  DEF Next, ReconcileStep, Environment

\* A running reconcile has a SemanticModel in memory.
LEMMA CurStep ==
    TypeObjects /\ TypeJob /\ TypeBounds /\ CopiesInv /\ [Next]_vars
        => (pc # "idle" => cur # NoSM)'
<1> SUFFICES ASSUME TypeObjects, TypeJob, TypeBounds, CopiesInv, [Next]_vars
             PROVE  (pc # "idle" => cur # NoSM)'
  OBVIOUS
<1> USE DEF CopiesInv, apiVars, cacheVars, engineVars, queueVars, bindVars,
            viewVars, jobVars, UserVarsUnchanged, Return, ReturnResync, ReturnError,
            ResetJob, Goto
<1>1. CASE BindDataset \/ BindUnreachable \/ StatusUpdate \/ StatusBestEffort \/
           FinalizeDrop \/ ReleaseFinalizer \/ SyncSM \/ SyncCM
  BY <1>1 DEF BindDataset, BindUnreachable, StatusUpdate, StatusBestEffort,
              FinalizeDrop, ReleaseFinalizer, SyncSM, SyncCM
<1>2. CASE ResyncDue \/ GarbageCollect \/ CrashRestart \/ DeleteModel \/
           TouchModel \/ DeleteArtifact
  BY <1>2 DEF ResyncDue, GarbageCollect, CrashRestart, DeleteModel, TouchModel,
              DeleteArtifact
<1>3. CASE StartReconcile
  BY <1>3 DEF StartReconcile, Orphaned
<1>4. CASE AddFinalizer
  BY <1>4, AddFinalizerCopy DEF AddFinalizer, TypeObjects, SemanticModel
<1>5. CASE ValidateCompile
  BY <1>5, ValidateCompileCopy DEF ValidateCompile, TypeObjects, Cond, Truth,
                                   ViewsFailed, Published, PublishFailed
<1>6. CASE BindDone
  BY <1>6, SetCondType DEF BindDone, TypeObjects, Cond, Truth, ViewsFailed,
                           Published, PublishFailed
<1>7. CASE PublishTooLarge
  BY <1>7, SetCondType DEF PublishTooLarge, TypeObjects, Cond, Truth, ViewsFailed,
                           Published, PublishFailed
<1>8. CASE PublishArtifact
  BY <1>8, SetCondType DEF PublishArtifact, TypeObjects, Cond, Truth, ViewsFailed,
                           Published, PublishFailed
<1>9. CASE CreateSchema
  BY <1>9, SetCondType DEF CreateSchema, TypeObjects, Cond, Truth, ViewsFailed,
                           Published, PublishFailed
<1>10. CASE CreateView
  BY <1>10, SetCondType DEF CreateView, TypeObjects, Cond, Truth, ViewsFailed
<1>11. CASE DropStale
  BY <1>11, SetCondType DEF DropStale, TypeObjects, Cond, Truth, ViewsFailed,
                            Published, PublishFailed
<1>12. CASE RecordOwnedViews
  BY <1>12, RecordOwnedViewsCopy DEF RecordOwnedViews, TypeObjects, Cond, Truth,
                                     ViewsFailed, Published, PublishFailed
<1>13. ASSUME NEW d \in Doc, CreateModel(d) PROVE (pc # "idle" => cur # NoSM)'
  BY <1>13 DEF CreateModel
<1>14. ASSUME NEW d \in Doc, EditModel(d) PROVE (pc # "idle" => cur # NoSM)'
  BY <1>14 DEF EditModel
<1>15. ASSUME NEW d \in Dataset, NEW s \in Shape, AlterTable(d, s) PROVE (pc # "idle" => cur # NoSM)'
  BY <1>15 DEF AlterTable
<1>16. CASE UNCHANGED vars
  BY <1>16 DEF vars
<1> QED
  BY <1>1, <1>2, <1>3, <1>4, <1>5, <1>6, <1>7, <1>8, <1>9, <1>10, <1>11, <1>12,
     <1>13, <1>14, <1>15, <1>16
  DEF Next, ReconcileStep, Environment

\* A cache that has seen the last event holds the object.
LEMMA SeenStep ==
    TypeFlags /\ CopiesInv /\ [Next]_vars
        => (smSeen => smCache = sm)'
<1> SUFFICES ASSUME TypeFlags, CopiesInv, [Next]_vars
             PROVE  (smSeen => smCache = sm)'
  OBVIOUS
<1> USE DEF CopiesInv, apiVars, cacheVars, engineVars, queueVars, bindVars,
            viewVars, jobVars, UserVarsUnchanged, Outdated, Apply, Accepted,
            Conflict, NotFound, CallFails
<1>1. CASE StartReconcile \/ AddFinalizer \/ ValidateCompile \/ BindDataset \/
           BindUnreachable \/ BindDone \/ PublishTooLarge \/ PublishArtifact
  BY <1>1 DEF StartReconcile, AddFinalizer, ValidateCompile, BindDataset,
              BindUnreachable, BindDone, PublishTooLarge, PublishArtifact
<1>2. CASE CreateSchema \/ CreateView \/ DropStale \/ RecordOwnedViews \/
           StatusUpdate \/ StatusBestEffort \/ FinalizeDrop \/ ReleaseFinalizer
  BY <1>2 DEF CreateSchema, CreateView, DropStale, RecordOwnedViews, StatusUpdate,
              StatusBestEffort, FinalizeDrop, ReleaseFinalizer
<1>3. CASE SyncSM \/ SyncCM \/ ResyncDue \/ GarbageCollect \/ CrashRestart \/
           DeleteModel \/ TouchModel \/ DeleteArtifact
  BY <1>3 DEF SyncSM, SyncCM, ResyncDue, GarbageCollect, CrashRestart, DeleteModel,
              TouchModel, DeleteArtifact
<1>4. ASSUME NEW d \in Doc, CreateModel(d) PROVE (smSeen => smCache = sm)'
  BY <1>4 DEF CreateModel
<1>5. ASSUME NEW d \in Doc, EditModel(d) PROVE (smSeen => smCache = sm)'
  BY <1>5 DEF EditModel
<1>6. ASSUME NEW d \in Dataset, NEW s \in Shape, AlterTable(d, s) PROVE (smSeen => smCache = sm)'
  BY <1>6 DEF AlterTable
<1>7. CASE UNCHANGED vars
  BY <1>7 DEF vars
<1> QED
  BY <1>1, <1>2, <1>3, <1>4, <1>5, <1>6, <1>7
  DEF Next, ReconcileStep, Environment

\* A fresh copy belongs to a running reconcile of an existing object.
LEMMA FreshStep ==
    TypeObjects /\ CopiesInv /\ [Next]_vars
        => (fresh => pc # "idle" /\ sm # NoSM)'
<1> SUFFICES ASSUME TypeObjects, CopiesInv, [Next]_vars
             PROVE  (fresh => pc # "idle" /\ sm # NoSM)'
  OBVIOUS
<1> USE DEF CopiesInv, apiVars, cacheVars, engineVars, queueVars, bindVars,
            viewVars, jobVars, UserVarsUnchanged, Outdated, Return, ReturnResync,
            ReturnError, ResetJob, Goto, Apply, Accepted, Conflict, NotFound,
            CallFails, Stored
<1>1. CASE StartReconcile \/ BindDataset \/ BindUnreachable \/ StatusUpdate \/
           StatusBestEffort \/ FinalizeDrop \/ ReleaseFinalizer \/ SyncSM
  BY <1>1 DEF StartReconcile, BindDataset, BindUnreachable, StatusUpdate,
              StatusBestEffort, FinalizeDrop, ReleaseFinalizer, SyncSM
<1>2. CASE SyncCM \/ ResyncDue \/ GarbageCollect \/ CrashRestart \/ DeleteModel \/
           TouchModel \/ DeleteArtifact
  BY <1>2 DEF SyncCM, ResyncDue, GarbageCollect, CrashRestart, DeleteModel,
              TouchModel, DeleteArtifact
<1>3. CASE AddFinalizer
  <2> DEFINE m == [cur EXCEPT !.fin = TRUE]
  <2>1. m \in SemanticModel /\ m.fin
    BY <1>3, AddFinalizerCopy DEF AddFinalizer, TypeObjects, SemanticModel
  <2>2. Stored(m) # NoSM
    BY <2>1 DEF Stored
  <2> QED
    BY <1>3, <2>2 DEF AddFinalizer
<1>4. CASE ValidateCompile
  BY <1>4 DEF ValidateCompile, ViewsFailed, Published, PublishFailed
<1>5. CASE BindDone
  BY <1>5 DEF BindDone, ViewsFailed, Published, PublishFailed
<1>6. CASE PublishTooLarge
  BY <1>6 DEF PublishTooLarge, ViewsFailed, Published, PublishFailed
<1>7. CASE PublishArtifact
  BY <1>7 DEF PublishArtifact, ViewsFailed, Published, PublishFailed
<1>8. CASE CreateSchema
  BY <1>8 DEF CreateSchema, ViewsFailed, Published, PublishFailed
<1>9. CASE CreateView
  BY <1>9 DEF CreateView, ViewsFailed, Published, PublishFailed
<1>10. CASE DropStale
  BY <1>10 DEF DropStale, ViewsFailed, Published, PublishFailed
<1>11. CASE RecordOwnedViews
  <2> DEFINE m == [sm EXCEPT !.owned = ViewsOf[cur.doc]]
  <2>1. fresh => m \in SemanticModel /\ Stored(m) = m
    <3>1. cur.doc \in Doc
      BY <1>11 DEF RecordOwnedViews, TypeObjects, SemanticModel
    <3> QED
      BY <3>1 DEF TypeObjects, SemanticModel, Orphaned
  <2>2. fresh => Stored(m) # NoSM
    BY <2>1
  <2> QED
    BY <1>11, <2>2 DEF RecordOwnedViews, ViewsFailed
<1>12. ASSUME NEW d \in Doc, CreateModel(d) PROVE (fresh => pc # "idle" /\ sm # NoSM)'
  BY <1>12 DEF CreateModel
<1>13. ASSUME NEW d \in Doc, EditModel(d) PROVE (fresh => pc # "idle" /\ sm # NoSM)'
  BY <1>13 DEF EditModel
<1>14. ASSUME NEW d \in Dataset, NEW s \in Shape, AlterTable(d, s) PROVE (fresh => pc # "idle" /\ sm # NoSM)'
  BY <1>14 DEF AlterTable
<1>15. CASE UNCHANGED vars
  BY <1>15 DEF vars
<1> QED
  BY <1>1, <1>2, <1>3, <1>4, <1>5, <1>6, <1>7, <1>8, <1>9, <1>10, <1>11, <1>12,
     <1>13, <1>14, <1>15
  DEF Next, ReconcileStep, Environment

\* No object, stored or cached, is being deleted without the finalizer.
LEMMA OrphanStep ==
    TypeObjects /\ CopiesInv /\ [Next]_vars
        => (~Orphaned(sm) /\ ~Orphaned(smCache))'
<1> SUFFICES ASSUME TypeObjects, CopiesInv, [Next]_vars
             PROVE  (~Orphaned(sm) /\ ~Orphaned(smCache))'
  OBVIOUS
<1> USE DEF CopiesInv, Orphaned, apiVars, cacheVars, engineVars, queueVars,
            bindVars, viewVars, jobVars, UserVarsUnchanged, Apply, Accepted,
            Conflict, NotFound, CallFails, Stored
<1>1. CASE StartReconcile \/ AddFinalizer \/ ValidateCompile \/ BindDataset \/
           BindUnreachable \/ BindDone \/ PublishTooLarge \/ PublishArtifact
  BY <1>1 DEF StartReconcile, AddFinalizer, ValidateCompile, BindDataset,
              BindUnreachable, BindDone, PublishTooLarge, PublishArtifact
<1>2. CASE CreateSchema \/ CreateView \/ DropStale \/ RecordOwnedViews \/
           StatusUpdate \/ StatusBestEffort \/ FinalizeDrop \/ ReleaseFinalizer
  BY <1>2 DEF CreateSchema, CreateView, DropStale, RecordOwnedViews, StatusUpdate,
              StatusBestEffort, FinalizeDrop, ReleaseFinalizer
<1>3. CASE SyncSM \/ SyncCM \/ ResyncDue \/ GarbageCollect \/ CrashRestart \/
           DeleteModel \/ TouchModel \/ DeleteArtifact
  BY <1>3 DEF SyncSM, SyncCM, ResyncDue, GarbageCollect, CrashRestart, DeleteModel,
              TouchModel, DeleteArtifact
<1>4. ASSUME NEW d \in Doc, CreateModel(d) PROVE (~Orphaned(sm) /\ ~Orphaned(smCache))'
  BY <1>4 DEF CreateModel
<1>5. ASSUME NEW d \in Doc, EditModel(d) PROVE (~Orphaned(sm) /\ ~Orphaned(smCache))'
  BY <1>5 DEF EditModel
<1>6. ASSUME NEW d \in Dataset, NEW s \in Shape, AlterTable(d, s) PROVE (~Orphaned(sm) /\ ~Orphaned(smCache))'
  BY <1>6 DEF AlterTable
<1>7. CASE UNCHANGED vars
  BY <1>7 DEF vars
<1> QED
  BY <1>1, <1>2, <1>3, <1>4, <1>5, <1>6, <1>7
  DEF Next, ReconcileStep, Environment

\* The four parts of CopiesInv together.
LEMMA CopiesStep ==
    TypeObjects /\ TypeFlags /\ TypeJob /\ TypeBounds /\ CopiesInv /\ [Next]_vars => CopiesInv'
BY CurStep, SeenStep, FreshStep, OrphanStep DEF CopiesInv

\* bind establishes what publish relies on.
LEMMA BindStep ==
    TypeObjects /\ TypeEngine /\ TypeJob /\ CopiesInv /\ BindInv /\ [Next]_vars
        => BindInv'
<1> SUFFICES ASSUME TypeObjects, TypeEngine, TypeJob, CopiesInv, BindInv, [Next]_vars
             PROVE  BindInv'
  OBVIOUS
<1> USE DEF BindInv, apiVars, cacheVars, engineVars, queueVars, bindVars, viewVars,
            jobVars, UserVarsUnchanged, Return, ReturnResync, ReturnError, ResetJob,
            Goto
<1>1. CASE StartReconcile \/ AddFinalizer \/ BindUnreachable \/ StatusUpdate \/
           StatusBestEffort \/ FinalizeDrop \/ ReleaseFinalizer \/ SyncSM
  BY <1>1 DEF StartReconcile, AddFinalizer, BindUnreachable, StatusUpdate,
              StatusBestEffort, FinalizeDrop, ReleaseFinalizer, SyncSM
<1>2. CASE SyncCM \/ ResyncDue \/ GarbageCollect \/ CrashRestart \/ DeleteModel \/
           TouchModel \/ DeleteArtifact
  BY <1>2 DEF SyncCM, ResyncDue, GarbageCollect, CrashRestart, DeleteModel,
              TouchModel, DeleteArtifact
<1>3. CASE ValidateCompile
  BY <1>3, ValidateCompileCopy DEF ValidateCompile, TypeObjects, CopiesInv,
                                   SemanticModel
<1>4. CASE BindDataset
  <2>1. PICK d \in unbound :
           /\ unbound' = unbound \ {d}
           /\ Described(d) \/ NotResolvable
    BY <1>4 DEF BindDataset
  <2>2. cur' = cur /\ pc' = "bind" /\ pc = "bind"
    BY <1>4 DEF BindDataset
  <2>3. CASE NotResolvable
    BY <2>2, <2>3 DEF NotResolvable
  <2>4. CASE Described(d)
    <3>1. ASSUME ~drift', NEW s \in DatasetsOf[cur.doc] \ unbound'
          PROVE  <<cur.doc, s, types'[s]>> \in Accepts
      <4>1. CASE s = d
        BY <2>1, <2>4, <3>1, <4>1 DEF Described, TypeJob
      <4>2. CASE s # d
        BY <2>1, <2>2, <2>4, <3>1, <4>2 DEF Described, TypeJob
      <4> QED
        BY <4>1, <4>2
    <3> QED
      BY <2>2, <3>1
  <2> QED
    BY <2>1, <2>3, <2>4
<1>5. CASE BindDone
  <2>1. cur'.doc = cur.doc
    BY <1>5, SetCondType DEF BindDone, TypeObjects, CopiesInv, Cond, Truth
  <2>2. CASE drift
    BY <1>5, <2>2 DEF BindDone
  <2>3. CASE ~drift
    <3>1. \A s \in DatasetsOf[cur.doc] : <<cur.doc, s, types[s]>> \in Accepts
      BY <1>5, <2>3 DEF BindDone
    <3> QED
      BY <1>5, <2>1, <2>3, <3>1 DEF BindDone, Bound
  <2> QED
    BY <2>2, <2>3
<1>6. CASE PublishTooLarge
  BY <1>6, SetCondType DEF PublishTooLarge
<1>7. CASE PublishArtifact
  BY <1>7, SetCondType DEF PublishArtifact, Published, PublishFailed
<1>8. CASE CreateSchema
  BY <1>8, SetCondType DEF CreateSchema, ViewsFailed
<1>9. CASE CreateView
  BY <1>9 DEF CreateView, ViewsFailed
<1>10. CASE DropStale
  BY <1>10, SetCondType DEF DropStale, ViewsFailed
<1>11. CASE RecordOwnedViews
  BY <1>11, SetCondType DEF RecordOwnedViews, ViewsFailed
<1>12. ASSUME NEW d \in Doc, CreateModel(d) PROVE BindInv'
  BY <1>12 DEF CreateModel
<1>13. ASSUME NEW d \in Doc, EditModel(d) PROVE BindInv'
  BY <1>13 DEF EditModel
<1>14. ASSUME NEW d \in Dataset, NEW s \in Shape, AlterTable(d, s) PROVE BindInv'
  BY <1>14 DEF AlterTable
<1>15. CASE UNCHANGED vars
  BY <1>15 DEF vars
<1> QED
  BY <1>1, <1>2, <1>3, <1>4, <1>5, <1>6, <1>7, <1>8, <1>9, <1>10, <1>11, <1>12,
     <1>13, <1>14, <1>15
  DEF Next, ReconcileStep, Environment

\* No step publishes an artifact that has not been vetted.
LEMMA VettedStep ==
    TypeObjects /\ TypeJob /\ CopiesInv /\ BindInv /\ PublishedIsVetted /\ [Next]_vars
        => PublishedIsVetted'
<1> SUFFICES ASSUME TypeObjects, TypeJob, CopiesInv, BindInv, PublishedIsVetted, [Next]_vars
             PROVE  PublishedIsVetted'
  OBVIOUS
<1> USE DEF PublishedIsVetted, apiVars, cacheVars, engineVars, queueVars, bindVars,
            viewVars, jobVars, UserVarsUnchanged
<1>1. CASE StartReconcile \/ AddFinalizer \/ ValidateCompile \/ BindDataset \/
           BindUnreachable \/ BindDone \/ PublishTooLarge \/ CreateSchema
  BY <1>1 DEF StartReconcile, AddFinalizer, ValidateCompile, BindDataset,
              BindUnreachable, BindDone, PublishTooLarge, CreateSchema
<1>2. CASE CreateView \/ DropStale \/ RecordOwnedViews \/ StatusUpdate \/
           StatusBestEffort \/ FinalizeDrop \/ ReleaseFinalizer \/ SyncSM
  BY <1>2 DEF CreateView, DropStale, RecordOwnedViews, StatusUpdate,
              StatusBestEffort, FinalizeDrop, ReleaseFinalizer, SyncSM
<1>3. CASE SyncCM \/ ResyncDue \/ GarbageCollect \/ CrashRestart \/ DeleteModel \/
           TouchModel \/ DeleteArtifact
  BY <1>3 DEF SyncCM, ResyncDue, GarbageCollect, CrashRestart, DeleteModel,
              TouchModel, DeleteArtifact
<1>4. CASE PublishArtifact
  <2>1. Vetted(Artifact)
    BY <1>4 DEF PublishArtifact, BindInv, Vetted, Artifact, Bound
  <2>2. cm' = cm \/ cm' = Artifact
    BY <1>4 DEF PublishArtifact, WriteArtifact
  <2> QED
    BY <2>1, <2>2 DEF Vetted, Bound
<1>5. ASSUME NEW d \in Doc, CreateModel(d) PROVE PublishedIsVetted'
  BY <1>5 DEF CreateModel
<1>6. ASSUME NEW d \in Doc, EditModel(d) PROVE PublishedIsVetted'
  BY <1>6 DEF EditModel
<1>7. ASSUME NEW d \in Dataset, NEW s \in Shape, AlterTable(d, s) PROVE PublishedIsVetted'
  BY <1>7 DEF AlterTable
<1>8. CASE UNCHANGED vars
  BY <1>8 DEF vars
<1> QED
  BY <1>1, <1>2, <1>3, <1>4, <1>5, <1>6, <1>7, <1>8
  DEF Next, ReconcileStep, Environment

\* IInv is inductive.
LEMMA IInvStep == IInv /\ [Next]_vars => IInv'
BY FlagsStep, BoundsStep, EngineStep, ObjectsStep, JobStep, CopiesStep, BindStep, VettedStep
DEF IInv, TypeOK

-----------------------------------------------------------------------------
(* The inductive invariant behind RestIsExplained: whatever can still wake   *)
(* the reconciler up excuses the state; when nothing can, the reconcile in   *)
(* progress works on the stored object and has established, up to where it   *)
(* is, what the status it is going to write says.                            *)

\* Something will call Reconcile (again).
Pending == queued \/ ~smSeen \/ ~cmSeen

\* What RestIsExplained says of the object at rest.
Explained ==
    /\ sm.fin /\ ~sm.deleting /\ sm.status.ver = sm.doc
    /\ \/ sm.doc \notin Valid /\ Is("Validated", "False")
       \/ sm.doc \in Valid \ Compilable /\ Is("Compiled", "False")
       \/ Is("DriftDetected", "True") /\ timer
       \/ sm.doc \notin Fits /\ Is("Published", "False")
       \/ InPlace /\ timer

\* The in-memory object is the stored one, but for the status being computed.
InSync ==
    /\ fresh
    /\ cur.uid = sm.uid /\ cur.doc = sm.doc /\ cur.owned = sm.owned
    /\ cur.deleting = sm.deleting /\ cur.fin = sm.fin

\* A condition of the status being computed.
Says(c, truth) == cur.status.cond[c] = truth

Finalizing == {"finalDrop", "release"}
PastPublish == {"schema", "create", "drop", "annotate"}
PastBind == PastPublish \cup {"publish"}
PastValidate == PastBind \cup {"bind"}

Vouched == Says("Validated", "True") /\ cur.status.ver = cur.doc

Bindable == Says("DriftDetected", "False") /\ Says("Compiled", "True")

PublishedHere ==
    /\ Says("Published", "True")
    /\ cm # NoCM /\ cm.doc = cur.doc /\ cm.owner = cur.uid

Created(v) == view[DbOf[cur.doc]][v] = cur.doc

\* The views before the one to create next.
CreatedSoFar ==
    /\ next <= Len(ViewsOf[cur.doc])
    /\ \A i \in DOMAIN ViewsOf[cur.doc] : i < next => Created(ViewsOf[cur.doc][i])

AllCreated == \A v \in Declared(cur.doc) : Created(v)

\* The status names what stands in the way and no resync is due.
Refused ==
    \/ cur.doc \notin Valid /\ Says("Validated", "False")
    \/ cur.doc \in Valid \ Compilable /\ Says("Compiled", "False")
    \/ cur.doc \notin Fits /\ Says("Published", "False")

\* The status reports drift, or everything in place.
Completed ==
    \/ Says("DriftDetected", "True")
    \/ /\ Vouched /\ Bindable /\ PublishedHere /\ AllCreated
       /\ Says("ViewsReady", "True")
       /\ cur.owned = ViewsOf[cur.doc]

Stage ==
    /\ pc \in Finalizing => cur.deleting
    /\ pc \notin Finalizing => ~cur.deleting
    /\ pc \notin Finalizing \cup {"finalizer"} => cur.fin
    /\ pc \in PastValidate => Vouched
    /\ pc \in PastBind => Bindable
    /\ pc \in PastPublish => PublishedHere
    /\ pc = "schema" => ViewsOf[cur.doc] # <<>>
    /\ pc = "create" => CreatedSoFar
    /\ pc \in {"drop", "annotate"} => AllCreated
    /\ pc = "drop" => stale \cap Declared(cur.doc) = {}
    /\ pc \in {"status", "statusResync"} => cur.status.ver = cur.doc
    /\ pc = "status" => Refused
    /\ pc = "statusResync" => Completed

RestInv ==
    /\ cmSeen => cmCache = cm
    /\ pc \notin {"create", "statusFail"} => next = 1
    /\ ~Pending /\ sm # NoSM => IF pc = "idle" THEN Explained ELSE InSync /\ Stage

(* The inductive invariant behind ReleasedAfterDrop.                        *)

\* finalize works on the object as it is stored unless somebody wrote to it,
\* and the views it has been through are gone unless a DROP failed.
DropInv ==
    /\ pc \in Finalizing /\ fresh => cur = sm
    /\ pc \in Finalizing /\ ~failed =>
          \A v \in Owned(cur) \ stale : view[DbOf[cur.doc]][v] = NoView
    /\ pc = "release" => stale = {}

\* Setting a condition (setCondition) changes that condition and nothing else.
LEMMA SetCondEffect ==
    ASSUME NEW m \in SemanticModel, NEW c \in Cond, NEW t \in Truth
    PROVE  /\ SetCond(m, c, t).uid = m.uid /\ SetCond(m, c, t).doc = m.doc
           /\ SetCond(m, c, t).owned = m.owned
           /\ SetCond(m, c, t).deleting = m.deleting /\ SetCond(m, c, t).fin = m.fin
           /\ SetCond(m, c, t).status.ver = m.status.ver
           /\ SetCond(m, c, t).status.cond[c] = t
BY DEF SetCond, SemanticModel, Status

LEMMA SetCondOthers ==
    ASSUME NEW m \in SemanticModel, NEW c \in Cond, NEW t \in Truth,
           NEW k \in Cond, k # c
    PROVE  SetCond(m, c, t).status.cond[k] = m.status.cond[k]
BY DEF SetCond, SemanticModel, Status

\* Once the ConfigMap's informer has delivered everything, its copy is exact.
LEMMA CmSeenStep ==
    (cmSeen => cmCache = cm) /\ [Next]_vars => (cmSeen => cmCache = cm)'
<1> SUFFICES ASSUME cmSeen => cmCache = cm, [Next]_vars
             PROVE  (cmSeen => cmCache = cm)'
  OBVIOUS
<1> USE DEF apiVars, cacheVars, UserVarsUnchanged
<1>1. CASE StartReconcile \/ AddFinalizer \/ ValidateCompile \/ BindDataset \/
           BindUnreachable \/ BindDone \/ PublishTooLarge \/ PublishArtifact
  BY <1>1 DEF StartReconcile, AddFinalizer, ValidateCompile, BindDataset,
              BindUnreachable, BindDone, PublishTooLarge, PublishArtifact, WriteArtifact
<1>2. CASE CreateSchema \/ CreateView \/ DropStale \/ RecordOwnedViews \/
           StatusUpdate \/ StatusBestEffort \/ FinalizeDrop \/ ReleaseFinalizer
  BY <1>2 DEF CreateSchema, CreateView, DropStale, RecordOwnedViews, StatusUpdate,
              StatusBestEffort, FinalizeDrop, ReleaseFinalizer
<1>3. CASE SyncSM \/ SyncCM \/ ResyncDue \/ GarbageCollect \/ CrashRestart \/
           DeleteModel \/ TouchModel \/ DeleteArtifact
  BY <1>3 DEF SyncSM, SyncCM, ResyncDue, GarbageCollect, CrashRestart, DeleteModel,
              TouchModel, DeleteArtifact
<1>4. ASSUME NEW d \in Doc, CreateModel(d) PROVE (cmSeen => cmCache = cm)'
  BY <1>4 DEF CreateModel
<1>5. ASSUME NEW d \in Doc, EditModel(d) PROVE (cmSeen => cmCache = cm)'
  BY <1>5 DEF EditModel
<1>6. ASSUME NEW d \in Dataset, NEW s \in Shape, AlterTable(d, s)
      PROVE  (cmSeen => cmCache = cm)'
  BY <1>6 DEF AlterTable
<1>7. CASE UNCHANGED vars
  BY <1>7 DEF vars
<1> QED
  BY <1>1, <1>2, <1>3, <1>4, <1>5, <1>6, <1>7
  DEF Next, ReconcileStep, Environment

\* The loop over the views starts at the first one.
LEMMA NextStep ==
    (pc \notin {"create", "statusFail"} => next = 1) /\ [Next]_vars
        => (pc \notin {"create", "statusFail"} => next = 1)'
<1> DEFINE Start == pc \notin {"create", "statusFail"} => next = 1
<1> SUFFICES ASSUME Start, [Next]_vars PROVE Start'
  OBVIOUS
<1> USE DEF apiVars, cacheVars, engineVars, queueVars, bindVars, viewVars, jobVars,
            UserVarsUnchanged, Return, ReturnResync, ReturnError, ResetJob, Goto,
            ViewsFailed, Published, PublishFailed
<1>1. CASE StartReconcile \/ AddFinalizer \/ ValidateCompile \/ BindDataset \/
           BindUnreachable \/ BindDone \/ PublishTooLarge \/ PublishArtifact
  BY <1>1 DEF StartReconcile, AddFinalizer, ValidateCompile, BindDataset,
              BindUnreachable, BindDone, PublishTooLarge, PublishArtifact
<1>2. CASE CreateSchema \/ CreateView \/ DropStale \/ RecordOwnedViews \/
           StatusUpdate \/ StatusBestEffort \/ FinalizeDrop \/ ReleaseFinalizer
  BY <1>2 DEF CreateSchema, CreateView, DropStale, RecordOwnedViews, StatusUpdate,
              StatusBestEffort, FinalizeDrop, ReleaseFinalizer
<1>3. CASE SyncSM \/ SyncCM \/ ResyncDue \/ GarbageCollect \/ CrashRestart \/
           DeleteModel \/ TouchModel \/ DeleteArtifact
  BY <1>3 DEF SyncSM, SyncCM, ResyncDue, GarbageCollect, CrashRestart, DeleteModel,
              TouchModel, DeleteArtifact
<1>4. ASSUME NEW d \in Doc, CreateModel(d) PROVE Start'
  BY <1>4 DEF CreateModel
<1>5. ASSUME NEW d \in Doc, EditModel(d) PROVE Start'
  BY <1>5 DEF EditModel
<1>6. ASSUME NEW d \in Dataset, NEW s \in Shape, AlterTable(d, s) PROVE Start'
  BY <1>6 DEF AlterTable
<1>7. CASE UNCHANGED vars
  BY <1>7 DEF vars
<1> QED
  BY <1>1, <1>2, <1>3, <1>4, <1>5, <1>6, <1>7
  DEF Next, ReconcileStep, Environment

\* While nothing can wake the reconciler up, nobody has written to either
\* object, and only the reconcile in progress moves: every other step leaves a
\* reason to reconcile again.
Calm == ~Pending /\ sm' = sm /\ cm' = cm

\* What the steps of the environment that leave no such reason keep.
Aside == UNCHANGED <<view, timer, jobVars>>

LEMMA CalmStep ==
    TypeFlags /\ [Next]_vars /\ ~Pending' /\ sm' # NoSM
        => \/ StartReconcile
           \/ Calm /\ (ReconcileStep \/ Aside)
<1> SUFFICES ASSUME TypeFlags, [Next]_vars, ~Pending', sm' # NoSM
             PROVE  StartReconcile \/ (Calm /\ (ReconcileStep \/ Aside))
  OBVIOUS
<1> USE DEF Pending, Calm, Aside, TypeFlags, apiVars, cacheVars, engineVars, queueVars,
            bindVars, viewVars, jobVars, UserVarsUnchanged, Outdated, Apply, Accepted,
            Conflict, NotFound, CallFails, Return, ReturnResync, ReturnError
<1>1. CASE ReconcileStep
  <2>1. CASE AddFinalizer \/ ValidateCompile \/ BindDataset \/ BindUnreachable \/
             BindDone \/ PublishTooLarge \/ PublishArtifact
    BY <1>1, <2>1 DEF AddFinalizer, ValidateCompile, BindDataset, BindUnreachable,
                      BindDone, PublishTooLarge, PublishArtifact, WriteArtifact
  <2>2. CASE CreateSchema \/ CreateView \/ DropStale \/ RecordOwnedViews
    BY <1>1, <2>2 DEF CreateSchema, CreateView, DropStale, RecordOwnedViews
  <2>3. CASE StatusUpdate \/ StatusBestEffort \/ FinalizeDrop \/ ReleaseFinalizer
    BY <1>1, <2>3 DEF StatusUpdate, StatusBestEffort, FinalizeDrop, ReleaseFinalizer
  <2> QED
    BY <1>1, <2>1, <2>2, <2>3 DEF ReconcileStep
<1>2. CASE SyncSM \/ SyncCM \/ ResyncDue \/ GarbageCollect \/ CrashRestart \/
           DeleteModel \/ TouchModel \/ DeleteArtifact
  BY <1>2 DEF SyncSM, SyncCM, ResyncDue, GarbageCollect, CrashRestart, DeleteModel,
              TouchModel, DeleteArtifact
<1>3. ASSUME NEW d \in Doc, CreateModel(d) PROVE FALSE
  BY <1>3 DEF CreateModel
<1>4. ASSUME NEW d \in Doc, EditModel(d) PROVE FALSE
  BY <1>4 DEF EditModel
<1>5. ASSUME NEW d \in Dataset, NEW s \in Shape, AlterTable(d, s) PROVE Calm /\ Aside
  BY <1>5 DEF AlterTable
<1>6. CASE UNCHANGED vars
  BY <1>6 DEF vars
<1> QED
  BY <1>1, <1>2, <1>3, <1>4, <1>5, <1>6 DEF Next, Environment

\* The state in which a working step of a reconcile is looked at.
Working ==
    /\ TypeOK /\ CopiesInv
    /\ cmSeen => cmCache = cm
    /\ pc \notin {"create", "statusFail"} => next = 1
    /\ pc # "idle" /\ Calm /\ ~Pending' /\ sm # NoSM
    /\ InSync /\ Stage

\* A step that leaves the object alone, but for its conditions, keeps it in sync.
LEMMA SameCopy ==
    ASSUME Working, fresh' = fresh,
           cur'.uid = cur.uid, cur'.doc = cur.doc, cur'.owned = cur.owned,
           cur'.deleting = cur.deleting, cur'.fin = cur.fin
    PROVE  InSync'
BY DEF Working, InSync, Calm

\* A reconcile begins on an exact copy of the object.
LEMMA StartStage ==
    ASSUME TypeOK, CopiesInv, pc \notin {"create", "statusFail"} => next = 1,
           StartReconcile, ~Pending', sm' # NoSM
    PROVE  IF pc' = "idle" THEN Explained' ELSE (InSync /\ Stage)'
<1>1. smSeen /\ sm' = sm /\ smCache = sm
  BY DEF StartReconcile, Pending, apiVars, cacheVars, CopiesInv
<1>2. fresh' /\ cur' = sm /\ pc' \in {"finalDrop", "validate", "finalizer"}
  BY <1>1 DEF StartReconcile, CopiesInv, Goto
<1>3. InSync'
  BY <1>1, <1>2 DEF InSync
<1>4. /\ pc' = "finalDrop" => cur'.deleting
      /\ pc' # "finalDrop" => ~cur'.deleting
      /\ pc' = "validate" => cur'.fin
  BY <1>1, <1>2 DEF StartReconcile, CopiesInv, Goto
<1>5. Stage'
  BY <1>2, <1>4 DEF Stage, Finalizing, PastValidate, PastBind, PastPublish
<1> QED
  BY <1>2, <1>3, <1>5

\* The steps before publish.
LEMMA AddFinalizerStage ==
    ASSUME Working, AddFinalizer
    PROVE  (InSync /\ Stage)'
<1> DEFINE m == [cur EXCEPT !.fin = TRUE]
<1>1. cur \in SemanticModel /\ sm \in SemanticModel
  BY DEF Working, TypeOK, TypeObjects, CopiesInv
<1>2. /\ m.uid = cur.uid /\ m.doc = cur.doc /\ m.owned = cur.owned
      /\ m.deleting = cur.deleting /\ m.fin = TRUE
  BY <1>1 DEF SemanticModel
<1> HIDE DEF m
<1>3. Stored(m) = m
  BY <1>2 DEF Stored
<1>4. ~queued' /\ sm' = sm /\ fresh
  BY DEF Working, Calm, Pending, InSync
<1>5. fresh' /\ cur' = m /\ pc' = "validate" /\ sm' = m
  BY <1>3, <1>4 DEF AddFinalizer, Accepted, Apply, Conflict, NotFound, ReturnError, Goto, m
<1>6. ~cur.deleting
  BY DEF Working, Stage, AddFinalizer, Finalizing
<1>7. InSync'
  BY <1>5 DEF InSync
<1>8. Stage'
  BY <1>2, <1>5, <1>6 DEF Stage, Finalizing, PastValidate, PastBind, PastPublish
<1> QED
  BY <1>7, <1>8

LEMMA ValidateStage ==
    ASSUME Working, ValidateCompile
    PROVE  (InSync /\ Stage)'
<1> DEFINE m == [cur EXCEPT !.status.ver = cur.doc]
           ok == SetCond(m, "Validated", "True")
<1>1. cur \in SemanticModel
  BY DEF Working, TypeOK, TypeObjects, CopiesInv
<1>2. /\ m \in SemanticModel /\ m.status.ver = cur.doc
      /\ m.uid = cur.uid /\ m.doc = cur.doc /\ m.owned = cur.owned
      /\ m.deleting = cur.deleting /\ m.fin = cur.fin
  BY <1>1 DEF SemanticModel, Status
<1> HIDE DEF m
<1>3. cur.fin /\ ~cur.deleting /\ fresh' = fresh
  BY DEF Working, Stage, ValidateCompile, Finalizing
<1>4. /\ ok \in SemanticModel /\ ok.status.ver = cur.doc
      /\ ok.uid = cur.uid /\ ok.doc = cur.doc /\ ok.owned = cur.owned
      /\ ok.deleting = cur.deleting /\ ok.fin = cur.fin
      /\ ok.status.cond["Validated"] = "True"
  BY <1>2, SetCondType, SetCondEffect DEF Cond, Truth
<1> HIDE DEF ok
<1>5. CASE cur.doc \notin Valid /\ cur' = SetCond(m, "Validated", "False") /\ pc' = "status"
  <2>1. /\ cur'.status.ver = cur.doc /\ cur'.status.cond["Validated"] = "False"
        /\ cur'.uid = cur.uid /\ cur'.doc = cur.doc /\ cur'.owned = cur.owned
        /\ cur'.deleting = cur.deleting /\ cur'.fin = cur.fin
    BY <1>2, <1>5, SetCondEffect DEF Cond, Truth
  <2>2. InSync'
    BY <1>3, <2>1, SameCopy
  <2> QED
    BY <1>3, <1>5, <2>1, <2>2
    DEF Stage, Refused, Says, Finalizing, PastValidate, PastBind, PastPublish
<1>6. CASE /\ cur.doc \in Valid \ Compilable
           /\ cur' = SetCond(ok, "Compiled", "False") /\ pc' = "status"
  <2>1. /\ cur'.status.ver = cur.doc /\ cur'.status.cond["Compiled"] = "False"
        /\ cur'.uid = cur.uid /\ cur'.doc = cur.doc /\ cur'.owned = cur.owned
        /\ cur'.deleting = cur.deleting /\ cur'.fin = cur.fin
    BY <1>4, <1>6, SetCondEffect DEF Cond, Truth
  <2>2. InSync'
    BY <1>3, <2>1, SameCopy
  <2> QED
    BY <1>3, <1>6, <2>1, <2>2
    DEF Stage, Refused, Says, Finalizing, PastValidate, PastBind, PastPublish
<1>7. CASE cur' = ok /\ pc' = "bind"
  <2>1. InSync'
    BY <1>3, <1>4, <1>7, SameCopy
  <2> QED
    BY <1>3, <1>4, <1>7, <2>1
    DEF Stage, Vouched, Says, Finalizing, PastValidate, PastBind, PastPublish
<1> QED
  BY <1>5, <1>6, <1>7 DEF ValidateCompile, Goto, m, ok

LEMMA BindDatasetStage ==
    ASSUME Working, BindDataset
    PROVE  (InSync /\ Stage)'
<1>1. pc = "bind" /\ pc' = pc /\ cur' = cur /\ fresh' = fresh
  BY DEF BindDataset
<1> QED
  BY <1>1, SameCopy DEF Working, Stage, Vouched, Says, Finalizing, PastValidate, PastBind, PastPublish

LEMMA BindDoneStage ==
    ASSUME Working, BindDone
    PROVE  (InSync /\ Stage)'
<1> DEFINE n == SetCond(cur, "DriftDetected", "False")
<1>1. cur \in SemanticModel
  BY DEF Working, TypeOK, TypeObjects, CopiesInv
<1>2. pc = "bind" /\ cur.fin /\ ~cur.deleting /\ Vouched /\ fresh' = fresh
  BY DEF Working, Stage, BindDone, Finalizing, PastValidate
<1>3. CASE drift
  <2>1. /\ cur'.status.ver = cur.status.ver /\ cur'.status.cond["DriftDetected"] = "True"
        /\ cur'.uid = cur.uid /\ cur'.doc = cur.doc /\ cur'.owned = cur.owned
        /\ cur'.deleting = cur.deleting /\ cur'.fin = cur.fin
    BY <1>1, <1>3, SetCondEffect DEF BindDone, Cond, Truth
  <2>2. pc' = "statusResync"
    BY <1>3 DEF BindDone, Goto
  <2>3. InSync'
    BY <1>2, <2>1, SameCopy
  <2> QED
    BY <1>2, <2>1, <2>2, <2>3
    DEF Stage, Completed, Vouched, Says, Finalizing, PastValidate, PastBind, PastPublish
<1>4. CASE ~drift
  <2>1. /\ n \in SemanticModel /\ n.status.ver = cur.status.ver
        /\ n.uid = cur.uid /\ n.doc = cur.doc /\ n.owned = cur.owned
        /\ n.deleting = cur.deleting /\ n.fin = cur.fin
        /\ n.status.cond["DriftDetected"] = "False"
        /\ n.status.cond["Validated"] = cur.status.cond["Validated"]
    BY <1>1, SetCondType, SetCondEffect, SetCondOthers DEF Cond, Truth
  <2>2. cur' = SetCond(n, "Compiled", "True") /\ pc' = "publish"
    BY <1>4 DEF BindDone, Goto
  <2> HIDE DEF n
  <2>3. /\ cur'.status.ver = cur.status.ver
        /\ cur'.uid = cur.uid /\ cur'.doc = cur.doc /\ cur'.owned = cur.owned
        /\ cur'.deleting = cur.deleting /\ cur'.fin = cur.fin
        /\ cur'.status.cond["DriftDetected"] = "False"
        /\ cur'.status.cond["Compiled"] = "True"
        /\ cur'.status.cond["Validated"] = cur.status.cond["Validated"]
    BY <2>1, <2>2, SetCondEffect, SetCondOthers DEF Cond, Truth
  <2>4. InSync'
    BY <1>2, <2>3, SameCopy
  <2> QED
    BY <1>2, <2>2, <2>3, <2>4
    DEF Stage, Bindable, Vouched, Says, Finalizing, PastValidate, PastBind, PastPublish
<1> QED
  BY <1>3, <1>4

\* A condition set in memory (setCondition) leaves the copy in sync.
LEMMA MarkedCopy ==
    ASSUME Working, fresh' = fresh, NEW c \in Cond, NEW t \in Truth,
           cur' = SetCond(cur, c, t)
    PROVE  /\ InSync'
           /\ cur'.uid = cur.uid /\ cur'.doc = cur.doc /\ cur'.owned = cur.owned
           /\ cur'.deleting = cur.deleting /\ cur'.fin = cur.fin
           /\ cur'.status.ver = cur.status.ver
           /\ cur'.status.cond[c] = t
<1>1. cur \in SemanticModel
  BY DEF Working, TypeOK, TypeObjects, CopiesInv
<1>2. /\ cur'.uid = cur.uid /\ cur'.doc = cur.doc /\ cur'.owned = cur.owned
      /\ cur'.deleting = cur.deleting /\ cur'.fin = cur.fin
      /\ cur'.status.ver = cur.status.ver
      /\ cur'.status.cond[c] = t
  BY <1>1, SetCondEffect
<1> QED
  BY <1>2, SameCopy

LEMMA MarkedOthers ==
    ASSUME Working, NEW c \in Cond, NEW t \in Truth, cur' = SetCond(cur, c, t),
           NEW k \in Cond, k # c
    PROVE  cur'.status.cond[k] = cur.status.cond[k]
BY SetCondOthers DEF Working, TypeOK, TypeObjects, CopiesInv

\* A failure of publish or of the views promises nothing: an error follows.
LEMMA FailedStage ==
    ASSUME Working, pc \notin Finalizing \cup {"finalizer"}, fresh' = fresh,
           NEW c \in Cond, NEW t \in Truth, cur' = SetCond(cur, c, t), pc' = "statusFail"
    PROVE  (InSync /\ Stage)'
<1>1. cur.fin /\ ~cur.deleting
  BY DEF Working, Stage, Finalizing
<1>2. InSync' /\ cur'.deleting = cur.deleting /\ cur'.fin = cur.fin
  BY MarkedCopy
<1> QED
  BY <1>1, <1>2 DEF Stage, Finalizing, PastValidate, PastBind, PastPublish

LEMMA ViewsFailedStage ==
    ASSUME Working, pc \notin Finalizing \cup {"finalizer"}, fresh' = fresh, ViewsFailed
    PROVE  (InSync /\ Stage)'
BY FailedStage DEF ViewsFailed, Goto, Cond, Truth

\* The steps of publish.
LEMMA TooLargeStage ==
    ASSUME Working, PublishTooLarge
    PROVE  (InSync /\ Stage)'
<1>1. /\ pc = "publish" /\ cur.doc \notin Fits /\ fresh' = fresh
      /\ cur' = SetCond(cur, "Published", "False") /\ pc' = "status"
  BY DEF PublishTooLarge, Goto
<1>2. /\ InSync' /\ cur'.doc = cur.doc
      /\ cur'.deleting = cur.deleting /\ cur'.fin = cur.fin
      /\ cur'.status.ver = cur.status.ver
      /\ cur'.status.cond["Published"] = "False"
  BY <1>1, MarkedCopy DEF Cond, Truth
<1>3. cur.fin /\ ~cur.deleting /\ cur.status.ver = cur.doc
  BY <1>1 DEF Working, Stage, Vouched, Finalizing, PastValidate, PastBind
<1> QED
  BY <1>1, <1>2, <1>3
  DEF Stage, Refused, Says, Finalizing, PastValidate, PastBind, PastPublish

LEMMA PublishStage ==
    ASSUME Working, PublishArtifact
    PROVE  (InSync /\ Stage)'
<1>1. pc = "publish" /\ fresh' = fresh /\ UNCHANGED view
  BY DEF PublishArtifact, engineVars
<1>2. cmSeen' /\ cmCache = cm /\ cm' = cm
  BY DEF Working, Calm, Pending, PublishArtifact, WriteArtifact
<1>3. cur.fin /\ ~cur.deleting /\ Vouched /\ Bindable
  BY <1>1 DEF Working, Stage, Finalizing, PastValidate, PastBind
<1>4. cur \in SemanticModel
  BY DEF Working, TypeOK, TypeObjects, CopiesInv
<1>5. CASE PublishFailed
  BY <1>1, <1>5, FailedStage DEF PublishFailed, Goto, Cond, Truth, Finalizing
<1>6. CASE cmCache = Artifact /\ Published
  <2>1. cur' = SetCond(cur, "Published", "True")
    BY <1>6 DEF Published
  <2>2. /\ InSync'
        /\ cur'.uid = cur.uid /\ cur'.doc = cur.doc /\ cur'.owned = cur.owned
        /\ cur'.deleting = cur.deleting /\ cur'.fin = cur.fin
        /\ cur'.status.ver = cur.status.ver
        /\ cur'.status.cond["Published"] = "True"
    BY <1>1, <2>1, MarkedCopy DEF Cond, Truth
  <2>3. /\ cur'.status.cond["Validated"] = cur.status.cond["Validated"]
        /\ cur'.status.cond["Compiled"] = cur.status.cond["Compiled"]
        /\ cur'.status.cond["DriftDetected"] = cur.status.cond["DriftDetected"]
    BY <2>1, MarkedOthers DEF Cond, Truth
  <2>4. Vouched' /\ Bindable'
    BY <1>3, <2>2, <2>3 DEF Vouched, Bindable, Says
  <2>5. Artifact \in ConfigMap /\ Artifact.doc = cur.doc /\ Artifact.owner = cur.uid
    BY <1>4 DEF Artifact, ConfigMap, SemanticModel, Working, TypeOK, TypeJob
  <2>6. PublishedHere'
    BY <1>2, <1>6, <2>2, <2>5 DEF PublishedHere, Says
  <2>7. CASE ViewsOf[cur.doc] = <<>>
    <3>1. Declared(cur.doc) = {}
      BY <2>7 DEF Declared, NamesIn
    <3>2. pc' = "drop" /\ Declared(cur'.doc) = {}
      BY <1>6, <2>2, <2>7, <3>1 DEF Published, Goto
    <3> QED
      BY <1>3, <2>2, <2>4, <2>6, <3>2
      DEF Stage, AllCreated, Finalizing, PastValidate, PastBind, PastPublish
  <2>8. CASE ViewsOf[cur.doc] # <<>>
    <3>1. pc' = "schema" /\ ViewsOf[cur'.doc] # <<>>
      BY <1>6, <2>2, <2>8 DEF Published, Goto
    <3> QED
      BY <1>3, <2>2, <2>4, <2>6, <3>1
      DEF Stage, Finalizing, PastValidate, PastBind, PastPublish
  <2> QED
    BY <2>7, <2>8
<1>7. ~WriteArtifact
  BY <1>2 DEF WriteArtifact
<1> QED
  BY <1>5, <1>6, <1>7 DEF PublishArtifact

\* The steps of the governed views.
LEMMA CreateSchemaStage ==
    ASSUME Working, CreateSchema
    PROVE  (InSync /\ Stage)'
<1>1. pc = "schema" /\ fresh' = fresh /\ UNCHANGED view /\ next' = next
  BY DEF CreateSchema, engineVars, viewVars
<1>2. CASE ViewsFailed
  BY <1>1, <1>2, ViewsFailedStage DEF Finalizing
<1>3. CASE pc' = "create" /\ cur' = cur
  <2>1. /\ cur.fin /\ ~cur.deleting /\ Vouched /\ Bindable /\ PublishedHere
        /\ ViewsOf[cur.doc] # <<>> /\ next = 1 /\ cm' = cm
    BY <1>1 DEF Working, Calm, Stage, Finalizing, PastValidate, PastBind, PastPublish
  <2>2. ViewsOf[cur.doc] \in Seq(View)
    BY DEF Working, TypeOK, TypeObjects, CopiesInv, SemanticModel
  <2>3. next <= Len(ViewsOf[cur.doc])
    BY <2>1, <2>2
  <2>4. \A i \in DOMAIN ViewsOf[cur.doc] : ~(i < next)
    BY <2>1, <2>2
  <2>5. CreatedSoFar'
    BY <1>1, <1>3, <2>3, <2>4 DEF CreatedSoFar
  <2>6. InSync'
    BY <1>1, <1>3, SameCopy
  <2>7. Vouched' /\ Bindable' /\ PublishedHere'
    BY <1>3, <2>1 DEF Vouched, Bindable, PublishedHere, Says
  <2> QED
    BY <1>3, <2>1, <2>5, <2>6, <2>7
    DEF Stage, Finalizing, PastValidate, PastBind, PastPublish
<1> QED
  BY <1>2, <1>3 DEF CreateSchema, Goto

LEMMA CreateViewStage ==
    ASSUME Working, CreateView
    PROVE  (InSync /\ Stage)'
<1> DEFINE vs == ViewsOf[cur.doc]
           v == vs[next]
           db == DbOf[cur.doc]
<1>1. pc = "create" /\ fresh' = fresh
  BY DEF CreateView
<1>2. CASE ViewsFailed
  BY <1>1, <1>2, ViewsFailedStage DEF Finalizing
<1>3. CASE ~ViewsFailed
  <2>1. /\ cur' = cur /\ view' = [view EXCEPT ![db][v] = cur.doc]
        /\ next' = IF next = Len(vs) THEN 1 ELSE next + 1
        /\ pc' = IF next = Len(vs) THEN "drop" ELSE "create"
        /\ stale' = IF next = Len(vs) THEN Owned(cur) \ Declared(cur.doc) ELSE {}
    BY <1>3 DEF CreateView, CreateViewIn, Goto
  <2>2. /\ cur.fin /\ ~cur.deleting /\ Vouched /\ Bindable /\ PublishedHere
        /\ CreatedSoFar /\ cm' = cm
    BY <1>1 DEF Working, Calm, Stage, Finalizing, PastValidate, PastBind, PastPublish
  <2>3. /\ vs \in Seq(View) /\ db \in Db /\ cur.doc \in Doc
        /\ view \in [Db -> [View -> Doc \cup {NoView}]] /\ next \in Nat \ {0}
    BY DEF Working, TypeOK, TypeObjects, TypeEngine, TypeJob, CopiesInv, SemanticModel
  <2>4. next <= Len(vs) /\ next \in DOMAIN vs /\ v \in View
    BY <2>2, <2>3 DEF CreatedSoFar
  <2>5. ASSUME NEW i \in DOMAIN vs, i < next + 1
        PROVE  Created(vs[i])'
    <3>1. vs[i] \in View /\ i \in Nat
      BY <2>3
    <3>2. CASE vs[i] = v
      BY <2>1, <2>3, <3>1, <3>2 DEF Created
    <3>3. CASE vs[i] # v
      <4>1. i < next
        BY <2>3, <2>5, <3>1, <3>3
      <4>2. Created(vs[i])
        BY <2>2, <4>1 DEF CreatedSoFar
      <4> QED
        BY <2>1, <2>3, <3>1, <3>3, <4>2 DEF Created
    <3> QED
      BY <3>2, <3>3
  <2>6. InSync'
    BY <1>1, <2>1, SameCopy
  <2>7. Vouched' /\ Bindable' /\ PublishedHere'
    BY <2>1, <2>2 DEF Vouched, Bindable, PublishedHere, Says
  <2>8. CASE next = Len(vs)
    <3>1. ASSUME NEW x \in Declared(cur.doc) PROVE Created(x)'
      <4>1. PICK i \in DOMAIN vs : x = vs[i]
        BY <3>1 DEF Declared, NamesIn
      <4>2. i < next + 1
        BY <2>3, <2>8
      <4> QED
        BY <2>1, <2>5, <4>1, <4>2 DEF Created
    <3>2. AllCreated'
      BY <2>1, <3>1 DEF AllCreated
    <3>3. pc' = "drop" /\ stale' \cap Declared(cur'.doc) = {}
      BY <2>1, <2>8
    <3> QED
      BY <2>1, <2>2, <2>6, <2>7, <3>2, <3>3
      DEF Stage, Finalizing, PastValidate, PastBind, PastPublish
  <2>9. CASE next # Len(vs)
    <3>1. next' = next + 1 /\ next' <= Len(vs) /\ pc' = "create"
      BY <2>1, <2>3, <2>4, <2>9
    <3>2. CreatedSoFar'
      BY <2>1, <2>5, <3>1 DEF CreatedSoFar
    <3> QED
      BY <2>1, <2>2, <2>6, <2>7, <3>1, <3>2
      DEF Stage, Finalizing, PastValidate, PastBind, PastPublish
  <2> QED
    BY <2>8, <2>9
<1> QED
  BY <1>2, <1>3

\* Dropping a view that is not declared keeps the declared ones.
LEMMA DropKeepsCreated ==
    ASSUME Working, DropOne, stale \cap Declared(cur.doc) = {}, AllCreated, cur' = cur
    PROVE  AllCreated' /\ stale' \cap Declared(cur'.doc) = {}
<1>1. /\ view \in [Db -> [View -> Doc \cup {NoView}]] /\ DbOf[cur.doc] \in Db
      /\ Declared(cur.doc) \in SUBSET View /\ stale \in SUBSET View
  BY DeclaredType
  DEF Working, TypeOK, TypeObjects, TypeEngine, TypeJob, CopiesInv, SemanticModel
<1>2. PICK v \in stale :
         /\ stale' = stale \ {v}
         /\ view' = [view EXCEPT ![DbOf[cur.doc]][v] = NoView] \/ view' = view
  BY Zenon DEF DropOne
<1>3. ASSUME NEW x \in Declared(cur.doc) PROVE Created(x)'
  <2>1. Created(x) /\ x # v /\ x \in View
    BY <1>1, <1>2 DEF AllCreated
  <2>2. CASE view' = view
    BY <2>1, <2>2 DEF Created
  <2>3. CASE view' = [view EXCEPT ![DbOf[cur.doc]][v] = NoView]
    BY <1>1, <1>2, <2>1, <2>3 DEF Created
  <2> QED
    BY <1>2, <2>2, <2>3
<1> QED
  BY <1>2, <1>3 DEF AllCreated

LEMMA DropStaleStage ==
    ASSUME Working, DropStale
    PROVE  (InSync /\ Stage)'
<1>1. pc = "drop" /\ fresh' = fresh
  BY DEF DropStale
<1>2. /\ cur.fin /\ ~cur.deleting /\ Vouched /\ Bindable /\ PublishedHere
      /\ AllCreated /\ stale \cap Declared(cur.doc) = {} /\ cm' = cm
  BY <1>1 DEF Working, Calm, Stage, Finalizing, PastValidate, PastBind, PastPublish
<1>3. CASE ViewsFailed
  BY <1>1, <1>3, ViewsFailedStage DEF Finalizing
<1>4. CASE cur' = cur
  <2>1. InSync'
    BY <1>1, <1>4, SameCopy
  <2>2. Vouched' /\ Bindable' /\ PublishedHere'
    BY <1>2, <1>4 DEF Vouched, Bindable, PublishedHere, Says
  <2>3. CASE DropOne /\ pc' = "drop"
    <3>1. AllCreated' /\ stale' \cap Declared(cur'.doc) = {}
      BY <1>2, <1>4, <2>3, DropKeepsCreated
    <3> QED
      BY <1>2, <1>4, <2>1, <2>2, <2>3, <3>1
      DEF Stage, Finalizing, PastValidate, PastBind, PastPublish
  <2>4. CASE pc' = "annotate" /\ view' = view
    <3>1. AllCreated'
      BY <1>2, <1>4, <2>4 DEF AllCreated, Created
    <3> QED
      BY <1>2, <1>4, <2>1, <2>2, <2>4, <3>1
      DEF Stage, Finalizing, PastValidate, PastBind, PastPublish
  <2>5. CASE ViewsFailed
    BY <1>3, <2>5
  <2> QED
    BY <1>1, <1>4, <2>3, <2>4, <2>5 DEF DropStale, Goto
<1> QED
  BY <1>3, <1>4 DEF DropStale

\* Writing to the object, other than to release it, keeps it in place.
LEMMA StoredKeeps ==
    ASSUME NEW m, NEW n, ~Orphaned(n), n # NoSM, m.deleting = n.deleting, m.fin = n.fin
    PROVE  Stored(m) = m
BY DEF Stored, Orphaned

LEMMA RecordStage ==
    ASSUME Working, RecordOwnedViews
    PROVE  (InSync /\ Stage)'
<1> DEFINE m == [sm EXCEPT !.owned = ViewsOf[cur.doc]]
<1>1. /\ pc = "annotate" /\ fresh /\ sm' = sm /\ cm' = cm /\ view' = view
      /\ sm \in SemanticModel /\ sm.owned = cur.owned
  BY DEF RecordOwnedViews, Working, InSync, Calm, TypeOK, TypeObjects, engineVars
<1>2. /\ cur.fin /\ ~cur.deleting /\ Vouched /\ Bindable /\ PublishedHere /\ AllCreated
  BY <1>1 DEF Working, Stage, Finalizing, PastValidate, PastBind, PastPublish
<1>3. CASE /\ cur.owned = ViewsOf[cur.doc] /\ fresh' = fresh
           /\ cur' = SetCond(cur, "ViewsReady", "True") /\ pc' = "statusResync"
  <2>1. /\ InSync'
        /\ cur'.uid = cur.uid /\ cur'.doc = cur.doc /\ cur'.owned = cur.owned
        /\ cur'.deleting = cur.deleting /\ cur'.fin = cur.fin
        /\ cur'.status.ver = cur.status.ver
        /\ cur'.status.cond["ViewsReady"] = "True"
    BY <1>3, MarkedCopy DEF Cond, Truth
  <2>2. /\ cur'.status.cond["Validated"] = cur.status.cond["Validated"]
        /\ cur'.status.cond["Compiled"] = cur.status.cond["Compiled"]
        /\ cur'.status.cond["Published"] = cur.status.cond["Published"]
        /\ cur'.status.cond["DriftDetected"] = cur.status.cond["DriftDetected"]
    BY <1>3, MarkedOthers DEF Cond, Truth
  <2>3. Vouched' /\ Bindable' /\ PublishedHere'
    BY <1>1, <1>2, <2>1, <2>2 DEF Vouched, Bindable, PublishedHere, Says
  <2>4. AllCreated'
    BY <1>1, <1>2, <2>1 DEF AllCreated, Created
  <2>5. Completed'
    BY <1>3, <2>1, <2>3, <2>4 DEF Completed, Says
  <2> QED
    BY <1>2, <1>3, <2>1, <2>3, <2>5
    DEF Stage, Vouched, Finalizing, PastValidate, PastBind, PastPublish
<1>4. CASE cur.owned # ViewsOf[cur.doc] /\ Accepted(m)
  <2>1. m.owned = ViewsOf[cur.doc] /\ m.deleting = sm.deleting /\ m.fin = sm.fin
    BY <1>1 DEF SemanticModel
  <2> HIDE DEF m
  <2>2. Stored(m) = m
    BY <2>1, StoredKeeps DEF Working, CopiesInv
  <2>3. sm' = m
    BY <1>4, <2>2 DEF Accepted, Apply
  <2> QED
    BY <1>1, <1>4, <2>1, <2>3
<1>5. CASE ViewsFailed /\ (UNCHANGED fresh \/ fresh' = (fresh /\ sm' = sm))
  <2>1. fresh' = fresh
    BY <1>1, <1>5
  <2> QED
    BY <1>1, <1>5, <2>1, ViewsFailedStage DEF Finalizing
<1> QED
  BY <1>3, <1>4, <1>5 DEF RecordOwnedViews, Goto

\* The status that is written last explains the object, and a resync is due
\* whenever it depends on the engine.
LEMMA StatusStage ==
    ASSUME Working, StatusUpdate
    PROVE  pc' = "idle" /\ Explained'
<1> DEFINE m == [sm EXCEPT !.status = cur.status]
<1>1. /\ fresh /\ sm' = sm /\ ~queued' /\ cm' = cm /\ view' = view
      /\ sm \in SemanticModel /\ cur \in SemanticModel
  BY DEF StatusUpdate, Working, InSync, Calm, Pending, TypeOK, TypeObjects, CopiesInv,
         engineVars
<1>2. /\ Accepted(m)
      /\ IF pc = "status" THEN Return ELSE ReturnResync
  BY <1>1 DEF StatusUpdate, Conflict, NotFound, ReturnError
<1>3. m.status = cur.status /\ m.deleting = sm.deleting /\ m.fin = sm.fin
  BY <1>1 DEF SemanticModel
<1> HIDE DEF m
<1>4. sm' = m
  BY <1>2, <1>3, StoredKeeps DEF Working, CopiesInv, Accepted, Apply
<1>5. /\ sm'.status = cur.status /\ sm'.doc = cur.doc /\ sm'.owned = cur.owned
      /\ sm'.uid = cur.uid /\ sm'.fin = cur.fin /\ sm'.deleting = cur.deleting
  BY <1>1, <1>3, <1>4 DEF Working, InSync
<1>6. /\ pc' = "idle" /\ pc \in {"status", "statusResync"}
      /\ pc = "statusResync" => timer' = TRUE
  BY <1>2 DEF StatusUpdate, Return, ReturnResync, ResetJob
<1>7. cur.fin /\ ~cur.deleting /\ cur.status.ver = cur.doc
  BY <1>6 DEF Working, Stage, Finalizing
<1>8. CASE pc = "status"
  <2>1. Refused
    BY <1>8 DEF Working, Stage
  <2> QED
    BY <1>5, <1>6, <1>7, <2>1 DEF Refused, Says, Explained, Is
<1>9. CASE pc = "statusResync"
  <2>1. Completed /\ timer'
    BY <1>6, <1>9 DEF Working, Stage
  <2>2. CASE Says("DriftDetected", "True")
    BY <1>5, <1>6, <1>7, <2>1, <2>2 DEF Says, Explained, Is
  <2>3. CASE ~Says("DriftDetected", "True")
    <3>1. /\ Vouched /\ Bindable /\ PublishedHere /\ AllCreated
          /\ Says("ViewsReady", "True") /\ cur.owned = ViewsOf[cur.doc]
      BY <2>1, <2>3 DEF Completed
    <3>2. \A c \in Cond : cur.status.cond[c] = IF c = "DriftDetected" THEN "False" ELSE "True"
      BY <3>1 DEF Vouched, Bindable, PublishedHere, Says, Cond
    <3>3. \A c \in Cond : Is(c, IF c = "DriftDetected" THEN "False" ELSE "True")'
      BY <1>5, <3>2 DEF Is
    <3>4. \A v \in Declared(sm'.doc) : view'[DbOf[sm'.doc]][v] = sm'.doc
      BY <1>1, <1>5, <3>1 DEF AllCreated, Created
    <3>5. InPlace'
      BY <1>1, <1>5, <3>1, <3>3, <3>4 DEF InPlace, PublishedHere
    <3> QED
      BY <1>5, <1>6, <1>7, <2>1, <3>5 DEF Explained
  <2> QED
    BY <2>2, <2>3
<1> QED
  BY <1>6, <1>8, <1>9

\* finalize changes nothing but the engine and ends by releasing the object, or
\* with an error.
LEMMA FinalizeStage ==
    ASSUME Working, FinalizeDrop
    PROVE  (InSync /\ Stage)'
<1>1. /\ pc = "finalDrop" /\ pc' \in {"finalDrop", "release"} /\ cur' = cur /\ fresh' = fresh
  BY DEF FinalizeDrop, Goto
<1>2. cur.deleting
  BY <1>1 DEF Working, Stage, Finalizing
<1>3. InSync'
  BY <1>1, SameCopy
<1> QED
  BY <1>1, <1>2, <1>3 DEF Stage, Finalizing, PastValidate, PastBind, PastPublish

LEMMA ReleaseStage ==
    ASSUME Working, ReleaseFinalizer
    PROVE  FALSE
<1> DEFINE m == [cur EXCEPT !.fin = FALSE]
<1>1. cur \in SemanticModel /\ cur.deleting /\ fresh /\ ~queued' /\ sm' = sm /\ sm # NoSM
  BY DEF ReleaseFinalizer, Working, InSync, Stage, Finalizing, Calm, Pending, TypeOK,
         TypeObjects, CopiesInv
<1>2. m.deleting /\ ~m.fin
  BY <1>1 DEF SemanticModel
<1> HIDE DEF m
<1>3. Stored(m) = NoSM
  BY <1>2 DEF Stored
<1>4. Accepted(m)
  BY <1>1 DEF ReleaseFinalizer, Conflict, NotFound, ReturnError, m
<1> QED
  BY <1>1, <1>3, <1>4 DEF Accepted, Apply

\* Every step of a reconcile in progress leads to its next stage or to rest.
LEMMA WorkStage ==
    ASSUME Working, ReconcileStep
    PROVE  IF pc' = "idle" THEN Explained' ELSE (InSync /\ Stage)'
<1>1. pc # "idle" /\ ~queued' /\ CopiesInv
  BY DEF Working, Pending
<1>2. ~StartReconcile /\ ~BindUnreachable /\ ~StatusBestEffort
  BY <1>1 DEF StartReconcile, BindUnreachable, StatusBestEffort, ReturnError
<1>3. CASE StatusUpdate
  BY <1>3, StatusStage
<1>4. CASE ReleaseFinalizer
  BY <1>4, ReleaseStage
<1>5. CASE ~StatusUpdate /\ ~ReleaseFinalizer
  <2>1. (InSync /\ Stage)'
    BY <1>2, <1>5, AddFinalizerStage, ValidateStage, BindDatasetStage, BindDoneStage,
       TooLargeStage, PublishStage, CreateSchemaStage, CreateViewStage, DropStaleStage,
       RecordStage, FinalizeStage
    DEF ReconcileStep
  <2>2. fresh'
    BY <2>1 DEF InSync
  <2>3. pc' # "idle"
    BY <1>1, <1>5, <1>2, <2>2 DEF ReconcileStep, AddFinalizer, ValidateCompile, BindDataset,
       BindDone, PublishTooLarge, PublishArtifact, CreateSchema, CreateView, DropStale,
       RecordOwnedViews, FinalizeDrop, Return, ReturnError, ResetJob, Goto, ViewsFailed,
       Published, PublishFailed
  <2> QED
    BY <2>1, <2>3
<1> QED
  BY <1>3, <1>4, <1>5

\* RestInv is inductive.
LEMMA RestStep ==
    TypeOK /\ CopiesInv /\ RestInv /\ [Next]_vars => RestInv'
<1> SUFFICES ASSUME TypeOK, CopiesInv, RestInv, [Next]_vars
             PROVE  RestInv'
  OBVIOUS
<1>1. (cmSeen => cmCache = cm)' /\ (pc \notin {"create", "statusFail"} => next = 1)'
  BY CmSeenStep, NextStep DEF RestInv
<1>2. ASSUME ~Pending', sm' # NoSM
      PROVE  IF pc' = "idle" THEN Explained' ELSE (InSync /\ Stage)'
  <2>1. CASE StartReconcile
    BY <1>2, <2>1, StartStage DEF RestInv
  <2>2. CASE Calm /\ ~StartReconcile
    <3>1. sm # NoSM /\ ~Pending /\ sm' = sm /\ cm' = cm
      BY <1>2, <2>2 DEF Calm
    <3>2. CASE Aside
      <4>1. UNCHANGED <<sm, cm, view, timer, pc, cur, fresh, next, stale>>
        BY <3>1, <3>2 DEF Aside, jobVars, viewVars
      <4>2. CASE pc = "idle"
        BY <3>1, <4>1, <4>2 DEF RestInv, Explained, InPlace, Is
      <4>3. CASE pc # "idle"
        <5>1. InSync /\ Stage
          BY <3>1, <4>3 DEF RestInv
        <5>2. InSync'
          BY <4>1, <5>1 DEF InSync
        <5>3. Stage'
          BY <4>1, <5>1
          DEF Stage, Vouched, Bindable, PublishedHere, CreatedSoFar, AllCreated, Created,
              Refused, Completed, Says
        <5> QED
          BY <4>1, <4>3, <5>2, <5>3
      <4> QED
        BY <4>2, <4>3
    <3>3. CASE ReconcileStep
      <4>1. pc # "idle"
        BY <2>2, <3>3
        DEF ReconcileStep, AddFinalizer, ValidateCompile, BindDataset, BindUnreachable,
            BindDone, PublishTooLarge, PublishArtifact, CreateSchema, CreateView,
            DropStale, RecordOwnedViews, StatusUpdate, StatusBestEffort, FinalizeDrop,
            ReleaseFinalizer
      <4>2. Working
        BY <1>2, <2>2, <3>1, <4>1 DEF Working, RestInv
      <4> QED
        BY <3>3, <4>2, WorkStage
    <3> QED
      BY <1>2, <2>2, <3>2, <3>3, CalmStep DEF TypeOK
  <2> QED
    BY <1>2, <2>1, <2>2, CalmStep DEF TypeOK
<1> QED
  BY <1>1, <1>2 DEF RestInv

\* Which steps concern a finalize in progress: its own, and those of others that
\* leave it alone and, unless its copy goes stale, the object too.
LEMMA FinalizingStep ==
    ASSUME [Next]_vars, pc' \in Finalizing, TypeFlags
    PROVE  \/ StartReconcile
           \/ FinalizeDrop
           \/ UNCHANGED <<pc, cur, stale, failed, view>> /\ (fresh' => fresh /\ sm' = sm)
<1> USE DEF Finalizing, TypeFlags, apiVars, cacheVars, engineVars, queueVars, bindVars,
            viewVars, jobVars, UserVarsUnchanged, Outdated, Return, ReturnResync,
            ReturnError, ResetJob, Goto, ViewsFailed, Published, PublishFailed
<1>1. CASE StartReconcile \/ AddFinalizer \/ ValidateCompile \/ BindDataset \/
           BindUnreachable \/ BindDone \/ PublishTooLarge \/ PublishArtifact
  BY <1>1 DEF AddFinalizer, ValidateCompile, BindDataset,
              BindUnreachable, BindDone, PublishTooLarge, PublishArtifact
<1>2. CASE CreateSchema \/ CreateView \/ DropStale \/ RecordOwnedViews \/
           StatusUpdate \/ StatusBestEffort \/ FinalizeDrop \/ ReleaseFinalizer
  BY <1>2 DEF CreateSchema, CreateView, DropStale, RecordOwnedViews, StatusUpdate,
              StatusBestEffort, ReleaseFinalizer
<1>3. CASE SyncSM \/ SyncCM \/ ResyncDue \/ GarbageCollect \/ CrashRestart \/
           DeleteModel \/ TouchModel \/ DeleteArtifact
  BY <1>3 DEF SyncSM, SyncCM, ResyncDue, GarbageCollect, CrashRestart, DeleteModel,
              TouchModel, DeleteArtifact
<1>4. ASSUME NEW d \in Doc, CreateModel(d)
      PROVE  UNCHANGED <<pc, cur, stale, failed, view>> /\ ~fresh'
  BY <1>4 DEF CreateModel
<1>5. ASSUME NEW d \in Doc, EditModel(d)
      PROVE  UNCHANGED <<pc, cur, stale, failed, view>> /\ ~fresh'
  BY <1>5 DEF EditModel
<1>6. ASSUME NEW d \in Dataset, NEW s \in Shape, AlterTable(d, s)
      PROVE  UNCHANGED <<pc, cur, stale, failed, view, fresh, sm>>
  BY <1>6 DEF AlterTable
<1>7. CASE UNCHANGED vars
  BY <1>7 DEF vars
<1> QED
  BY <1>1, <1>2, <1>3, <1>4, <1>5, <1>6, <1>7
  DEF Next, ReconcileStep, Environment

\* A DROP VIEW of finalize that reports no failure leaves the view dropped.
LEMMA DropOneGone ==
    ASSUME TypeEngine, cur \in SemanticModel, stale \in SUBSET View, DropOne, cur' = cur,
           ~failed',
           ~failed => \A v \in Owned(cur) \ stale : view[DbOf[cur.doc]][v] = NoView
    PROVE  \A v \in Owned(cur') \ stale' : view'[DbOf[cur'.doc]][v] = NoView
<1>1. /\ view \in [Db -> [View -> Doc \cup {NoView}]] /\ DbOf[cur.doc] \in Db
      /\ Owned(cur) \in SUBSET View
  BY OwnedType DEF TypeEngine, SemanticModel
<1>2. PICK v \in stale :
         /\ stale' = stale \ {v} /\ failed' = failed
         /\ view' = [view EXCEPT ![DbOf[cur.doc]][v] = NoView]
  BY Zenon DEF DropOne
<1>3. ASSUME NEW x \in Owned(cur) \ stale' PROVE view'[DbOf[cur.doc]][x] = NoView
  <2>1. CASE x = v
    BY <1>1, <1>2, <2>1
  <2>2. CASE x # v
    <3>1. view[DbOf[cur.doc]][x] = NoView /\ x \in View
      BY <1>1, <1>2, <1>3, <2>2
    <3> QED
      BY <1>1, <1>2, <2>2, <3>1
  <2> QED
    BY <2>1, <2>2
<1> QED
  BY <1>3

\* DropInv is inductive.
LEMMA DropInvStep ==
    TypeOK /\ CopiesInv /\ DropInv /\ [Next]_vars => DropInv'
<1> SUFFICES ASSUME TypeOK, CopiesInv, DropInv, [Next]_vars, pc' \in Finalizing
             PROVE  DropInv'
  BY DEF DropInv, Finalizing
<1> USE DEF DropInv
<1>1. CASE StartReconcile
  <2>1. /\ cur' = smCache /\ fresh' = smSeen /\ stale' = Owned(smCache)
        /\ pc' = "finalDrop" /\ sm' = sm
    BY <1>1 DEF StartReconcile, Finalizing, Goto, jobVars, apiVars
  <2> QED
    BY <2>1 DEF CopiesInv
<1>2. CASE FinalizeDrop
  <2>1. /\ pc = "finalDrop" /\ cur' = cur /\ fresh' = fresh /\ sm' = sm
        /\ cur \in SemanticModel
    BY <1>2 DEF FinalizeDrop, apiVars, TypeOK, TypeObjects, CopiesInv
  <2>2. (pc \in Finalizing /\ fresh => cur = sm)'
    BY <2>1 DEF Finalizing
  <2>3. CASE DropOne /\ pc' = pc
    BY <2>1, <2>2, <2>3, DropOneGone DEF TypeOK, TypeJob, Finalizing
  <2>4. CASE stale = {} /\ pc' = "release" /\ UNCHANGED <<view, stale, failed>>
    BY <2>1, <2>2, <2>4 DEF Finalizing
  <2> QED
    BY <1>2, <2>3, <2>4 DEF FinalizeDrop, Goto
<1>3. CASE UNCHANGED <<pc, cur, stale, failed, view>> /\ (fresh' => fresh /\ sm' = sm)
  BY <1>3
<1> QED
  BY <1>1, <1>2, <1>3, FinalizingStep DEF TypeOK

\* Only the release of the finalizer makes an object under it go away, and what
\* its annotation names is dropped by then.
LEMMA ReleaseStep ==
    TypeOK /\ CopiesInv /\ DropInv /\ [Next]_vars
        => (sm # NoSM /\ sm.fin /\ sm' = NoSM /\ ~failed =>
               \A v \in Owned(sm) : view'[DbOf[sm.doc]][v] = NoView)
<1> SUFFICES ASSUME TypeOK, CopiesInv, DropInv, [Next]_vars,
                    sm # NoSM, sm.fin, sm' = NoSM, ~failed
             PROVE  \A v \in Owned(sm) : view'[DbOf[sm.doc]][v] = NoView
  OBVIOUS
<1> USE DEF apiVars, cacheVars, engineVars, queueVars, bindVars, viewVars, jobVars,
            UserVarsUnchanged, Apply, Accepted, Conflict, NotFound, CallFails
<1>0. sm \in SemanticModel
  BY DEF TypeOK, TypeObjects
<1>1. CASE StartReconcile \/ ValidateCompile \/ BindDataset \/ BindUnreachable \/
           BindDone \/ PublishTooLarge \/ PublishArtifact \/ CreateSchema
  BY <1>1 DEF StartReconcile, ValidateCompile, BindDataset,
              BindUnreachable, BindDone, PublishTooLarge, PublishArtifact, CreateSchema
<1>2. CASE CreateView \/ DropStale \/ FinalizeDrop \/ SyncSM \/ SyncCM \/ ResyncDue \/
           GarbageCollect \/ CrashRestart \/ TouchModel \/ DeleteArtifact
  BY <1>2 DEF CreateView, DropStale, FinalizeDrop, SyncSM, SyncCM, ResyncDue,
              GarbageCollect, CrashRestart, TouchModel, DeleteArtifact
<1>3. CASE AddFinalizer
  <2> DEFINE m == [cur EXCEPT !.fin = TRUE]
  <2>1. m \in SemanticModel /\ m.fin
    BY <1>3, AddFinalizerCopy DEF AddFinalizer, TypeOK, TypeObjects, SemanticModel
  <2>2. Stored(m) # NoSM
    BY <2>1 DEF Stored
  <2> QED
    BY <1>3, <2>2 DEF AddFinalizer
<1>4. CASE RecordOwnedViews
  <2> DEFINE m == [sm EXCEPT !.owned = ViewsOf[cur.doc]]
  <2>1. m.fin /\ (m \in SemanticModel)
    BY <1>0, <1>4 DEF RecordOwnedViews, TypeOK, TypeObjects, CopiesInv, SemanticModel
  <2>2. Stored(m) # NoSM
    BY <2>1 DEF Stored
  <2> QED
    BY <1>4, <2>2 DEF RecordOwnedViews
<1>5. CASE StatusUpdate \/ StatusBestEffort
  <2> DEFINE m == [sm EXCEPT !.status = cur.status]
  <2>1. m.fin /\ (m \in SemanticModel)
    BY <1>0, <1>5 DEF StatusUpdate, StatusBestEffort, TypeOK, TypeObjects, CopiesInv,
                      SemanticModel
  <2>2. Stored(m) # NoSM
    BY <2>1 DEF Stored
  <2> QED
    BY <1>5, <2>2 DEF StatusUpdate, StatusBestEffort
<1>6. CASE ReleaseFinalizer
  <2>1. /\ pc = "release" /\ fresh /\ view' = view
    BY <1>6 DEF ReleaseFinalizer
  <2> QED
    BY <2>1 DEF DropInv, Finalizing
<1>7. CASE DeleteModel
  <2> DEFINE m == [sm EXCEPT !.deleting = TRUE]
  <2>1. m.fin /\ m \in SemanticModel
    BY <1>0 DEF SemanticModel
  <2>2. Stored(m) # NoSM
    BY <2>1 DEF Stored
  <2> QED
    BY <1>7, <2>2 DEF DeleteModel
<1>8. ASSUME NEW d \in Doc, CreateModel(d) PROVE FALSE
  BY <1>8 DEF CreateModel
<1>9. ASSUME NEW d \in Doc, EditModel(d) PROVE FALSE
  <2>1. [sm EXCEPT !.doc = d] \in SemanticModel
    BY <1>0 DEF SemanticModel
  <2> QED
    BY <1>9, <2>1 DEF EditModel
<1>10. ASSUME NEW d \in Dataset, NEW s \in Shape, AlterTable(d, s) PROVE FALSE
  BY <1>10 DEF AlterTable
<1>11. CASE UNCHANGED vars
  BY <1>11 DEF vars
<1> QED
  BY <1>1, <1>2, <1>3, <1>4, <1>5, <1>6, <1>7, <1>8, <1>9, <1>10, <1>11
  DEF Next, ReconcileStep, Environment

-----------------------------------------------------------------------------

\* The whole inductive invariant.
FullInv == IInv /\ RestInv /\ DropInv

LEMMA InitFullInv == Init => FullInv
<1> SUFFICES ASSUME Init PROVE FullInv
  OBVIOUS
<1>1. RestInv
  BY DEF Init, RestInv
<1>2. DropInv
  BY DEF Init, DropInv, Finalizing
<1> QED
  BY <1>1, <1>2, InitIInv DEF FullInv

LEMMA FullInvStep == FullInv /\ [Next]_vars => FullInv'
BY IInvStep, RestStep, DropInvStep DEF FullInv, IInv

\* Every state of the operator is well typed: copies, flags, indices and budgets.
THEOREM TypeCorrect == Spec => []TypeOK
<1>1. IInv => TypeOK
  BY DEF IInv
<1> QED
  BY <1>1, InitIInv, IInvStep, PTL DEF Spec

\* Whatever users write, however the engine, the API server and the operator
\* fail, the ConfigMap only ever holds an artifact whose document validated,
\* compiled, fitted and bound to every table as described.
THEOREM OnlyVettedPublished == Spec => []PublishedIsVetted
<1>1. IInv => PublishedIsVetted
  BY DEF IInv
<1> QED
  BY <1>1, InitIInv, IInvStep, PTL DEF Spec

\* Whatever users write and whatever fails, a model at rest is explained: its
\* status is about its current document and names what stands in the way, or the
\* artifact and every declared view are in place; a deleted model is never left
\* waiting.
THEOREM RestExplained == Spec => []RestIsExplained
<1>1. FullInv => RestIsExplained
  <2> SUFFICES ASSUME FullInv, AtRest, sm # NoSM PROVE Explained
    BY DEF RestIsExplained, Explained
  <2>1. pc = "idle" /\ ~Pending
    BY DEF AtRest, Pending
  <2> QED
    BY <2>1 DEF FullInv, RestInv
<1> QED
  BY <1>1, InitFullInv, FullInvStep, PTL DEF Spec

\* A finalizer is released only once every view in the annotation has been
\* dropped, unless a DROP VIEW of that reconcile failed.
THEOREM ReleasedOnlyAfterDrop == Spec => ReleasedAfterDrop
<1>1. FullInv /\ [Next]_vars =>
         [sm # NoSM /\ sm.fin /\ sm' = NoSM /\ ~failed =>
             \A v \in Owned(sm) : view'[DbOf[sm.doc]][v] = NoView]_vars
  BY ReleaseStep DEF FullInv, IInv
<1> QED
  BY <1>1, InitFullInv, FullInvStep, PTL DEF Spec, ReleasedAfterDrop
=============================================================================
