SPECIFICATION FairSpec
CONSTANTS
    Doc = {"wide", "slim", "invalid", "uncompilable", "oversized", "unbuildable"}
    Dataset = {"t1"}
    Shape = {"int", "text", "gone"}
    Missing = "gone"
    View = {"va", "vb"}
    Db = {"db1", "db2"}
    MaxEdits = 2
    MaxFaults = 1
    Valid <- MCValid
    Compilable <- MCCompilable
    Fits <- MCFits
    DatasetsOf <- MCDatasetsOf
    Accepts <- MCAccepts
    ViewsOf <- MCViewsOf
    Builds <- MCBuilds
    DbOf <- MCDbOf
    NoSM = NoSM
    NoCM = NoCM
    NoDoc = NoDoc
    NoView = NoView
    NoShape = NoShape
    Unset = Unset
INVARIANTS TypeOK PublishedIsVetted RestIsExplained
PROPERTIES ReleasedAfterDrop Converges DeletionCompletes
CHECK_DEADLOCK FALSE
