SPECIFICATION Spec
CONSTANTS
    Doc = {"wide", "trim"}
    Dataset = {"t1"}
    Shape = {"int", "gone"}
    Missing = "gone"
    View = {"va", "vb"}
    Db = {"db1"}
    MaxEdits = 2
    MaxFaults = 0
    Valid <- MCValid
    Compilable <- MCCompilable
    Fits <- MCFits
    DatasetsOf <- MCDatasetsOf
    Accepts <- MCAccepts
    ViewsOf <- MCViewsOf
    Builds <- MCBuilds
    DbOf <- MCDbOf
    NoSM = NoSM
    NoCM = NoCM
    NoDoc = NoDoc
    NoView = NoView
    NoShape = NoShape
    Unset = Unset
INVARIANTS RemovedViewsAreDropped
CHECK_DEADLOCK FALSE
