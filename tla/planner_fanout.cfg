SPECIFICATION Spec
CONSTANTS
    Dataset = {"sales", "store", "item"}
    DatasetOrder <- MCOrder
    Metric <- MCMetric
    Keyed = {"sales", "store"}
    Asks <- MCAsks
    Filters <- MCFilters
    Graphs <- MCGraphs
    MaxMetrics = 2
    NoTerm = NoTerm
INVARIANT RatiosAreSafe
