SPECIFICATION HandlersFairSpec
CONSTANTS
    Traces = {"t1", "t2"}
    Codes = {"group", "info", "other"}
    Tids = {1, 2}
    Handlers = {1, 2, 3, 4}
    FirstHandler = 1
    Workloads <- TwoTraces
INVARIANTS OneHandler TakenInOrder
PROPERTY ConversionEnds
