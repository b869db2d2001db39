SPECIFICATION FairSpec
CONSTANTS
    Client = {phone, tablet}
    Item = {milk}
    Known = {}
    List = {l1}
    Removable = {}
    Absent = Absent
    MAX_OPS_PER_BATCH = 1
    OPS_JOURNAL_MAX = 1
    MaxOps = 2
    MaxLosses = 1
    MaxRestarts = 0
    MaxReads = 0
    Kinds = {"add", "remove"}
    Polls = {p1}
INVARIANTS LiveIsTruthful
PROPERTIES ScreenCatchesUp QueueDrains RedoneOnlyIfForgotten
CHECK_DEADLOCK FALSE
