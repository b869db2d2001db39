SPECIFICATION Spec
CONSTANTS
    Client = {phone}
    Item = {milk}
    Known = {}
    List = {l1, l2}
    Removable = {l2}
    Absent = Absent
    MAX_OPS_PER_BATCH = 2
    OPS_JOURNAL_MAX = 3
    MaxOps = 3
    MaxLosses = 1
    MaxRestarts = 1
    MaxReads = 1
    Kinds = {"add", "edit"}
    Polls = {p1}
INVARIANTS AtMostOnce NoGestureLost InIssueOrder OpInv PendingShown ListsKnown
PROPERTIES KeepsPromise
CHECK_DEADLOCK FALSE
