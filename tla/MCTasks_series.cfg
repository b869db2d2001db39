SPECIFICATION Spec
CONSTANTS
    FirstYear = 2024
    FirstWeekday = 1
    HORIZON_DAYS = 62
    Never = Never
    Device = {phone, tablet}
    Rules <- SomeRules
    Start <- LastOfJanuary
    Moments <- SomeMoments
    Kinds = {"done", "skip", "reopen", "edit", "add", "set"}
    HISTORY_MAX = 4
    STOCK_MAX = 9
    Use = 1
    Counts = {0}
    MaxGestures <- Budget
    Kept = Kept
SYMMETRY Devices
INVARIANTS SeriesTypeOK SeriesGoesForward OnceADay StockAddsUp AlertedWhenLow UndoRestores NextIsTheFirst
CHECK_DEADLOCK FALSE
