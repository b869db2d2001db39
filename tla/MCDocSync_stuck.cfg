SPECIFICATION FairSpec
CONSTANTS
    Client = {phone, tablet}
    Mut = {m1, m2}
    Frozen = {}
    Invalid = {}
    Refused = {}
    MAX_REBASE = 3
    MaxVersion = 0
    MaxGiveUps = 0
    MaxRestarts = 0
    MaxReloads = 0
    RacingReload = FALSE
PROPERTIES PendingIsSettled
CHECK_DEADLOCK FALSE
