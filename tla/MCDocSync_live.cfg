SPECIFICATION FairSpec
CONSTANTS
    Client = {phone}
    Mut = {m1, m2}
    Frozen = {m2}
    Invalid = {}
    Refused = {}
    MAX_REBASE = 1
    MaxVersion = 3
    MaxGiveUps = 1
    MaxRestarts = 0
    MaxReloads = 1
    RacingReload = FALSE
PROPERTIES SentIsSettled
CHECK_DEADLOCK FALSE
