SPECIFICATION Spec
CONSTANTS
    Client = {phone, tablet}
    Mut = {m1, m2}
    Frozen = {}
    Invalid = {}
    Refused = {}
    MAX_REBASE = 3
    MaxVersion = 1
    MaxGiveUps = 1
    MaxRestarts = 0
    MaxReloads = 0
    RacingReload = FALSE
SYMMETRY Devices
INVARIANTS AppliedOnce
CHECK_DEADLOCK FALSE
