SPECIFICATION Spec
CONSTANTS
    Client = {phone, tablet}
    Mut = {m1, m2, m3}
    Frozen = {}
    Invalid = {m2}
    Refused = {m3}
    MAX_REBASE = 1
    MaxVersion = 0
    MaxGiveUps = 0
    MaxRestarts = 1
    MaxReloads = 1
    RacingReload = FALSE
SYMMETRY Devices
INVARIANTS DocInv AppliedOnce RetryArmed
PROPERTIES NothingOverwritten
CHECK_DEADLOCK FALSE
