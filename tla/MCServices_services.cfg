SPECIFICATION FairServices
CONSTANTS
    Sides = {"rappels", "ecole", "releves", "fichiers"}
    ana = ana
    leo = leo
    d1 = d1
    d2 = d2
    bin = bin
    trip = trip
    joint = joint
    perso = perso
    mme = mme
    mle = mle
    vir = vir
    recu = recu
    dab = dab
    Member = {ana, leo}
    Device = {d1, d2}
    Owner <- Owners
    Task = {bin}
    Plan <- Plans
    Standing = {trip}
    Window <- Windows
    Evening = Evening
    To <- Told
    Caller = {e1}
    Day = 4
    NoOne = NoOne
    MORNING = 1
    EVE = 3
    LATE_WINDOW = 1
    Quiet <- Quiets
    MaxClock = 5
    MaxCrashes = 1
    MaxRules = 1
    MaxGestures = 1
    Compte = {famille}
    Passage = {p1}
    Question = {mere, ville}
    Secret = {k1, k2}
    Version = {v1, v2}
    Nothing = Nothing
    MAX_FAILURES = 2
    MaxTouches = 1
    MaxStops = 1
    Account = {joint, perso}
    Label = {mme, mle}
    Operation = {vir, recu, dab}
    DayOf <- Days
    Amount <- Amounts
    File <- SomeFiles
    Unknown = Unknown
    MaxImports = 3
    MaxTransfers = 1
    MaxEdits = 3
    Blob = {b1}
    Item = {kitchen, boiler}
    MaxRows = 3
    MaxCuts = 1
INVARIANTS ServicesTypeOK RingsOnce DeferredToTheEndOfQuiet QuestionToAnswer NotInsistent OnlyTheDelta UniqueFingerprint TransfersPaired CitedIsThere 
PROPERTIES NoReminderForgotten AccountsComeBack
CHECK_DEADLOCK FALSE
