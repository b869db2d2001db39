SPECIFICATION Spec
CONSTANTS
    Device = {phone, tablet}
    house = house
    bags = bags
    List = {house, bags}
    Preparation = {bags}
    Init0 <- SomeTasks
    Id = {1, 2, 3, 4, 5}
    Kinds = {"create", "toggle", "remove", "edit", "move", "uncheck"}
    MaxGestures = 2
    MaxRemovals = 1
    None = None
SYMMETRY Devices
INVARIANTS TreeSound ShownIsApplied UndoGivesBack
PROPERTIES NothingVanishes MoveLands
CHECK_DEADLOCK FALSE
