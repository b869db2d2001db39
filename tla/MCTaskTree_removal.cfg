SPECIFICATION Spec
CONSTANTS
    Device = {phone, tablet}
    house = house
    bags = bags
    List = {house, bags}
    Preparation = {bags}
    Init0 <- SomeTasks
    Id = {1, 2, 3, 4, 5}
    Kinds = {"remove"}
    MaxGestures = 1
    MaxRemovals = 0
    None = None
SYMMETRY Devices
INVARIANT RemovalGivenBack
CHECK_DEADLOCK FALSE
