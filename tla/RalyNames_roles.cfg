\* The same files: a role declared above its space.
SPECIFICATION FileSpec
CONSTANTS
    None = None
    Names = {"a", "b", "c", "f", "Int"}
    Roots <- SomeFiles
    Bodies <- SomeBodies
    MaxDim = 9
    MaxInt = 5
    MaxDepth = 4
INVARIANT RoleSpacesHoisted
CHECK_DEADLOCK FALSE
