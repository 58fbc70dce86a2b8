\* Alias cycles, constant cycles, and two levels of blocks in a function.
SPECIFICATION FileSpec
CONSTANTS
    None = None
    Names = {"a", "b", "c", "f", "Int"}
    Roots <- SomeFiles
    Bodies <- SomeBodies
    MaxDim = 9
    MaxInt = 5
    MaxDepth = 4
INVARIANTS NamesAreLexical AliasCyclesFound  FoldedIsTrue
CHECK_DEADLOCK FALSE
