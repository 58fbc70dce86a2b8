\* Every program of three expressions over two spaces and two roles.
SPECIFICATION Spec
CONSTANTS
    s1 = s1
    s2 = s2
    color = color
    shape = shape
    NoSpace = NoSpace
    NoCapacity = NoCapacity
    NoRole = NoRole
    Spaces = {s1, s2}
    Roles = {color, shape}
    FamilyOf <- OneFamily
    DimOf <- TwoDimensions
    CapacityOf <- SmallCapacity
    RoleSpace <- RolesOfFirst
    Declared <- SomeTypes
    Signatures <- OneFunction
    MaxLoad = 4
    MaxOperands = 3
    MaxItems = 40
    MaxSteps = 3
    GoOn = {"none"}
INVARIANTS LoadsAreTrue RowsAreTrue ResidueIsKnown AnnotationsHold OrderIrrelevant
CHECK_DEADLOCK FALSE
