SPECIFICATION MCSpec
CONSTANTS
    Clients = {c1, c2}
    Ids = {i1, i2, i3}
    Names = {n}
    MaxLost = 1
    Anonymous = Anonymous
    Unborn = Unborn
SYMMETRY NamesSymmetry
INVARIANTS SharedNamesOverlapped HalfDirHasOwner
PROPERTY GoneForGood
