SPECIFICATION Spec
CONSTANTS
    Extractors = {e1, e2, e3}
    Rounds = 2
    Faults = {"extract", "crash"}
SYMMETRY ExtractorSymmetry
INVARIANTS
    ConflictsResolve
    TornLayerHasRemover
PROPERTY
    LayerIsServed
CHECK_DEADLOCK FALSE
