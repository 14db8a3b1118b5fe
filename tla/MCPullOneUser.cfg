SPECIFICATION Spec
CONSTANTS
    p1 = p1
    p2 = p2
    cfg1 = cfg1
    cfg2 = cfg2
    layer1 = layer1
    layer2 = layer2
    man1 = man1
    man2 = man2
    Digests = {cfg1, cfg2, layer1, layer2, man1, man2}
    Pulls = {p1, p2}
    Image <- MovedTag
    Forced = {p2}
    MaxConcurrent = 4
    Daemon = FALSE
    OneAtATime = TRUE
    Faults = {"download", "io", "crash"}
INVARIANTS
    RefNamesWholeImage
PROPERTIES
    StoredStays
CHECK_DEADLOCK FALSE
