SPECIFICATION FairSpec
CONSTANTS
    p1 = p1
    p2 = p2
    cfg1 = cfg1
    cfg2 = cfg2
    layer1 = layer1
    layer2 = layer2
    man1 = man1
    man2 = man2
    Digests = {cfg1, layer1, layer2, man1}
    Pulls = {p1, p2}
    Image <- SameImage
    Forced = {}
    MaxConcurrent = 0
    Daemon = TRUE
    OneAtATime = FALSE
    Faults = {}
INVARIANTS
    TornBlobHasWriter
    WholeWhenQuiet
PROPERTY
    PullsReturn
CHECK_DEADLOCK FALSE
