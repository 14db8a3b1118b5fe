SPECIFICATION Spec
CONSTANTS
    p1 = p1
    p2 = p2
    config1 = config1
    config2 = config2
    layer1 = layer1
    layer2 = layer2
    manifest1 = manifest1
    manifest2 = manifest2
    Pushers = {p1, p2}
    Blobs = {config1, config2, layer1, layer2}
    Image <- SharedLayer
    Manifest <- SharedManifests
    Present <- AnyBlobs
    Policies <- Registries
    MaxTime = 6
    Faults = {"local", "network", "auth"}
INVARIANTS
    ManifestsAreComplete
PROPERTIES
    RefusedInThreeCases
CHECK_DEADLOCK FALSE
