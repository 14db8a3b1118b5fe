SPECIFICATION Spec
CONSTANTS
    p1 = p1
    p2 = p2
    config1 = config1
    config2 = config2
    layer1 = layer1
    layer2 = layer2
    manifest1 = manifest1
    manifest2 = manifest2
    Pushers = {p1}
    Blobs = {config1, layer1}
    Image <- Single
    Manifest <- SingleManifest
    Present <- AnyBlobs
    Policies <- Private
    MaxTime = 0
    Faults = {}
INVARIANTS
    PushSucceeds
CHECK_DEADLOCK FALSE
