SPECIFICATION Spec
CONSTANTS
    f = f
    g = g
    b = b
    c = c
    d = d
    s1 = s1
    s2 = s2
    s3 = s3
    s4 = s4
    Null = Null
    MaxDepth = 3
    Objects <- MCObjects
    Leaf <- MCLeaf
    Depth <- MCDepth
    Streams <- MCStreams
SYMMETRY StreamSymmetry
INVARIANTS
    TypeOK
    SoleOwner
    FillerReadsLive
    OnlyKnownLeaks
PROPERTIES
    LostByAssignmentOnly
