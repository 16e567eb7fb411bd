SPECIFICATION RunSpec
CONSTANTS
    Objects = {o1, o2, o3, o4}
    Kinds = {"work", "sub"}
    Faults = 2
    Attempts = 2
    Careful = TRUE
    SqlStates <- ServerStates
    MaxAttempts = 4
    Channels = {1, 2, 3}
    HandlerChannels = {3}
    Receivers = {1, 2, 3}
    ChannelOf <- MCChannelOf
    MaxSent = 3
    Terminals = {t1, t2}
    Code = {c1, c2}
    Version = {n1, n2}
    Id = {o1, o2, o3}
    MaxRows = 3
    MaxCols = 2
    Strides <- MCStrides
    Indices = {0, 1, 2, 3}
    Arities = {0, 1, 2, 3}
    Streams = {p1, p2}
    MaxWrites = 2
    MaxOpens = 3
    Blobs = {o1, o2, o3}
    Oids = {1, 2}
    MaxSize = 1
    Bytes = {"a", "b"}
    Start <- Contents
    BufSize = 2
    MaxLength = 7
    Value = {0, 2, 4, 6}
    Point <- MCPoint
    Length <- MCLength
    Width = 4
    Texts = {"lp3", "lp0"}
    Numbers = {0, 15, 31}
    Default = "lp3"
    NoObject = NoObject
    t1 = t1
    o1 = o1
    o2 = o2
    o3 = o3
    p1 = p1
    p2 = p2
SYMMETRY Symmetric
CHECK_DEADLOCK FALSE
INVARIANTS
    CommitIsDefinite NoBlockLeft OneOutcome SubscribersListen CopiesBounded CursorsExact
    CopyStreamsExact LargeObjectsExact AccessInside IteratorsExact RangesExact
    LabelsAreThePath
