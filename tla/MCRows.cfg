SPECIFICATION RunSpec
CONSTANTS
    Slots = {o1, o2, o3}
    Refs = {r1}
    Data = {d1, d2}
    Conns = {c1}
    From <- MCFrom
    Rows = 2
    Null = NoObject
    None = NoObject
    NoObject = NoObject
    o1 = o1
    o2 = o2
    o3 = o3
    d1 = d1
    d2 = d2
    c1 = c1
SYMMETRY Symmetric
CHECK_DEADLOCK FALSE
INVARIANTS ResultsOwned CursorStreamsExact PipelineExact
