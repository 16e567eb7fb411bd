SPECIFICATION RunSpec
CONSTANTS
    Slots = {s1, s2, s3}
    Handles = {h1, h2}
    Handlers = {e1}
    MaxNames = 1
    Rules = {"transaction", "errorhandler"}
    Null = Null
    NoValue = NoValue
    NoText = NoText
CHECK_DEADLOCK FALSE
INVARIANTS
    HandlesOwned CopyRoundTrip AnswersKept HitsAreGlyphs CompositesExact ArraysExact
    ValuesExact
PROPERTY NamesAreNew
