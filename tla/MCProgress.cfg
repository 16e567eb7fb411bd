SPECIFICATION RunSpec
CONSTANTS
    Objects = {o1, o2}
    Kinds = {"work", "nontransaction", "robust", "sub"}
    Faults = 3
    Attempts = 2
    Careful = FALSE
    NoObject = NoObject
CHECK_DEADLOCK FALSE
INVARIANTS RegistrationExact
PROPERTIES ExitLeavesAll RobustCommitEnds NotificationsTaken ReadersEnd
