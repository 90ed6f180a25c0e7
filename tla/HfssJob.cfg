SPECIFICATION LiveHfssSpec
CONSTANTS
    aedt = aedt
    m1 = m1
    m2 = m2
    Descendants = {aedt}
    Posix = FALSE
    Writers = {"thread", "operator"}
    Contents = {"result", "evidence", "project", "touchstone"}
    NoContent = NoContent
    SourceFiles = {m1, m2}
    MaxFaults = 1
    MaxLateWrites = 1
CHECK_DEADLOCK FALSE
INVARIANTS
    JobInv
    ReceiptsVerify
    BuiltAsAttested
    SuccessIsWhole
    LicenseCoversTree
    UnknownIsTold
    FrozenIsFinal
PROPERTIES
    JobEnds
    LostHostLeavesNothing
