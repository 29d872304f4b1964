SPECIFICATION SmallSpec
CONSTANTS
    Days <- WeekDays
    MaxInterval = 2
    Buffer = 2
    Keys = {k1}
    Worlds <- SmallWorlds
    Crews <- TwoCrews
    NoCrew = "none"
    NoDate = "undated"
    DayLength = 2
    DutyBreak = 2
    ReadBuffer = 2
    MaxContext = 3
INVARIANT ReportTypeOK
INVARIANT LoopInv
INVARIANT IntervalsAccepted
INVARIANT ChunksDisjoint
INVARIANT IndexFaithful
INVARIANT DutiesGoByTheirFirstLeg
INVARIANT LegsCountedOnce
INVARIANT ContextComplete
PROPERTY ReportSettles
CHECK_DEADLOCK FALSE
