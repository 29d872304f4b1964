SPECIFICATION Spec
CONSTANTS
    MaxAsks = 3
    MaxChats = 1
INVARIANT TypeOK
INVARIANT OneAwaitedAsk
INVARIANT AnswersFollowTheirQuestion
INVARIANT ChatKeepsItsThread
 
PROPERTY BusyEnds
