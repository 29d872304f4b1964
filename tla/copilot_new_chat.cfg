SPECIFICATION Spec
CONSTANTS
    MaxAsks = 3
    MaxChats = 1
INVARIANT NewChatStartsClean
