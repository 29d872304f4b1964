SPECIFICATION Spec
CONSTANTS
    Users = {alice}
    Tabs = {t1, t2}
    MaxRequests = 2
    NoUser = NoUser
    MaxTokens = 2
    MaxFailures = 1
INVARIANT TypeOK
INVARIANT RefusedTokensAreNotReused
INVARIANT SignOutForgetsTheUser
PROPERTY LiveTokensAreKept
PROPERTY DeadTokensAreDropped
