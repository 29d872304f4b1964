SPECIFICATION Spec
CONSTANTS
    Users = {alice, bob}
    Requests = {r1}
    NoUser = NoUser
    MaxFailedLogins = 2
    MaxSecret = 3
    FailedBound = 3
    RolePayloads <- AllPayloads
    Operations <- AllOperations
SYMMETRY Symmetry
INVARIANT LiveTokenProvesPassword
PROPERTY SuperAdminRemains
PROPERTY SuperAdminsChooseSuperAdmins
PROPERTY ClosedAccountsStayClosed
PROPERTY ActiveSuperAdminRemains
PROPERTY LockedAtTheLimit
PROPERTY TemporaryPasswordsAreForced
