SPECIFICATION Spec
CONSTANTS
    Users = {alice, bob}
    Requests = {r1, r2}
    NoUser = NoUser
    MaxFailedLogins = 2
    MaxSecret = 3
    FailedBound = 2
    RolePayloads <- AdminPayloads
    Operations <- SessionOperations
SYMMETRY Symmetry
INVARIANT LiveTokenProvesPassword
