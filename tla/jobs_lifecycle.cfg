SPECIFICATION Spec
CONSTANTS
    Users = {alice}
    Files = {f1}
    Requests = {r1}
    Nobody = Nobody
    NoFile = NoFile
    MaxFiles = 1
    Jobs = {j1, j2}
    Outputs = {o1, o2}
    MaxOutputs = 2
    InputLists <- FullInputs
    Faults <- TaskFaults
SYMMETRY Symmetry
INVARIANT TypeOK
PROPERTY ImplementsJobLifecycle
