SPECIFICATION FairSpec
CONSTANTS
    Users = {alice, bob}
    Files = {f1}
    Requests = {r1}
    Nobody = Nobody
    NoFile = NoFile
    MaxFiles = 1
    Jobs = {j1}
    Outputs = {o1, o2}
    MaxOutputs = 2
    InputLists <- AllInputs
    Faults <- AllFaults
PROPERTY JobsEnd
INVARIANT BarredJobsNeverRun
INVARIANT JobsUseOwnUploads
