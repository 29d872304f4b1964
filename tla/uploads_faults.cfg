SPECIFICATION SpecUploads
CONSTANTS
    Users = {alice, bob}
    Files = {f1, f2, f3}
    Requests = {r1, r2}
    Nobody = Nobody
    NoFile = NoFile
    MaxFiles = 2
    Faults <- AllFaults
SYMMETRY Symmetry
INVARIANT TypeOKUploads
INVARIANT RowsNeverSeePartialFiles
INVARIANT StoredUploadsKeepTheirFile
INVARIANT NoFileIsForgotten
