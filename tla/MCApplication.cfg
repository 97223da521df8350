SPECIFICATION ApplicationSpec
CONSTANTS
    MaxClientIdBytes = 2
    Arguments <- MCArguments
    Texts <- MCTexts
    ClientIds <- MCClientIds
    MaxLines = 1
    MaxEdits = 1
    MaxRequests = 1
    MaxChanges = 1
    MaxFailures = 1
    Nothing = Nothing
INVARIANTS
    StatusKeptByForm
    RequestArrivesAsTyped
PROPERTIES
    ApplicationEnds
