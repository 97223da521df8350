SPECIFICATION Spec
CONSTANTS
    MaxIdBytes = 2
    MaxNameBytes = 3
    Items <- MCItems
    Found <- MCFound
    Texts <- MCTexts
    Addresses <- MCAddresses
    MaxCalls = 5
    MaxFaults = 1
INVARIANTS
    RefusedFilesKept
    ReadsWhatIsStored
    ItemRulesMatch
PROPERTIES
    ImplementsDeviceTable
CHECK_DEADLOCK FALSE
