\* One request that stores a value is enough.
SPECIFICATION Spec
CONSTANTS
    Deliveries = {d1}
    None = None
INVARIANT
    StorageStarts
