\* One device and five clicks: it is deleted and added again, or edited twice,
\* while results of the earlier commands are still to come.  One value of the
\* data is refused by the database only.
SPECIFICATION Spec
CONSTANTS
    Ids = {a}
    Data = {good, refused}
    Storable = {good}
    MaxActions = 5
    MaxFaults = 1
    None = None
INVARIANTS
    Converged
    SavedOrReported
PROPERTY
    Ends
