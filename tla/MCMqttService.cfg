\* One topic, two client identities (a released client next to its
\* successor) and three listeners: an unsubscription and a subscription of
\* the interface can be in flight next to one of the callbacks.
SPECIFICATION Spec
CONSTANTS
    Topics = {t1}
    Clients = {k1, k2}
    Ops = {o1, o2, o3}
    MaxDisconnects = 1
    None = None
INVARIANTS
    HandlersSubscribed
    OneConnection
    TrackedInFlight
    StaysClosed
