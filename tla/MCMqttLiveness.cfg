\* Smaller than MCMqttService.cfg, because liveness is checked: one listener
\* for the interface and one for the callbacks.
SPECIFICATION FairSpec
CONSTANTS
    Topics = {t1}
    Clients = {k1, k2}
    Ops = {o1, o2}
    MaxDisconnects = 0
    None = None
PROPERTIES
    RetriesAfterError
    StopsUnlessMissed
