SPECIFICATION Spec
CONSTANTS
    c1 = c1
    c2 = c2
    t1 = t1
    t2 = t2
    Removed = Removed
    Hidden = Hidden
    NoEntry = NoEntry
    Code <- MCCode
    Thread <- MCThread
    MaxVersion = 3
    Kept = {1}
SYMMETRY Symmetry
PROPERTY SyncedToCache
