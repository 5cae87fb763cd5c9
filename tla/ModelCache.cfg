\* Three goroutines: one may hold the reload mutex while a second waits for it
\* and a third answers from the copy it made before, or starves.  Two writes, so
\* that a load may miss one and see the other. Time to live 2 and clock up to 2,
\* so that a snapshot can be fresh, one tick short of expiry, and expired, and a
\* load can outlast its lease.
SPECIFICATION FairSpec
CONSTANTS
    Proc = {p1, p2, p3}
    TTL = 2
    MaxVersion = 2
    MaxTime = 2
    Pending = Pending
    Denied = Denied
    NoSnapshot = NoSnapshot
    Unlocked = Unlocked
INVARIANTS TypeOK CacheNotBehind
PROPERTIES ImplementsLease OneLoadPerBurst CallsReturn
