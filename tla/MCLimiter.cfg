\* Two addresses that may be idle, busy or evicted at any time, two requests, and two
\* limiters: one address can draw on an evicted bucket and its successor.  No symmetry,
\* because one of the properties is a liveness one.
SPECIFICATION FairSpec
CONSTANTS
    Client = {c1, c2}
    Limiter = {l1, l2}
    Request = {r1, r2}
    Burst = 2
    None = None
INVARIANTS
    TypeOK
    GaugeFollowsMap
    AtMostTwiceTheBurst
PROPERTIES
    IdleClientsLeave
