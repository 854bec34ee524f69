\* More requests than connections, and the worker.  No symmetry, because one
\* property is a liveness one; the process ends, so TLC does not look for deadlock.
SPECIFICATION FairSpec
CONSTANTS
    Request = {r1, r2, r3}
    Worker = worker
    MaxOpenConns = 2
INVARIANTS
    TypeOK
    RequestsAreDrained
    PoolClosesIdle
PROPERTIES
    ShutdownEnds
CHECK_DEADLOCK FALSE
