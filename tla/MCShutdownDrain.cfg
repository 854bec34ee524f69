\* What the deployment guide says of a clean shutdown.
SPECIFICATION Spec
CONSTANTS
    Request = {r1}
    Worker = worker
    MaxOpenConns = 1
INVARIANTS
    DrainsInFlightWork
CHECK_DEADLOCK FALSE
