\* Two processes, two jobs, two faults of any kind but an early expiry.
SPECIFICATION Spec
CONSTANTS
    Procs = {p1, p2}
    Profiles = {alice}
    Requests = {alice, "ladder_ingestion"}
    MaxJobs = 2
    Faults = {"crash", "stop", "error"}
    MaxFaults = 2
    Free = Free
SYMMETRY Symmetry
INVARIANTS
    TypeOK
    LockExclusive
    UniqueActiveKey
    QueuedOnce
CHECK_DEADLOCK FALSE
