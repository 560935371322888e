\* Two processes; crashes, stops and early expiries: nothing is lost, every job ends.
SPECIFICATION FairSpec
CONSTANTS
    Procs = {p1, p2}
    Profiles = {alice}
    Requests = {alice}
    MaxJobs = 2
    Faults = {"crash", "stop", "expiry"}
    MaxFaults = 2
    Free = Free
INVARIANT NoOrphan
PROPERTIES
    EveryJobEnds
    StopCompletes
CHECK_DEADLOCK FALSE
