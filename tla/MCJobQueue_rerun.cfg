\* Two processes, no fault.
SPECIFICATION Spec
CONSTANTS
    Procs = {p1, p2}
    Profiles = {alice}
    Requests = {alice}
    MaxJobs = 1
    Faults = {}
    MaxFaults = 0
    Free = Free
PROPERTY SucceededIsFinal
CHECK_DEADLOCK FALSE
