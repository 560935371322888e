\* One process that may crash but is never stopped implements JobLifecycle.
SPECIFICATION ManualFairSpec
CONSTANTS
    Procs = {p1}
    Profiles = {alice}
    Requests = {alice, "ladder_ingestion"}
    MaxJobs = 3
    Faults = {"crash"}
    MaxFaults = 1
    Free = Free
PROPERTIES
    LifecycleSafety
    ProfileJobsEnd
CHECK_DEADLOCK FALSE
