\* Three jobs, sweeps of one: one job that cannot be resolved is a crowd.
CONSTANTS
    j1 = j1
    j2 = j2
    j3 = j3
    Jobs = {j1, j2, j3}
    Dual = {j1}
    Limit = 1
    MaxFailures = 1
SPECIFICATION FairSpec
PROPERTIES
    NobodyOvertakes
    SweepsAreOfUse
    StuckResolves
    RenderingEndsByItsCall
CHECK_DEADLOCK FALSE
