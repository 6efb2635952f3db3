\* Two posts a day; two requests exhaust the connections of the API's process.
CONSTANTS
    cron = cron
    m1 = m1
    m2 = m2
    cli = cli
    api = api
    Nobody = Nobody
    Ticks = {cron, m1, m2}
    Cron = cron
    Processes = {cli, api}
    ProcessOf <- CallerProcess
    PoolSize = 2
    PostsPerDay = 2
    Calls <- ManualCalls
    MaxSlots = 4
    MaxManual = 2
    MaxFailures = 1
SPECIFICATION FairSpec
INVARIANTS
    
    OneJobPerSlot
    LinkedIsComplete
    HolesExplained
PROPERTIES
    EveryTickEnds
    DayIsFilled
    
