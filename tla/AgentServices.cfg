SPECIFICATION MCSpec
CONSTANTS
    ping_loop = ping_loop
    command_executor = command_executor
    unified_sse = unified_sse
    Tasks = {ping_loop, command_executor, unified_sse}
    Registered = {ping_loop, command_executor}
    MaxTaskRestarts = 3
    a1 = a1
    a2 = a2
    Attempts = {a1, a2}
    UNSTABLE_AUTH_RETRIES = 1
    SELF_NUMBER_ATTEMPTS = 1
    FINAL_REPORT_ATTEMPTS = 2
    PluginPolls = 1
    LoginWaits = 2
    MaxLostReports = 2
    v1 = v1
    Views = {v1}
    MaxCrashes = 1
    MaxHiccups = 1
    NoView = NoView
    NoAttempt = NoAttempt
    Routings <- SomeRoutings
    Teams <- SomeTeams
    Channelings <- SomeChannelings
    Settings <- SomeSettings
    MaxEdits = 2
    Absent = Absent
    NoConfig = NoConfig
CHECK_DEADLOCK FALSE
INVARIANTS
    NothingRunsWhenDown
    DeadOnlyWhenGivenUp
    RefreshNotLost
    ClosedCanReopen
    PluginsAgree
    UsedModelsOffered
PROPERTIES
    AttemptSettles
    TunnelEnds
    TeamReloadsLive
