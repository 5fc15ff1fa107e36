CONSTANTS
    Hosts = {h1, default}
    DefaultHost = default
    NoHost = NoHost
    EmptyHost = EmptyHost
    MaxCallbacks = 3
    MaxTimers = 2
SPECIFICATION FairSpec
INVARIANTS TypeOK ReadIsArmed ConnectionIsWatched GreetingLeads SettledDisconnectIsKept
PROPERTY LossIsRepaired
