CONSTANTS
    Hosts = {h1, default}
    DefaultHost = default
    NoHost = NoHost
    EmptyHost = EmptyHost
    MaxCallbacks = 2
    MaxTimers = 2
SPECIFICATION Spec

PROPERTY ReconnectsOnlyWhenAsked
