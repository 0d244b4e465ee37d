CONSTANTS
    Runners = {r1}
    Tasks = {}
    All = All
    None = None
    MaxCalls = 4
    MaxWire = 1
SPECIFICATION Spec
INVARIANT ShowsLivePresence
