\* Three callers in two processes, each of the four caches, one failure. No deadlock check: when the calls and the clock are used up nothing is left to do.
SPECIFICATION CachesSpec
CONSTANTS
    c1 = c1
    c2 = c2
    c3 = c3
    p1 = p1
    p2 = p2
    game = game
    shop = shop
    Callers <- MCCallers
    Process <- MCProcess
    App <- MCApp
    None = None
    ResultLifetime = 3
    Margin = 2
    RoundTrip = 1
    MaxFaults = 1
    MaxCalls = 3
    LastTick = 5
CONSTRAINT OtherProcessShares
CHECK_DEADLOCK FALSE
INVARIANT NothingStale
PROPERTY EveryCallEnds
