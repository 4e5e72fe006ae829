\* One process, its loop over the names of two sticks that come and go, and
\* every fault.
CONSTANTS
    None = None
    Process = {p}
    Stick = {1, 2}
    Addr <- TwoAddr
    RomAddr <- TwoRomAddr
    RunAddr <- TwoRunAddr
    ConnectTries = 1
    OpenTries = 2
    ResetTries = 2
    Name <- TwoName
    Faults = {"mvcmd", "send", "unplug", "exit"}
SPECIFICATION FairSpec
INVARIANTS TypeOK NothingIsLeaked
PROPERTIES EnumerationIsComplete OpenReturns
