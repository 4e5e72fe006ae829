\* Two processes that open and close two sticks, one of which changes address
\* when it boots.  The loops over the names are in UsbBootAlone.
CONSTANTS
    None = None
    Process = {p, q}
    Stick = {1, 2}
    Addr <- TwoAddr
    RomAddr <- TwoRomAddr
    RunAddr <- TwoRunAddr
    ConnectTries = 1
    OpenTries = 2
    ResetTries = 2
    Name <- TwoName
    Faults = {"send", "exit"}
SPECIFICATION Spec
SYMMETRY ProcessSymmetry
CONSTRAINT NobodyEnumerates
INVARIANTS NothingIsLeaked OneHandle
PROPERTIES InUseIsNotReset
