\* One thread; the transfer of an input tensor may fail.  It then stops for good.
CONSTANTS
    None = None
    Thread = {app}
    Device = {d1}
    Graph = {g1}
    Tag = {x}
    Opener = {app}
    Loader = {app}
    Getter = {app}
    Tuner = {}
    Lister = {}
    Faults = {"input"}
    Reuse = TRUE
SPECIFICATION FairSpec
PROPERTY CloseReturns
CHECK_DEADLOCK FALSE
