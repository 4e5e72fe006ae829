\* A loader, a getter and an owner that also sets MVNC_DONT_BLOCK, on one stick.
\* An input transfer that fails leaves the device mutex locked: the system may
\* then really stop.
CONSTANTS
    None = None
    Thread = {owner, loader, getter}
    Device = {d1}
    Graph = {g1, g2}
    Tag = {x, y, z}
    Opener = {owner}
    Loader = {loader}
    Getter = {getter}
    Tuner = {owner}
    Lister = {}
    Faults = {"input", "blob", "config", "output", "debug"}
    Reuse = FALSE
SPECIFICATION Spec
SYMMETRY TagSymmetry
INVARIANTS LinkExclusive HaveDataInBounds ResultsMatch NothingStalls
    GoneIsReported
PROPERTY ImplementsQueue
CHECK_DEADLOCK FALSE
