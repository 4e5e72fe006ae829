\* Fairness: calls that hold a mutex finish and an inference is delivered.
CONSTANTS
    None = None
    Thread = {owner, loader, getter}
    Device = {d1}
    Graph = {g1, g2}
    Tag = {x}
    Opener = {owner}
    Loader = {loader}
    Getter = {getter}
    Tuner = {}
    Lister = {}
    Faults = {"config", "debug"}
    Reuse = FALSE
SPECIFICATION FairSpec
PROPERTIES LocksAreReleased GetResultReturns
