\* One thread; GetResult may give up after its 15 seconds.
CONSTANTS
    None = None
    Thread = {app}
    Device = {d1}
    Graph = {g1}
    Tag = {x, y}
    Opener = {app}
    Loader = {app}
    Getter = {app}
    Tuner = {}
    Lister = {}
    Faults = {"timeout"}
    Reuse = TRUE
SPECIFICATION Spec
INVARIANT ResultsMatch
