\* Two threads that open, close and (de)allocate on one stick under the others' feet.
CONSTANTS
    None = None
    Thread = {a, b}
    Device = {d1}
    Graph = {g1, g2}
    Tag = {x, y}
    Opener = {a, b}
    Loader = {a}
    Getter = {b}
    Tuner = {a}
    Lister = {b}
    Faults = {"open", "blob", "config", "output", "aux", "debug", "query", "timeout"}
    Reuse = TRUE
SPECIFICATION Spec
CONSTRAINT HaveDataBound
SYMMETRY HandleSymmetry
INVARIANTS TypeOK LockDiscipline NoUseAfterFree ThermalPointsToGraph
    SoundUntilFailure
