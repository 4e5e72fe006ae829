\* One thread loads; the other reads, opens, closes, allocates, deallocates.
CONSTANTS
    None = None
    Thread = {loader, reader}
    Loader = {loader}
    Reader = {reader}
    Graph = {g1, g2}
    Handle = {h1, h2}
    Object = {x, y}
    Addr = {k1, k2, k3, k4}
    Capacity = 2
SPECIFICATION Spec
SYMMETRY Symmetry
INVARIANTS UserParamsAreLive TensorMatchesObject LeaksAreKnown
