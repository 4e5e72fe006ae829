\* A thread each for setting, listing, loading and allocating; every transfer but
\* that of the input may fail, and addresses are given out again.
CONSTANTS
    None = None
    Thread = {setter, lister, loader, owner}
    Setter = {setter}
    Lister = {lister}
    Loader = {loader}
    Owner = {owner}
    Address = {a1, a2}
    Value = {v0, v1}
    Default = v0
    Zero = zero
SPECIFICATION Spec
INVARIANT ListIsRead
PROPERTIES RunsAsConfigured NoInferenceInQueryMode
