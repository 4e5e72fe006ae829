\* Bytes of two bits: words below 256, at most 4 stands for 64 * 1024 * 1024.
CONSTANTS
    Base = 4
    MaxOutputs = 4
    MaxLength = 3400
SPECIFICATION Spec
INVARIANTS HalfsRoundTrip FloatsRound NaNsAreKept FilesAreRead BuffersFit
