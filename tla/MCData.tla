-------------------------------- MODULE MCData --------------------------------
(***************************************************************************)
(* Every half, with floats around it, and as many graph files.  Bytes have *)
(* two bits here, so that the product of three words stays below 2^31;     *)
(* nothing in GraphFile depends on the width.                              *)
(***************************************************************************)
EXTENDS GraphFile, Fp16, Sequences

VARIABLE n      \* the case

Init == n = 0
Next == \E bit \in {0, 1} : n' = (2 * n + bit) % Bits(16)
Spec == Init /\ [][Next]_n

Positive(m) == [neg |-> FALSE, mag |-> m]
half == [neg |-> n >= Bits(15), mag |-> n % Bits(15)]
nan == Positive(255 * Bits(23) + n)

\* Values of a word, the largest one included.
words == <<0, 1, 2, 3, 5, 17, 128, 255>>
word(i) == words[((n \div Bits(i)) % 8) + 1]
stages == n % 16
fill == (n \div Bits(13)) % Base
file == File(stages, word(4), word(7), word(10), fill)

\* Bytes that are no graph, behind a header that passes for one.
badfile ==
    [o \in 0..(MaxLength + STAGE_LENGTH) |->
        CASE o = VERSION_OFFSET -> GRAPH_VERSION
          [] o \in 240..241 -> Digit(stages, o - 240)
          [] OTHER -> (o * (n \div 16)) % Base]

\* Every half survives the way to a float and back.
HalfsRoundTrip == RoundTrip(half)

\* The floats at both ends of the intervals that round to a half and to the
\* next one become these.
FloatsRound ==
    LET m == half.mag IN
    HalfExp(m) # 31 =>
      \A x \in {Exact(m), Middle(m) - 1, Middle(m), Above(m) - 1} :
        Nearest(m, [half EXCEPT !.mag = x])

\* The NaNs with small significands, and infinity, keep their kind.
NaNsAreKept == NaNsStayNaNs(nan)

\* The graph files are read as they were written.
FilesAreRead == HeaderIsRead(stages, word(4), word(7), word(10), fill)

\* The buffers of a graph fit whatever its file says.
BuffersFit ==
    /\ BuffersHold(file, HEADER_LENGTH + stages * STAGE_LENGTH)
    /\ BuffersHold(badfile, HEADER_LENGTH + STAGE_LENGTH)
=============================================================================
