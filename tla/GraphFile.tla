------------------------------- MODULE GraphFile -------------------------------
(***************************************************************************)
(* What mvncAllocateGraph of api/src/mvnc_api.c reads in a graph file, the *)
(* buffers it sizes with it, and what mvncGetResult and the options that   *)
(* return pointers do with these buffers.  A file is a function from       *)
(* offsets to bytes; reading outside it is undefined and stands for any    *)
(* byte.  Words have four bytes and wrap.                                  *)
(***************************************************************************)
EXTENDS Integers

CONSTANTS
    Base,           \* values of a byte (256)
    MaxOutputs,     \* 64 * 1024 * 1024
    MaxLength       \* 512 * 1024 * 1024

Word == Base * Base * Base * Base

ASSUME WidthAssumption ==
    /\ Base \in Nat /\ Base > 2
    /\ MaxOutputs \in Nat /\ 2 * MaxOutputs < Word
    /\ MaxLength \in Nat

HEADER_LENGTH == 264
STAGE_LENGTH == 227
VERSION_OFFSET == 36
GRAPH_VERSION == 2
N_STAGES_OFFSET == 240
N_OUTPUTS_OFFSET == HEADER_LENGTH + 136
X_OUT_STRIDE_OFFSET == HEADER_LENGTH + 172
THERMAL_BUFFER_SIZE == 100
DEBUG_BUFFER_SIZE == 120

Byte == 0..(Base - 1)
read_32bits(f, o) ==
    f[o] + Base * f[o + 1] + Base * Base * f[o + 2] + Base * Base * Base * f[o + 3]

-----------------------------------------------------------------------------
(***************************************************************************)
(* Mutated forms of definitions below, one for each property: each breaks  *)
(* the property that its comment names.                                    *)
(***************************************************************************)
\* The stage after the last one (FilesAreRead).
NextLastStage(f) ==
    (f[N_STAGES_OFFSET] + Base * f[N_STAGES_OFFSET + 1]) * STAGE_LENGTH

\* An aux_buffer without room for the throttling level (BuffersFit).
TightAuxSize(n) == 220 + n * 4
-----------------------------------------------------------------------------
(***************************************************************************)
(* mvncAllocateGraph.                                                      *)
(***************************************************************************)
NStages(f) == f[N_STAGES_OFFSET] + Base * f[N_STAGES_OFFSET + 1]

\* Where the last stage begins, less HEADER_LENGTH.  When the file says that there
\* is none the code's unsigned product wraps, and it reads some 4 GB after the
\* header; here it is negative, and nothing is said of such a file.
LastStage(f) == (NStages(f) - 1) * STAGE_LENGTH

\* The three words that are multiplied.
Factors(f) == <<N_OUTPUTS_OFFSET + LastStage(f),
                N_OUTPUTS_OFFSET + LastStage(f) + 4,
                X_OUT_STRIDE_OFFSET + LastStage(f)>>

Times(a, b) == (a * b) % Word

NOutputs(f) ==
    LET w == Factors(f) IN
    Times(Times(read_32bits(f, w[1]), read_32bits(f, w[2])),
          read_32bits(f, w[3])) \div 2

LengthAccepted(length) ==
    length >= HEADER_LENGTH + STAGE_LENGTH /\ length <= MaxLength

Accepted(f, length) ==
    /\ LengthAccepted(length)
    /\ f[VERSION_OFFSET] = GRAPH_VERSION
    /\ NOutputs(f) <= MaxOutputs

\* Bytes of aux_buffer and of output_data.
AuxSize(n) == 224 + n * 4
OutputSize(k) == k * 2

\* Pointers into aux_buffer: debug_buffer, thermal_stats, the throttling level
\* and time_taken, each with the bytes the application or the code reads there.
DebugInfo == <<0, DEBUG_BUFFER_SIZE>>
ThermalStats == <<DEBUG_BUFFER_SIZE, THERMAL_BUFFER_SIZE>>
ThrottleHappened == <<DEBUG_BUFFER_SIZE + THERMAL_BUFFER_SIZE, 4>>
TimeTaken(n) == <<224, 4 * n>>

\* What mvncGetResult asks the stick for.
AuxLength(n) == DEBUG_BUFFER_SIZE + THERMAL_BUFFER_SIZE + 4 + 4 * n
OutputLength(k) == (2 * k) % Word
-----------------------------------------------------------------------------
(***************************************************************************)
(* Properties.                                                             *)
(***************************************************************************)
\* A file with n stages, the last of which has these factors, and c in every
\* byte that mvncAllocateGraph has no use for.
Digit(v, i) == (v \div <<1, Base, Base * Base, Base * Base * Base>>[i + 1]) % Base

File(n, x, y, s, c) ==
    LET last == HEADER_LENGTH + (n - 1) * STAGE_LENGTH IN
    [o \in 0..(HEADER_LENGTH + n * STAGE_LENGTH - 1) |->
        CASE o = 36 -> GRAPH_VERSION
          [] o \in 240..241 -> Digit(n, o - 240)
          [] o \in (last + 136)..(last + 139) -> Digit(x, o - last - 136)
          [] o \in (last + 140)..(last + 143) -> Digit(y, o - last - 140)
          [] o \in (last + 172)..(last + 175) -> Digit(s, o - last - 172)
          [] OTHER -> c]

\* In a file that holds its stages every byte read is inside the file, and a
\* product that fits a word is read exactly, whatever the other bytes are: the
\* file is refused only for more than MaxOutputs.
HeaderIsRead(n, x, y, s, c) ==
    LET f == File(n, x, y, s, c)
        length == HEADER_LENGTH + n * STAGE_LENGTH
    IN
        n > 0 =>
          /\ \A i \in 1..3 : {Factors(f)[i], Factors(f)[i] + 3} \subseteq DOMAIN f
          /\ NStages(f) = n
          /\ x * y * s < Word =>
               /\ NOutputs(f) = (x * y * s) \div 2
               /\ Accepted(f, length) <=>
                    length <= MaxLength /\ (x * y * s) \div 2 <= MaxOutputs

Inside(p, size) == p[1] >= 0 /\ p[1] + p[2] <= size
Apart(p, q) == p[1] + p[2] <= q[1]

\* Whatever an accepted file says, a wrapped product included, the transfers of
\* mvncGetResult fill the buffers exactly and the parts of aux_buffer that are
\* handed out lie inside it, aligned and apart from each other.
BuffersHold(f, length) ==
    Accepted(f, length) =>
      LET n == NStages(f)  k == NOutputs(f) IN
      /\ OutputLength(k) = OutputSize(k)
      /\ AuxLength(n) = AuxSize(n)
      /\ \A p \in {DebugInfo, ThermalStats, ThrottleHappened, TimeTaken(n)} :
           Inside(p, AuxSize(n)) /\ p[1] % 4 = 0
      /\ Apart(DebugInfo, ThermalStats)
      /\ Apart(ThermalStats, ThrottleHappened)
      /\ Apart(ThrottleHappened, TimeTaken(n))
=============================================================================
