--------------------------------- MODULE Fp16 ---------------------------------
(***************************************************************************)
(* The conversions of examples/apps/multistick_cpp/cpp/fp16.c, which the   *)
(* applications use on both sides of the stick: floattofp16 on the tensor  *)
(* they load, fp16tofloat on the result.  A number is its sign and the bit *)
(* pattern below the sign: 15 bits of a half, 31 bits of a float.          *)
(***************************************************************************)
EXTENDS Integers

Bits(b) == 2 ^ b
Number(w) == [neg : BOOLEAN, mag : 0..(Bits(w) - 1)]
Half == Number(15)

\* Exponent and significand of a half, of a float.
HalfExp(m) == m \div Bits(10)
HalfSig(m) == m % Bits(10)
FloatExp(m) == m \div Bits(23)
FloatSig(m) == m % Bits(23)

-----------------------------------------------------------------------------
(***************************************************************************)
(* Mutated forms of definitions below, one for each property: each breaks  *)
(* the property that its comment names.                                    *)
(***************************************************************************)
\* A loop that stops one bit early (HalfsRoundTrip).
HastyShift(sig) == CHOOSE k \in 0..9 : (sig * Bits(k)) \div Bits(9) = 1

\* Cutting off without rounding (FloatsRound).
CutRounded(sig) == sig \div Bits(13)

\* A NaN with a small significand becomes an infinity (NaNsAreKept).
LossyNaN(sig) == 31 * Bits(10) + sig \div Bits(13)
-----------------------------------------------------------------------------
\* How far the significand of a subnormal is shifted: the first bit and then
\* the loop, until bit 10 is set.
Shift(sig) == CHOOSE k \in 1..10 : (sig * Bits(k)) \div Bits(10) = 1

half2float(h) ==
    [neg |-> h.neg,
     mag |->
       CASE h.mag = 0 -> 0
         [] HalfExp(h.mag) = 0 /\ h.mag # 0 ->
              LET k == Shift(h.mag) IN
              (127 - 15 - (k - 1)) * Bits(23)
                + ((h.mag * Bits(k)) % Bits(10)) * Bits(13)
         [] HalfExp(h.mag) = 31 -> 255 * Bits(23) + HalfSig(h.mag) * Bits(13)
         [] OTHER -> (h.mag + 112 * Bits(10)) * Bits(13)]

\* Adding half of the last place that is kept, then cutting off.
Rounded(sig) == (sig + Bits(12)) \div Bits(13)

\* A NaN keeps the high bits of its significand, and is kept a NaN.
NaN(sig) == IF sig \div Bits(13) = 0 THEN 31 * Bits(10) + 1
            ELSE 31 * Bits(10) + sig \div Bits(13)

Infinity == 31 * Bits(10)

\* 143, 112 and 102 are 0x47800000, 0x38000000 and 0x33000000 shifted by 23.
float2half(f) ==
    LET exp == FloatExp(f.mag)
        sig == FloatSig(f.mag)
    IN [neg |-> f.neg,
        mag |->
          CASE exp = 255 /\ sig # 0 -> NaN(sig)
            [] exp >= 143 /\ (exp = 255 => sig = 0) -> Infinity
            [] exp < 102 -> 0
            [] exp \in 102..112 ->
                 Rounded((Bits(23) + sig) \div Bits(113 - exp))
            [] exp \in 113..142 -> (exp - 112) * Bits(10) + Rounded(sig)]
-----------------------------------------------------------------------------
(***************************************************************************)
(* Reference: the IEEE 754 formats.                                        *)
(***************************************************************************)
\* The float whose value is n * 2^e, for n below 2^24.
Top(n) == CHOOSE p \in 0..23 : n \div Bits(p) = 1
FloatOf(n, e) ==
    IF n = 0 THEN 0
    ELSE (Top(n) + e + 127) * Bits(23) + (n - Bits(Top(n))) * Bits(23 - Top(n))

\* The value of the half m is Coefficient(m) * 2^Power(m).
Coefficient(m) == IF HalfExp(m) = 0 THEN m ELSE Bits(10) + HalfSig(m)
Power(m) == IF HalfExp(m) = 0 THEN -24 ELSE HalfExp(m) - 25

Exact(m) == FloatOf(Coefficient(m), Power(m))
\* The next larger half, or 2^16 for the largest, and the middle between.
Above(m) == FloatOf(Coefficient(m) + 1, Power(m))
Middle(m) == FloatOf(2 * Coefficient(m) + 1, Power(m) - 1)
-----------------------------------------------------------------------------
(***************************************************************************)
(* Properties.                                                             *)
(***************************************************************************)
\* A result reaches the application with the value the stick gave it, and goes
\* back unchanged: every half, subnormals, infinities and NaNs included.
RoundTrip(h) ==
    /\ float2half(half2float(h)) = h
    /\ half2float(h).neg = h.neg
    /\ HalfExp(h.mag) # 31 => half2float(h).mag = Exact(h.mag)

\* A float becomes the nearest half, m up to the middle and the next one from
\* the middle on; above the largest half that is an infinity.  The sign stays.
Nearest(m, f) ==
    HalfExp(m) # 31 =>
      /\ f.mag \in Exact(m)..(Middle(m) - 1) => float2half(f) = [f EXCEPT !.mag = m]
      /\ f.mag \in Middle(m)..(Above(m) - 1) =>
           float2half(f) = [f EXCEPT !.mag = m + 1]

\* No NaN becomes a number and no number a NaN.
NaNsStayNaNs(f) ==
    f.mag > 255 * Bits(23) <=> float2half(f).mag > Infinity
=============================================================================
