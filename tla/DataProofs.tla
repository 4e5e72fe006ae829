------------------------------ MODULE DataProofs ------------------------------
(***************************************************************************)
(* Theorems about Fp16 and GraphFile, and from them the invariants of the  *)
(* module that TLC runs.  TLC goes through the cases of a counter, with    *)
(* bytes of two bits because its integers are small.  The theorems about   *)
(* Fp16 hold for every half and every float, those about buffers for every *)
(* width of a byte and every content, those about files for the width of   *)
(* the code and every header.                                              *)
(***************************************************************************)
EXTENDS MCData, TLAPS

(***************************************************************************)
(* Halfs and floats: powers of two and places of digits.                   *)
(***************************************************************************)
LEMMA Powers ==
    /\ Bits(0) = 1 /\ Bits(1) = 2 /\ Bits(2) = 4 /\ Bits(3) = 8 /\ Bits(4) = 16
    /\ Bits(5) = 32 /\ Bits(6) = 64 /\ Bits(7) = 128 /\ Bits(8) = 256
    /\ Bits(9) = 512 /\ Bits(10) = 1024 /\ Bits(11) = 2048 /\ Bits(12) = 4096
    /\ Bits(13) = 8192 /\ Bits(14) = 16384 /\ Bits(15) = 32768
    /\ Bits(16) = 65536 /\ Bits(17) = 131072 /\ Bits(18) = 262144
    /\ Bits(19) = 524288 /\ Bits(20) = 1048576 /\ Bits(21) = 2097152
    /\ Bits(22) = 4194304 /\ Bits(23) = 8388608 /\ Bits(31) = 2147483648
  BY Z3 DEF Bits

\* Twice a power of two is at most the next one.
LEMMA PowersGrow ==
    ASSUME NEW p \in 0..23, NEW q \in 0..23, q < p
    PROVE  Bits(q) > 0 /\ 2 * Bits(q) <= Bits(p)
<1>1. \A i \in 0..22 : Bits(i + 1) = 2 * Bits(i) /\ Bits(i) > 0
  BY Powers, Z3
<1> QED
  BY Powers, Z3

LEMMA DivIsOne ==
    ASSUME NEW c \in Nat, NEW b \in Nat, b > 0
    PROVE  c \div b = 1 <=> b <= c /\ c < 2 * b
  BY Z3
LEMMA TopIs ==
    ASSUME NEW p \in 0..23, NEW c \in Nat, Bits(p) <= c, c < 2 * Bits(p)
    PROVE  Top(c) = p
<1>1. \A q \in 0..23 : Bits(q) \in Nat /\ Bits(q) > 0
  BY Powers, Z3
<1>2. ASSUME NEW q \in 0..23 PROVE c \div Bits(q) = 1 <=> q = p
  <2>1. c \div Bits(q) = 1 <=> Bits(q) <= c /\ c < 2 * Bits(q)
    BY <1>1, DivIsOne
  <2>2. CASE q < p
    BY <1>1, <2>1, <2>2, PowersGrow, Z3
  <2>3. CASE q > p
    BY <1>1, <2>1, <2>3, PowersGrow, Z3
  <2> QED
    BY <1>1, <2>1, <2>2, <2>3, Z3
<1> QED
  BY <1>2 DEF Top

LEMMA FloatIs ==
    ASSUME NEW p \in 0..23, NEW c \in Nat, NEW e \in Int,
           Bits(p) <= c, c < 2 * Bits(p)
    PROVE  FloatOf(c, e) = (p + e + 127) * Bits(23) + (c - Bits(p)) * Bits(23 - p)
<1>1. Top(c) = p
  BY TopIs
<1>2. c # 0
  BY Powers, Z3
<1> QED
  BY <1>1, <1>2, Powers DEF FloatOf

\* Where the significand of a subnormal ends up.
LEMMA ShiftIs ==
    ASSUME NEW p \in 0..9, NEW m \in Nat, Bits(p) <= m, m < 2 * Bits(p)
    PROVE  Shift(m) = 10 - p
<1>1. ASSUME NEW k \in 1..10 PROVE (m * Bits(k)) \div 1024 = 1 <=> k = 10 - p
  <2>1. m * Bits(k) \in Nat
    BY Powers, Z3
  <2>2. (m * Bits(k)) \div 1024 = 1 <=> 1024 <= m * Bits(k) /\ m * Bits(k) < 2048
    BY <2>1, Z3
  <2>3. \A i \in 1..9 : Bits(i + 1) = 2 * Bits(i) /\ Bits(i) > 0
    BY Powers, Z3
  <2>4. \/ k = 1 /\ Bits(k) = 2
        \/ k = 2 /\ Bits(k) = 4
        \/ k = 3 /\ Bits(k) = 8
        \/ k = 4 /\ Bits(k) = 16
        \/ k = 5 /\ Bits(k) = 32
        \/ k = 6 /\ Bits(k) = 64
        \/ k = 7 /\ Bits(k) = 128
        \/ k = 8 /\ Bits(k) = 256
        \/ k = 9 /\ Bits(k) = 512
        \/ k = 10 /\ Bits(k) = 1024
    BY Powers, Z3
  <2>5. \/ p = 0 /\ m >= 1 /\ m < 2
        \/ p = 1 /\ m >= 2 /\ m < 4
        \/ p = 2 /\ m >= 4 /\ m < 8
        \/ p = 3 /\ m >= 8 /\ m < 16
        \/ p = 4 /\ m >= 16 /\ m < 32
        \/ p = 5 /\ m >= 32 /\ m < 64
        \/ p = 6 /\ m >= 64 /\ m < 128
        \/ p = 7 /\ m >= 128 /\ m < 256
        \/ p = 8 /\ m >= 256 /\ m < 512
        \/ p = 9 /\ m >= 512 /\ m < 1024
    BY Powers, Z3
  <2> QED
    BY <2>2, <2>4, <2>5, Z3
<1>2. 10 - p \in 1..10
  BY Z3
<1> QED
  BY <1>1, <1>2, Powers DEF Shift
-----------------------------------------------------------------------------
LEMMA TenIn == 10 \in 0..23 /\ 11 \in 0..23
  BY Z3

\* The floats between a half and the next one, normal halves first.
LEMMA NormalValues ==
    ASSUME NEW m \in Nat, 1024 <= m, m < 31744
    PROVE  /\ Exact(m) = (m + 114688) * 8192
           /\ Middle(m) = Exact(m) + 4096
           /\ Above(m) = Exact(m) + 8192
<1> DEFINE e == m \div 1024
           s == m % 1024
<1>1. /\ e \in 1..30 /\ s \in 0..1023 /\ m = 1024 * e + s
  <2>2. e \in Int /\ s \in 0..1023 /\ m = 1024 * e + s
    BY Z3
  <2> HIDE DEF e, s
  <2> QED
    BY <2>2, Z3
<1>2. HalfExp(m) = e /\ HalfSig(m) = s
  BY Powers, Z3 DEF HalfExp, HalfSig
<1> HIDE DEF e, s
<1>3. Coefficient(m) = 1024 + s /\ Power(m) = e - 25
  BY <1>1, <1>2, Powers, Z3 DEF Coefficient, Power
<1>4. FloatOf(1024 + s, e - 25) = (e + 112) * 8388608 + s * 8192
  <2> DEFINE c == 1024 + s
             x == e - 25
  <2>1. c \in Nat /\ x \in Int /\ Bits(10) <= c /\ c < 2 * Bits(10)
    BY <1>1, Powers, Z3
  <2> HIDE DEF c, x
  <2>2. FloatOf(c, x) = (10 + x + 127) * Bits(23) + (c - Bits(10)) * Bits(23 - 10)
    BY <2>1, TenIn, FloatIs
  <2> QED
    BY <1>1, <2>2, Powers, Z3 DEF c, x
<1>5. FloatOf(2 * (1024 + s) + 1, (e - 25) - 1)
        = (e + 112) * 8388608 + (2 * s + 1) * 4096
  <2> DEFINE c == 2 * (1024 + s) + 1
             x == (e - 25) - 1
  <2>1. c \in Nat /\ x \in Int /\ Bits(11) <= c /\ c < 2 * Bits(11)
    BY <1>1, Powers, Z3
  <2> HIDE DEF c, x
  <2>2. FloatOf(c, x) = (11 + x + 127) * Bits(23) + (c - Bits(11)) * Bits(23 - 11)
    BY <2>1, TenIn, FloatIs
  <2> QED
    BY <1>1, <2>2, Powers, Z3 DEF c, x
<1>6. FloatOf((1024 + s) + 1, e - 25) = (e + 112) * 8388608 + (s + 1) * 8192
  <2> DEFINE c == (1024 + s) + 1
             x == e - 25
  <2>0. c \in Nat /\ x \in Int
    BY <1>1, Z3
  <2>1. CASE s < 1023
    <3>1. Bits(10) <= c /\ c < 2 * Bits(10)
      BY <1>1, <2>1, Powers, Z3
    <3> HIDE DEF c, x
    <3>2. FloatOf(c, x) = (10 + x + 127) * Bits(23) + (c - Bits(10)) * Bits(23 - 10)
      BY <2>0, <3>1, TenIn, FloatIs
    <3> QED
      BY <1>1, <3>2, Powers, Z3 DEF c, x
  <2>2. CASE s = 1023
    <3>1. Bits(11) <= c /\ c < 2 * Bits(11)
      BY <1>1, <2>2, Powers, Z3
    <3> HIDE DEF c, x
    <3>2. FloatOf(c, x) = (11 + x + 127) * Bits(23) + (c - Bits(11)) * Bits(23 - 11)
      BY <2>0, <3>1, TenIn, FloatIs
    <3> QED
      BY <1>1, <2>2, <3>2, Powers, Z3 DEF c, x
  <2> QED
    BY <1>1, <2>1, <2>2, Z3
<1>7. /\ Exact(m) = FloatOf(1024 + s, e - 25)
      /\ Middle(m) = FloatOf(2 * (1024 + s) + 1, (e - 25) - 1)
      /\ Above(m) = FloatOf((1024 + s) + 1, e - 25)
  BY <1>3 DEF Exact, Middle, Above
<1> QED
  BY <1>1, <1>4, <1>5, <1>6, <1>7, Z3

\* A subnormal half whose highest bit is p.
LEMMA SubnormalValues ==
    ASSUME NEW p \in 0..9, NEW m \in Nat, Bits(p) <= m, m < 2 * Bits(p)
    PROVE  /\ Exact(m) = (p + 103) * 8388608 + (m - Bits(p)) * Bits(23 - p)
           /\ Middle(m) = Exact(m) + Bits(22 - p)
           /\ Above(m) = Exact(m) + Bits(23 - p)
<1>1. /\ Bits(p + 1) = 2 * Bits(p) /\ Bits(23 - p) = 2 * Bits(22 - p)
      /\ Bits(p) * Bits(23 - p) = 8388608 /\ Bits(p) \in Nat /\ Bits(22 - p) \in Nat
      /\ Bits(p) > 0 /\ Bits(p) <= 512 /\ m # 0 /\ m < 1024
  BY Powers, Z3
<1>2. Coefficient(m) = m /\ Power(m) = -24
  <2>1. m \div 1024 = 0
    BY <1>1, Z3
  <2> QED
    BY <2>1, Powers DEF HalfExp, Coefficient, Power
<1>3. /\ Exact(m) = FloatOf(m, -24) /\ Middle(m) = FloatOf(2 * m + 1, (-24) - 1)
      /\ Above(m) = FloatOf(m + 1, -24)
  BY <1>2 DEF Exact, Middle, Above
<1>4. p \in 0..23 /\ p + 1 \in 0..23 /\ -24 \in Int /\ (-24) - 1 \in Int
      /\ 2 * m + 1 \in Nat /\ m + 1 \in Nat
  BY Z3
<1>9. Bits(23) = 8388608 /\ 23 - (p + 1) = 22 - p
  BY Powers, Z3
<1>10. /\ Bits(p) \in Int /\ Bits(p + 1) \in Int /\ Bits(22 - p) \in Int
       /\ Bits(23 - p) \in Int /\ Bits(23) \in Int
  BY <1>1, <1>9, Z3
<1>5. FloatOf(m, -24) = (p + -24 + 127) * Bits(23) + (m - Bits(p)) * Bits(23 - p)
  BY <1>4, FloatIs
<1>6. FloatOf(2 * m + 1, (-24) - 1)
        = (p + 103) * Bits(23) + (2 * m + 1 - Bits(p + 1)) * Bits(22 - p)
  <2> DEFINE c == 2 * m + 1
             x == (-24) - 1
             q == p + 1
  <2>1. c \in Nat /\ x \in Int /\ q \in 0..23 /\ Bits(q) <= c /\ c < 2 * Bits(q)
    BY <1>1, <1>4, Z3
  <2> HIDE DEF c, x, q
  <2>2. FloatOf(c, x) = (q + x + 127) * Bits(23) + (c - Bits(q)) * Bits(23 - q)
    BY <2>1, FloatIs
  <2>3. q + x + 127 = p + 103 /\ 23 - q = 22 - p
    BY Z3 DEF x, q
  <2> QED
    BY <1>10, <2>2, <2>3, Z3 DEF c, x, q
<1>7. FloatOf(m + 1, -24) = (p + 103) * Bits(23) + (m + 1 - Bits(p)) * Bits(23 - p)
  <2> DEFINE c == m + 1
             x == -24
             q == p + 1
  <2>0. c \in Nat /\ x \in Int /\ q \in 0..23
    BY Z3
  <2>1. CASE c < 2 * Bits(p)
    <3>1. Bits(p) <= c
      BY <1>1, Z3
    <3> HIDE DEF c, x
    <3>2. FloatOf(c, x) = (p + x + 127) * Bits(23) + (c - Bits(p)) * Bits(23 - p)
      BY <1>4, <2>0, <2>1, <3>1, FloatIs
    <3>3. p + x + 127 = p + 103
      BY Z3 DEF x
    <3> QED
      BY <1>10, <3>2, <3>3, Z3 DEF c, x
  <2>2. CASE c = 2 * Bits(p)
    <3>1. Bits(q) <= c /\ c < 2 * Bits(q)
      BY <1>1, <2>2, Z3
    <3> HIDE DEF c, x, q
    <3>2. FloatOf(c, x) = (q + x + 127) * Bits(23) + (c - Bits(q)) * Bits(23 - q)
      BY <2>0, <3>1, FloatIs
    <3>3. c - Bits(q) = 0 /\ c - Bits(p) = Bits(p) /\ q + x + 127 = p + 104
      BY <1>1, <2>2, Z3 DEF x, q
    <3>4. FloatOf(c, x) = (p + 104) * Bits(23) /\ Bits(23) = Bits(p) * Bits(23 - p)
      <4>1. 23 - q \in 0..23
        BY Z3 DEF q
      <4>2. Bits(23 - q) \in Int /\ Bits(23) \in Int
        BY <4>1, Powers, Z3
      <4>3. \A i \in Int : 0 * i = 0
        BY Z3
      <4> QED
        BY <1>1, <1>9, <3>2, <3>3, <4>2, <4>3, Z3
    <3>5. FloatOf(c, x) = (p + 103) * Bits(23) + (c - Bits(p)) * Bits(23 - p)
      BY <1>9, <3>3, <3>4, Z3
    <3> QED
      BY <1>10, <3>5, Z3 DEF c, x
  <2> QED
    BY <1>1, <2>1, <2>2, Z3
<1>8. /\ (2 * m + 1 - Bits(p + 1)) * Bits(22 - p)
            = (m - Bits(p)) * Bits(23 - p) + Bits(22 - p)
      /\ (m + 1 - Bits(p)) * Bits(23 - p) = (m - Bits(p)) * Bits(23 - p) + Bits(23 - p)
  <2>1. \A a, b, c \in Int : /\ (2 * a + 1 - 2 * b) * c = (a - b) * (2 * c) + c
                             /\ (a + 1 - b) * c = (a - b) * c + c
    BY Z3
  <2> QED
    BY <1>1, <2>1, Z3
<1> QED
  BY <1>1, <1>3, <1>5, <1>6, <1>7, <1>8, <1>9, Z3
-----------------------------------------------------------------------------
\* What float2half makes of the float with exponent e and significand s.
Float == Number(31)

LEMMA FloatParts ==
    ASSUME NEW x \in Nat, NEW e \in Nat, NEW s \in Nat,
           x = e * Bits(23) + s, s < Bits(23)
    PROVE  FloatExp(x) = e /\ FloatSig(x) = s
<1>1. Bits(23) = 8388608
  BY Powers, Z3
<1>2. x \div 8388608 = e /\ x % 8388608 = s
  BY <1>1, Z3
<1> QED
  BY <1>1, <1>2, Z3 DEF FloatExp, FloatSig

LEMMA ConvertSplits ==
    ASSUME NEW f \in Float, NEW e \in Nat, NEW s \in Nat,
           FloatExp(f.mag) = e, FloatSig(f.mag) = s
    PROVE  LET h == float2half(f) IN
           /\ h = [f EXCEPT !.mag = h.mag]
           /\ e = 255 /\ s # 0 => h.mag = NaN(s)
           /\ e >= 143 /\ ~(e = 255 /\ s # 0) => h.mag = Infinity
           /\ e < 102 => h.mag = 0
           /\ e \in 102..112 => h.mag = Rounded((Bits(23) + s) \div Bits(113 - e))
           /\ e \in 113..142 => h.mag = (e - 112) * Bits(10) + Rounded(s)
<1> DEFINE v ==
        CASE e = 255 /\ s # 0 -> NaN(s)
          [] e >= 143 /\ (e = 255 => s = 0) -> Infinity
          [] e < 102 -> 0
          [] e \in 102..112 -> Rounded((Bits(23) + s) \div Bits(113 - e))
          [] e \in 113..142 -> (e - 112) * Bits(10) + Rounded(s)
<1>1. float2half(f) = [neg |-> f.neg, mag |-> v]
  BY DEF float2half
<1>2. f = [neg |-> f.neg, mag |-> f.mag]
  BY DEF Float, Number
<1>3. float2half(f).mag = v /\ float2half(f) = [f EXCEPT !.mag = v]
  BY <1>1, <1>2, SMT
<1>4. /\ e = 255 /\ s # 0 => v = NaN(s)
      /\ e >= 143 /\ ~(e = 255 /\ s # 0) => v = Infinity
      /\ e < 102 => v = 0
      /\ e \in 102..112 => v = Rounded((Bits(23) + s) \div Bits(113 - e))
      /\ e \in 113..142 => v = (e - 112) * Bits(10) + Rounded(s)
  BY SMT
<1> HIDE DEF v
<1> QED
  BY <1>3, <1>4

\* The float r places above the normal half m, and what it becomes.
NormalPlace(m, r, x) ==
    /\ m \in Nat /\ 1024 <= m /\ m < 31744
    /\ r \in Nat /\ r < 8192
    /\ x \in Nat /\ x = (m + 114688) * 8192 + r

LEMMA NormalRounded ==
    ASSUME NEW m, NEW r, NEW x, NormalPlace(m, r, x)
    PROVE  \E e, s \in Nat :
             /\ 113 <= e /\ e <= 142
             /\ FloatExp(x) = e /\ FloatSig(x) = s
             /\ (e - 112) * Bits(10) + Rounded(s) = IF r < 4096 THEN m ELSE m + 1
<1> USE DEF NormalPlace
<1>1. PICK i, j \in Nat : /\ m = 1024 * i + j /\ j < 1024
                          /\ i = m \div 1024
  <2>1. /\ m = 1024 * (m \div 1024) + (m % 1024) /\ m % 1024 < 1024
        /\ m % 1024 \in Nat /\ m \div 1024 \in Nat
    BY Z3
  <2> QED
    BY <2>1, Z3
<1>2. i >= 1 /\ i <= 30
  BY <1>1, Z3
<1>3. PICK e, s \in Nat : e = i + 112 /\ s = 8192 * j + r
  BY <1>1, Z3
<1>4. x = e * Bits(23) + s /\ s < Bits(23) /\ 113 <= e /\ e <= 142
  <2>1. Bits(23) = 8388608
    BY Powers, Z3
  <2> QED
    BY <1>1, <1>2, <1>3, <2>1, Z3
<1>5. FloatExp(x) = e /\ FloatSig(x) = s
  BY <1>4, FloatParts
<1>6. Rounded(s) = IF r < 4096 THEN j ELSE j + 1
  <2>1. Rounded(s) = (s + 4096) \div 8192
    BY Powers, Z3 DEF Rounded
  <2> QED
    BY <1>1, <1>3, <2>1, Z3
<1>7. (e - 112) * Bits(10) + Rounded(s) = IF r < 4096 THEN m ELSE m + 1
  <2>1. Bits(10) = 1024
    BY Powers, Z3
  <2> QED
    BY <1>1, <1>3, <1>6, <2>1, Z3
<1> QED
  BY <1>4, <1>5, <1>7

LEMMA NormalNearest ==
    ASSUME NEW m \in Nat, 1024 <= m, m < 31744, NEW f \in Float, NEW x, x = f.mag,
           x \in Exact(m)..(Above(m) - 1)
    PROVE  float2half(f) = [f EXCEPT !.mag = IF x < Middle(m) THEN m ELSE m + 1]
<1>2. /\ Exact(m) = (m + 114688) * 8192 /\ Middle(m) = Exact(m) + 4096
      /\ Above(m) = Exact(m) + 8192
  BY NormalValues
<1>3. PICK r : NormalPlace(m, r, x) /\ (x < Middle(m) <=> r < 4096)
  <2> DEFINE base == (m + 114688) * 8192
  <2>1. base \in Nat
    BY Z3
  <2> HIDE DEF base
  <2>2. Exact(m) = base /\ Middle(m) = base + 4096 /\ Above(m) = base + 8192
    BY <1>2 DEF base
  <2>3. /\ x - base \in Nat /\ x - base < 8192 /\ x = base + (x - base) /\ x \in Nat
        /\ x < Middle(m) <=> x - base < 4096
    BY <2>1, <2>2, Z3
  <2> QED
    BY <2>3 DEF base, NormalPlace
<1>4. PICK e, s \in Nat :
        /\ 113 <= e /\ e <= 142
        /\ FloatExp(x) = e /\ FloatSig(x) = s
        /\ (e - 112) * Bits(10) + Rounded(s) = IF r < 4096 THEN m ELSE m + 1
  BY <1>3, NormalRounded
<1>5. e \in 113..142
  BY <1>4, Z3
<1>6. /\ float2half(f).mag = (e - 112) * Bits(10) + Rounded(s)
      /\ float2half(f) = [f EXCEPT !.mag = float2half(f).mag]
  BY <1>4, <1>5, ConvertSplits
<1>7. float2half(f).mag = IF x < Middle(m) THEN m ELSE m + 1
  BY <1>3, <1>4, <1>6
<1> QED
  BY <1>6, <1>7

\* The same for a subnormal half.
SubnormalPlace(p, m, r, x) ==
    /\ p \in 0..9
    /\ m \in Nat /\ Bits(p) <= m /\ m < 2 * Bits(p)
    /\ r \in Nat /\ r < Bits(23 - p)
    /\ x \in Nat /\ x = (p + 103) * Bits(23) + ((m - Bits(p)) * Bits(23 - p) + r)

LEMMA SubnormalRounded ==
    ASSUME NEW p, NEW m, NEW r, NEW x, SubnormalPlace(p, m, r, x)
    PROVE  \E e, s \in Nat :
             /\ 103 <= e /\ e <= 112
             /\ FloatExp(x) = e /\ FloatSig(x) = s
             /\ Rounded((Bits(23) + s) \div Bits(113 - e))
                  = IF r < Bits(22 - p) THEN m ELSE m + 1
<1> DEFINE a == Bits(p)
           d == Bits(10 - p)
           u == Bits(23 - p)
<1>1. /\ a \in Nat /\ d \in Nat /\ d > 0 /\ u = 8192 * d /\ Bits(22 - p) = 4096 * d
      /\ a * u = 8388608 /\ Bits(23) = 8388608
  BY Powers, Z3 DEF SubnormalPlace
<1>2. /\ m \in Nat /\ a <= m /\ m < 2 * a /\ r \in Nat /\ r < u /\ p \in 0..9
      /\ x \in Nat /\ x = (p + 103) * Bits(23) + ((m - a) * u + r)
  BY DEF SubnormalPlace
<1> HIDE DEF a, d, u
<1>3. PICK s \in Nat : s = (m - a) * u + r /\ s < 8388608 /\ 8388608 + s = m * u + r
  <2>1. u \in Nat
    BY <1>1, Z3
  <2>2. (m - a) * u = m * u - a * u
    BY <1>1, <1>2, <2>1, Z3
  <2>3. PICK i \in Nat : m = a + i /\ i < a
    BY <1>1, <1>2, Z3
  <2>4. i * u + u <= a * u
    <3>1. \A b, c, w \in Nat : b < c => b * w + w <= c * w
      BY Z3
    <3> QED
      BY <1>1, <2>1, <2>3, <3>1
  <2>5. (m - a) * u = i * u /\ i * u \in Nat
    BY <1>1, <2>1, <2>3, Z3
  <2> QED
    BY <1>1, <1>2, <2>1, <2>2, <2>4, <2>5, Z3
<1>4. PICK e \in Nat : e = p + 103 /\ 113 - e = 10 - p /\ 103 <= e /\ e <= 112
  BY <1>2, Z3
<1>5. FloatExp(x) = e /\ FloatSig(x) = s
  BY <1>1, <1>2, <1>3, <1>4, FloatParts
\* Cutting off the low digits before rounding changes nothing.
<1>6. Rounded((m * (8192 * d) + r) \div d) = IF r < 4096 * d THEN m ELSE m + 1
  <2>0. m \in Nat /\ r \in Nat /\ d \in Nat /\ d > 0 /\ r < 8192 * d
    BY <1>1, <1>2
  <2>1. \A i, t, b \in Nat : t < b => (b * i + t) \div b = i
    BY Z3
  <2>2. PICK q, t \in Nat : r = d * q + t /\ t < d
    <3>1. r = d * (r \div d) + (r % d) /\ r % d < d /\ r % d \in Nat /\ r \div d \in Nat
      BY <2>0, Z3
    <3> QED
      BY <3>1
  <2>3. m * (8192 * d) + r = d * (8192 * m + q) + t
    BY <2>0, <2>2, Z3
  <2>4. (m * (8192 * d) + r) \div d = 8192 * m + q
    <3> DEFINE y == 8192 * m + q
    <3>1. y \in Nat /\ m * (8192 * d) + r = d * y + t
      BY <2>0, <2>2, <2>3, Z3
    <3> HIDE DEF y
    <3>2. y \in Nat /\ d \in Nat /\ t < d
      BY <2>0, <2>2, <3>1
    <3>3. (d * y + t) \div d = y
      BY <2>1, <3>2
    <3> QED
      BY <3>1, <3>3, Z3 DEF y
  <2>5. \A i, b \in Nat : i < b => d * i + d <= d * b
    BY <2>0, Z3
  <2>6. q < 8192 /\ (r < 4096 * d <=> q < 4096)
    <3>1. q < 8192
      BY <2>0, <2>2, <2>5, Z3
    <3>2. CASE q < 4096
      BY <2>0, <2>2, <2>5, <3>2, Z3
    <3>3. CASE q >= 4096
      BY <2>0, <2>2, <3>3, Z3
    <3> QED
      BY <2>0, <2>2, <3>1, <3>2, <3>3, Z3
  <2>7. Rounded(8192 * m + q) = (8192 * m + q + 4096) \div 8192
    BY Powers, Z3 DEF Rounded
  <2> QED
    BY <2>0, <2>2, <2>4, <2>6, <2>7, Z3
<1>7. Rounded((Bits(23) + s) \div Bits(113 - e)) = IF r < Bits(22 - p) THEN m ELSE m + 1
  BY <1>1, <1>3, <1>4, <1>6 DEF d
<1> QED
  BY <1>4, <1>5, <1>7

LEMMA SubnormalNearest ==
    ASSUME NEW p \in 0..9, NEW m \in Nat, Bits(p) <= m, m < 2 * Bits(p),
           NEW f \in Float, NEW x, x = f.mag, x \in Exact(m)..(Above(m) - 1)
    PROVE  float2half(f) = [f EXCEPT !.mag = IF x < Middle(m) THEN m ELSE m + 1]
<1>1. PICK r : SubnormalPlace(p, m, r, x) /\ (x < Middle(m) <=> r < Bits(22 - p))
  <2> DEFINE base == (p + 103) * 8388608 + (m - Bits(p)) * Bits(23 - p)
  <2>1. /\ Bits(p) \in Nat /\ Bits(23 - p) \in Nat /\ Bits(22 - p) \in Nat
        /\ Bits(23) = 8388608
    BY Powers, Z3
  <2>2. (m - Bits(p)) * Bits(23 - p) \in Nat
    BY <2>1, Z3
  <2>3. base \in Nat
    BY <2>2, Z3
  <2> HIDE DEF base
  <2>4. /\ Exact(m) = base /\ Middle(m) = base + Bits(22 - p)
        /\ Above(m) = base + Bits(23 - p)
    BY SubnormalValues DEF base
  <2>5. PICK r \in Nat : /\ x = base + r /\ r < Bits(23 - p) /\ x \in Nat
                         /\ x < Middle(m) <=> r < Bits(22 - p)
    <3> DEFINE r == x - base
    <3>1. /\ r \in Nat /\ x = base + r /\ r < Bits(23 - p) /\ x \in Nat
          /\ x < Middle(m) <=> r < Bits(22 - p)
      BY <2>1, <2>3, <2>4, Z3
    <3> HIDE DEF r
    <3> QED
      BY <3>1
  <2>6. x = (p + 103) * Bits(23) + ((m - Bits(p)) * Bits(23 - p) + r)
    BY <2>1, <2>2, <2>5, Z3 DEF base
  <2>7. SubnormalPlace(p, m, r, x)
    BY <2>5, <2>6 DEF SubnormalPlace
  <2> QED
    BY <2>5, <2>7
<1>2. PICK e, s \in Nat :
        /\ 103 <= e /\ e <= 112
        /\ FloatExp(x) = e /\ FloatSig(x) = s
        /\ Rounded((Bits(23) + s) \div Bits(113 - e))
             = IF r < Bits(22 - p) THEN m ELSE m + 1
  BY <1>1, SubnormalRounded
<1>3. e \in 102..112
  BY <1>2, Z3
<1>4. /\ float2half(f).mag = Rounded((Bits(23) + s) \div Bits(113 - e))
      /\ float2half(f) = [f EXCEPT !.mag = float2half(f).mag]
  BY <1>2, <1>3, ConvertSplits
<1>5. float2half(f).mag = IF x < Middle(m) THEN m ELSE m + 1
  BY <1>1, <1>2, <1>4
<1> QED
  BY <1>4, <1>5

\* The smallest halfs: 0 and 2^-24.
LEMMA ZeroValues ==
    /\ Exact(0) = 0 /\ Middle(0) = 102 * 8388608 /\ Above(0) = 103 * 8388608
<1>1. Coefficient(0) = 0 /\ Power(0) = -24
  BY Powers, Z3 DEF Coefficient, Power, HalfExp
<1>2. Exact(0) = 0
  BY <1>1, Z3 DEF Exact, FloatOf
<1>3. 0 \in 0..23 /\ Bits(0) = 1 /\ Bits(23) = 8388608
  BY Powers, Z3
<1>4. ASSUME NEW x \in Int PROVE FloatOf(1, x) = (x + 127) * 8388608
  <2>1. FloatOf(1, x) = (0 + x + 127) * Bits(23) + (1 - Bits(0)) * Bits(23 - 0)
    <3>1. 1 \in Nat /\ Bits(0) <= 1 /\ 1 < 2 * Bits(0)
      BY <1>3, Z3
    <3> QED
      BY <1>3, <3>1, FloatIs, Z3
  <2> QED
    BY <1>3, <2>1, Z3
<1>5. Middle(0) = FloatOf(1, -25) /\ Above(0) = FloatOf(1, -24)
  BY <1>1, Z3 DEF Middle, Above
<1>6. -25 \in Int /\ -24 \in Int
  BY Z3
<1> QED
  BY <1>2, <1>4, <1>5, <1>6, Z3

LEMMA ZeroNearest ==
    ASSUME NEW f \in Float, NEW x, x = f.mag, x \in Exact(0)..(Above(0) - 1)
    PROVE  float2half(f) = [f EXCEPT !.mag = IF x < Middle(0) THEN 0 ELSE 1]
<1>1. Bits(23) = 8388608 /\ Bits(11) = 2048 /\ Bits(12) = 4096 /\ Bits(13) = 8192
  BY Powers, Z3
<1>2. x \in Nat /\ x < 103 * 8388608 /\ (x < Middle(0) <=> x < 102 * 8388608)
  BY ZeroValues, Z3
<1>3. PICK e, s \in Nat : x = e * Bits(23) + s /\ s < Bits(23)
  <2>1. /\ x = (x \div 8388608) * 8388608 + (x % 8388608) /\ x % 8388608 \in Nat
        /\ x % 8388608 < 8388608 /\ x \div 8388608 \in Nat
    BY <1>2, Z3
  <2> QED
    BY <1>1, <2>1, Z3
<1>4. FloatExp(x) = e /\ FloatSig(x) = s
  BY <1>2, <1>3, FloatParts
<1>5. e <= 102 /\ (x < Middle(0) <=> e < 102)
  BY <1>1, <1>2, <1>3, Z3
<1>6. float2half(f) = [f EXCEPT !.mag = float2half(f).mag]
  BY <1>4, ConvertSplits
<1>7. CASE e < 102
  <2>1. float2half(f).mag = 0
    BY <1>4, <1>7, ConvertSplits
  <2> QED
    BY <1>5, <1>6, <1>7, <2>1
<1>8. CASE e = 102
  <2>1. e \in 102..112 /\ 113 - e = 11
    BY <1>8, Z3
  <2>2. float2half(f).mag = Rounded((Bits(23) + s) \div Bits(113 - e))
    BY <1>4, <2>1, ConvertSplits
  <2>3. Rounded((8388608 + s) \div 2048) = 1
    BY <1>1, <1>3, Z3 DEF Rounded
  <2>4. float2half(f).mag = 1
    BY <1>1, <2>1, <2>2, <2>3, Z3
  <2>5. ~(x < Middle(0))
    BY <1>5, <1>8, Z3
  <2> QED
    BY <1>6, <2>4, <2>5
<1> QED
  BY <1>5, <1>7, <1>8, Z3

\* A half below the normal ones has a highest bit.
LEMMA HighestBit ==
    ASSUME NEW m \in Nat, m # 0, m < 1024
    PROVE  \E p \in 0..9 : Bits(p) <= m /\ m < 2 * Bits(p)
<1>1. \A p \in 0..8 : Bits(p + 1) = 2 * Bits(p) /\ Bits(p) \in Nat
  BY Powers, Z3
<1>2. CASE m >= 512
  BY <1>2, Powers, Z3
<1>3. CASE m < 512 /\ m >= 32
  BY <1>3, Powers, Z3
<1>4. CASE m < 32
  BY <1>4, Powers, Z3
<1> QED
  BY <1>2, <1>3, <1>4, Z3

\* Every half that is a number.
LEMMA HalfExpIs ==
    ASSUME NEW m \in 0..(Bits(15) - 1)
    PROVE  m \in Nat /\ m < 32768 /\ (HalfExp(m) # 31 <=> m < 31744)
<1>1. m \in Nat /\ m < 32768 /\ Bits(10) = 1024
  BY Powers, Z3
<1> QED
  BY <1>1, Z3 DEF HalfExp

LEMMA NumberNearest ==
    ASSUME NEW m \in Nat, m < 31744, NEW f \in Float, f.mag \in Exact(m)..(Above(m) - 1)
    PROVE  float2half(f) = [f EXCEPT !.mag = IF f.mag < Middle(m) THEN m ELSE m + 1]
<1>1. CASE m = 0
  <2>1. 0 + 1 = 1
    BY Z3
  <2> QED
    BY <1>1, <2>1, ZeroNearest
<1>2. CASE m # 0 /\ m < 1024
  BY <1>2, HighestBit, SubnormalNearest
<1>3. CASE 1024 <= m
  BY <1>3, NormalNearest
<1> QED
  BY <1>1, <1>2, <1>3, Z3

LEMMA ValuesGrow ==
    ASSUME NEW m \in Nat, m < 31744
    PROVE  /\ Exact(m) \in Nat /\ Middle(m) \in Nat /\ Above(m) \in Nat
           /\ Exact(m) < Middle(m) /\ Middle(m) < Above(m) /\ Above(m) <= 143 * 8388608
<1>1. CASE m = 0
  BY <1>1, ZeroValues, Z3
<1>2. CASE m # 0 /\ m < 1024
  <2>1. PICK p \in 0..9 : Bits(p) <= m /\ m < 2 * Bits(p)
    BY <1>2, HighestBit
  <2>2. /\ Exact(m) = (p + 103) * 8388608 + (m - Bits(p)) * Bits(23 - p)
        /\ Middle(m) = Exact(m) + Bits(22 - p) /\ Above(m) = Exact(m) + Bits(23 - p)
    BY <2>1, SubnormalValues
  <2>3. PICK i, u, v \in Nat : /\ i = m - Bits(p) /\ u = Bits(23 - p) /\ v = Bits(22 - p)
                              /\ u = 2 * v /\ v > 0 /\ i < Bits(p) /\ Bits(p) * u = 8388608
    <3>1. /\ Bits(p) \in Nat /\ Bits(23 - p) \in Nat /\ Bits(22 - p) \in Nat
          /\ Bits(23 - p) = 2 * Bits(22 - p) /\ Bits(22 - p) > 0
          /\ Bits(p) * Bits(23 - p) = 8388608
      BY Powers, Z3
    <3>2. m - Bits(p) \in Nat /\ m - Bits(p) < Bits(p)
      BY <2>1, <3>1, Z3
    <3> QED
      BY <3>1, <3>2
  <2>4. i * u \in Nat /\ i * u + u <= 8388608
    <3>1. \A a, b, c \in Nat : a < b => a * c \in Nat /\ a * c + c <= b * c
      BY Z3
    <3>2. Bits(p) \in Nat
      BY Powers, Z3
    <3> QED
      BY <2>3, <3>1, <3>2, Z3
  <2> QED
    BY <2>2, <2>3, <2>4, Z3
<1>3. CASE 1024 <= m
  <2>1. /\ Exact(m) = (m + 114688) * 8192 /\ Middle(m) = Exact(m) + 4096
        /\ Above(m) = Exact(m) + 8192
    BY <1>3, NormalValues
  <2> QED
    BY <2>1, Z3
<1> QED
  BY <1>1, <1>2, <1>3, Z3

\* floattofp16 rounds every float to the nearest half, ties away from zero: m up
\* to the middle between m and the next half, and the next one from there on.
THEOREM FloatsAreRounded ==
    ASSUME NEW m \in 0..(Bits(15) - 1), NEW f \in Float
    PROVE  Nearest(m, f)
<1> SUFFICES ASSUME HalfExp(m) # 31 PROVE Nearest(m, f)
  BY DEF Nearest
<1>1. m \in Nat /\ m < 31744
  BY HalfExpIs
<1>2. /\ Exact(m) \in Nat /\ Middle(m) \in Nat /\ Above(m) \in Nat
      /\ Exact(m) < Middle(m) /\ Middle(m) < Above(m)
  BY <1>1, ValuesGrow
<1>3. ASSUME f.mag \in Exact(m)..(Middle(m) - 1)
      PROVE  float2half(f) = [f EXCEPT !.mag = m]
  <2>1. f.mag \in Exact(m)..(Above(m) - 1) /\ f.mag < Middle(m)
    BY <1>2, <1>3, SMT
  <2> QED
    BY <1>1, <2>1, NumberNearest
<1>4. ASSUME f.mag \in Middle(m)..(Above(m) - 1)
      PROVE  float2half(f) = [f EXCEPT !.mag = m + 1]
  <2>1. f.mag \in Exact(m)..(Above(m) - 1) /\ ~(f.mag < Middle(m))
    BY <1>2, <1>4, SMT
  <2> QED
    BY <1>1, <2>1, NumberNearest
<1> QED
  BY <1>3, <1>4 DEF Nearest
\* Nearest says something of every float below 2^16: it lies between two halves,
\* the largest of which is the infinity.
THEOREM FloatsLieBetween ==
    ASSUME NEW f \in Float, f.mag < 143 * Bits(23)
    PROVE  \E m \in 0..(Bits(15) - 1) :
             HalfExp(m) # 31 /\ f.mag \in Exact(m)..(Above(m) - 1)
<1> DEFINE x == f.mag
<1>1. x \in Nat /\ Bits(23) = 8388608 /\ x < 143 * 8388608
  <2>1. x \in 0..(Bits(31) - 1)
    BY DEF Float, Number
  <2> QED
    BY <2>1, Powers, Z3
<1> SUFFICES \E m \in Nat : m < 31744 /\ x \in Exact(m)..(Above(m) - 1)
  <2>1. ASSUME NEW m \in Nat, m < 31744
        PROVE  m \in 0..(Bits(15) - 1) /\ HalfExp(m) # 31
    <3>1. m \in 0..(Bits(15) - 1)
      BY <2>1, Powers, Z3
    <3> QED
      BY <2>1, <3>1, HalfExpIs
  <2> QED
    BY <2>1
<1> HIDE DEF x
<1>2. CASE x < 103 * 8388608
  <2>1. 0 \in Nat /\ 0 < 31744 /\ x \in Exact(0)..(Above(0) - 1)
    BY <1>1, <1>2, ZeroValues, Z3
  <2> QED
    BY <2>1
<1>3. CASE x >= 113 * 8388608
  <2>1. PICK m \in Nat : /\ 1024 <= m /\ m < 31744
                         /\ (m + 114688) * 8192 <= x /\ x < (m + 114688) * 8192 + 8192
    <3> DEFINE m == (x \div 8192) - 114688
    <3>1. m \in Nat /\ 1024 <= m /\ m < 31744
      BY <1>1, <1>3, Z3
    <3>2. (m + 114688) * 8192 <= x /\ x < (m + 114688) * 8192 + 8192
      BY <1>1, <1>3, Z3
    <3> HIDE DEF m
    <3> QED
      BY <3>1, <3>2
  <2>2. Exact(m) = (m + 114688) * 8192 /\ Above(m) = Exact(m) + 8192
    BY <2>1, NormalValues
  <2>3. x \in Exact(m)..(Above(m) - 1)
    BY <1>1, <2>1, <2>2, Z3
  <2> QED
    BY <2>1, <2>3
<1>4. CASE 103 * 8388608 <= x /\ x < 113 * 8388608
  <2>1. PICK p \in 0..9, s \in Nat : x = (p + 103) * 8388608 + s /\ s < 8388608
    <3> DEFINE p == (x \div 8388608) - 103
               s == x % 8388608
    <3>1. p \in 0..9 /\ s \in Nat /\ x = (p + 103) * 8388608 + s /\ s < 8388608
      BY <1>1, <1>4, Z3
    <3> HIDE DEF p, s
    <3> QED
      BY <3>1
  <2>2. PICK a, d \in Nat : /\ a = Bits(p) /\ d = Bits(23 - p) /\ d > 0
                            /\ a * d = 8388608 /\ a <= 512
    BY Powers, Z3
  <2>3. PICK i \in Nat : i < a /\ i * d <= s /\ s < i * d + d
    <3>1. ASSUME NEW t \in Nat
          PROVE  t \div d \in Nat /\ (t \div d) * d <= t /\ t < (t \div d) * d + d
      <4>1. d \in {8388608, 4194304, 2097152, 1048576, 524288, 262144, 131072, 65536,
                   32768, 16384}
        BY <2>2, Powers, Z3
      <4> QED
        BY <4>1, Z3
    <3>2. \A j \in Nat : a <= j => a * d <= j * d
      BY <2>2, Z3
    <3> DEFINE i == s \div d
    <3>3. i \in Nat /\ i * d <= s /\ s < i * d + d
      BY <2>1, <3>1
    <3> HIDE DEF i
    <3>4. i < a
      BY <2>1, <2>2, <3>2, <3>3, Z3
    <3> QED
      BY <3>3, <3>4
  <2> DEFINE m == a + i
  <2>4. m \in Nat /\ Bits(p) <= m /\ m < 2 * Bits(p) /\ m - Bits(p) = i /\ m < 31744
    BY <2>2, <2>3, Z3
  <2> HIDE DEF m
  <2>5. /\ Exact(m) = (p + 103) * 8388608 + (m - Bits(p)) * Bits(23 - p)
        /\ Above(m) = Exact(m) + Bits(23 - p)
    BY <2>4, SubnormalValues
  <2>6. Exact(m) = (p + 103) * 8388608 + i * d /\ Above(m) = Exact(m) + d
    BY <2>2, <2>4, <2>5
  <2>7. i * d \in Nat
    BY <2>2, <2>3, Z3
  <2>8. x \in Exact(m)..(Above(m) - 1)
    <3> DEFINE b == i * d
    <3>1. b \in Nat /\ b <= s /\ s < b + d /\ Exact(m) = (p + 103) * 8388608 + b
      BY <2>3, <2>6, <2>7
    <3> HIDE DEF b
    <3> QED
      BY <2>1, <2>2, <2>6, <3>1, Z3
  <2> QED
    BY <2>4, <2>8
<1> QED
  BY <1>1, <1>2, <1>3, <1>4, Z3
-----------------------------------------------------------------------------
\* What half2float makes of each kind of half.
LEMMA NumberToFloat ==
    ASSUME NEW h \in Half, HalfExp(h.mag) # 31
    PROVE  half2float(h) = [neg |-> h.neg, mag |-> Exact(h.mag)]
<1> DEFINE m == h.mag
<1>1. m \in Nat /\ m < 31744
  <2>1. m \in 0..(Bits(15) - 1)
    BY DEF Half, Number
  <2> QED
    BY <2>1, HalfExpIs
<1>2. HalfExp(m) = m \div 1024 /\ Bits(10) = 1024 /\ Bits(13) = 8192 /\ Bits(23) = 8388608
  BY Powers, Z3 DEF HalfExp
<1> HIDE DEF m
<1>3. CASE m = 0
  <2>1. half2float(h) = [neg |-> h.neg, mag |-> 0]
    BY <1>3 DEF half2float, m
  <2> QED
    BY <1>3, <2>1, ZeroValues DEF m
<1>4. CASE m # 0 /\ m < 1024
  <2>1. PICK p \in 0..9 : Bits(p) <= m /\ m < 2 * Bits(p)
    BY <1>1, <1>4, HighestBit
  <2>2. HalfExp(m) = 0
    BY <1>1, <1>2, <1>4, Z3
  <2>3. Shift(m) = 10 - p
    BY <1>1, <2>1, ShiftIs
  <2>4. half2float(h) = [neg |-> h.neg,
                         mag |-> (127 - 15 - ((10 - p) - 1)) * Bits(23)
                                   + ((m * Bits(10 - p)) % Bits(10)) * Bits(13)]
    BY <1>4, <2>2, <2>3 DEF half2float, m
  <2>5. Exact(m) = (p + 103) * 8388608 + (m - Bits(p)) * Bits(23 - p)
    BY <1>1, <2>1, SubnormalValues
  <2>6. PICK a, d, i \in Nat : /\ a = Bits(p) /\ d = Bits(10 - p) /\ a * d = 1024
                              /\ Bits(23 - p) = 8192 * d /\ m = a + i /\ i < a /\ d > 0
    BY <1>1, <2>1, Powers, Z3
  <2>7. i * d \in Nat /\ i * d < 1024
    <3>1. \A x, y, z \in Nat : x < y => x * z \in Nat /\ x * z + z <= y * z
      BY Z3
    <3> QED
      BY <2>6, <3>1, Z3
  <2>8. (m * d) % 1024 = i * d
    <3>1. m * d = 1024 + i * d
      BY <2>6, Z3
    <3> QED
      BY <2>7, <3>1, Z3
  <2>9. (127 - 15 - ((10 - p) - 1)) * 8388608 + (i * d) * 8192
          = (p + 103) * 8388608 + i * (8192 * d)
    BY <2>6, Z3
  <2>10. (127 - 15 - ((10 - p) - 1)) * Bits(23) + ((m * Bits(10 - p)) % Bits(10)) * Bits(13)
           = Exact(m)
    BY <1>2, <2>5, <2>6, <2>8, <2>9, Z3
  <2> QED
    BY <2>4, <2>10, SMT DEF m
<1>5. CASE 1024 <= m
  <2>1. HalfExp(m) # 0 /\ HalfExp(m) # 31
    BY <1>1, <1>2, <1>5, Z3
  <2>2. half2float(h) = [neg |-> h.neg, mag |-> (m + 112 * Bits(10)) * Bits(13)]
    BY <1>5, <2>1 DEF half2float, m
  <2>3. Exact(m) = (m + 114688) * 8192
    BY <1>1, <1>5, NormalValues
  <2>4. (m + 112 * Bits(10)) * Bits(13) = Exact(m)
    BY <1>1, <1>2, <2>3, Z3
  <2> QED
    BY <2>2, <2>4, SMT DEF m
<1> QED
  BY <1>1, <1>3, <1>4, <1>5, Z3

\* The two formats the halfs that are no numbers have.
LEMMA SpecialToFloat ==
    ASSUME NEW h \in Half, HalfExp(h.mag) = 31
    PROVE  \E s \in Nat :
             /\ s < 1024 /\ h.mag = 31744 + s
             /\ half2float(h) = [neg |-> h.neg, mag |-> 255 * 8388608 + s * 8192]
<1> DEFINE m == h.mag
           s == m % 1024
<1>1. m \in Nat /\ m < 32768 /\ HalfExp(m) = m \div 1024 /\ HalfSig(m) = s
  <2>1. m \in 0..(Bits(15) - 1)
    BY DEF Half, Number
  <2> QED
    BY <2>1, HalfExpIs, Powers, Z3 DEF HalfExp, HalfSig
<1> HIDE DEF m
<1>2. s \in Nat /\ s < 1024 /\ m = 31744 + s
  <2>1. m \div 1024 = 31
    BY <1>1 DEF m
  <2> QED
    BY <1>1, <2>1, Z3
<1> HIDE DEF s
<1>3. half2float(h) = [neg |-> h.neg, mag |-> 255 * Bits(23) + HalfSig(m) * Bits(13)]
  <2>1. m # 0 /\ HalfExp(m) = 31 /\ HalfExp(m) # 0
    BY <1>2, Z3 DEF m
  <2> QED
    BY <2>1 DEF half2float, m
<1>4. 255 * Bits(23) + HalfSig(m) * Bits(13) = 255 * 8388608 + s * 8192
  BY <1>1, <1>2, Powers, Z3
<1> QED
  BY <1>2, <1>3, <1>4, SMT DEF m

\* Each of the 65536 halfs, subnormals, infinities and NaNs with every payload
\* included, is exact as a float and comes back from it unchanged.
THEOREM HalfsAreKept ==
    ASSUME NEW h \in Half
    PROVE  RoundTrip(h)
<1>1. h.neg \in BOOLEAN /\ h.mag \in 0..(Bits(15) - 1) /\ h = [neg |-> h.neg, mag |-> h.mag]
  BY DEF Half, Number
<1>2. CASE HalfExp(h.mag) # 31
  <2>1. half2float(h) = [neg |-> h.neg, mag |-> Exact(h.mag)]
    BY <1>2, NumberToFloat
  <2>2. h.mag \in Nat /\ h.mag < 31744
    BY <1>1, <1>2, HalfExpIs
  <2>3. /\ Exact(h.mag) \in Exact(h.mag)..(Above(h.mag) - 1)
        /\ Exact(h.mag) < Middle(h.mag) /\ Exact(h.mag) \in 0..(Bits(31) - 1)
    <3>1. /\ Exact(h.mag) \in Nat /\ Middle(h.mag) \in Nat /\ Above(h.mag) \in Nat
          /\ Exact(h.mag) < Middle(h.mag) /\ Middle(h.mag) < Above(h.mag)
          /\ Above(h.mag) <= 143 * 8388608
      BY <2>2, ValuesGrow
    <3> QED
      BY <3>1, Powers, Z3
  <2> DEFINE f == half2float(h)
  <2>4. f \in Float /\ f.mag = Exact(h.mag) /\ f.neg = h.neg
    BY <1>1, <2>1, <2>3 DEF Float, Number
  <2> HIDE DEF f
  <2>5. float2half(f) = [f EXCEPT !.mag = h.mag]
    BY <2>2, <2>3, <2>4, NumberNearest
  <2>6. float2half(f) = h
    BY <1>1, <2>1, <2>5 DEF f
  <2> QED
    BY <2>4, <2>6 DEF RoundTrip, f
<1>3. CASE HalfExp(h.mag) = 31
  <2>1. PICK s \in Nat :
          /\ s < 1024 /\ h.mag = 31744 + s
          /\ half2float(h) = [neg |-> h.neg, mag |-> 255 * 8388608 + s * 8192]
    BY <1>3, SpecialToFloat
  <2> DEFINE f == half2float(h)
             x == 255 * 8388608 + s * 8192
             e == 255
             t == s * 8192
  <2>2. /\ x \in Nat /\ x \in 0..(Bits(31) - 1) /\ e \in Nat /\ t \in Nat
        /\ x = e * Bits(23) + t /\ t < Bits(23)
    BY <2>1, Powers, Z3
  <2>3. f \in Float /\ f.mag = x /\ f.neg = h.neg
    <3> HIDE DEF x
    <3> QED
      BY <1>1, <2>1, <2>2 DEF x, Float, Number
  <2> HIDE DEF x, t
  <2>4. FloatExp(x) = e /\ FloatSig(x) = t
    BY <2>2, FloatParts
  <2> HIDE DEF f
  <2>5. /\ float2half(f) = [f EXCEPT !.mag = float2half(f).mag]
        /\ t # 0 => float2half(f).mag = NaN(t)
        /\ t = 0 => float2half(f).mag = Infinity
    <3>1. FloatExp(f.mag) = e /\ FloatSig(f.mag) = t
      BY <2>3, <2>4
    <3>2. e = 255 /\ e >= 143
      BY Z3
    <3> HIDE DEF e
    <3> QED
      BY <2>2, <2>3, <3>1, <3>2, ConvertSplits
  <2>6. (t # 0 => NaN(t) = 31744 + s) /\ (t = 0 => Infinity = 31744 + s)
    <3>1. t \div 8192 = s
      BY <2>1, Z3 DEF t
    <3> QED
      BY <2>1, <3>1, Powers, Z3 DEF NaN, Infinity, t
  <2>7. float2half(f).mag = h.mag
    BY <2>1, <2>5, <2>6
  <2>8. float2half(f) = h
    BY <1>1, <2>1, <2>3, <2>5, <2>7 DEF f
  <2> QED
    BY <1>3, <2>3, <2>8 DEF RoundTrip, f
<1> QED
  BY <1>2, <1>3

\* A NaN whose payload has only low bits, which are cut off, stays a NaN, and
\* no rounding of a number carries beyond infinity.
THEOREM NaNsAlwaysStay ==
    ASSUME NEW f \in Float
    PROVE  NaNsStayNaNs(f)
<1> DEFINE x == f.mag
           e == FloatExp(x)
           s == FloatSig(x)
           v == float2half(f).mag
<1>1. x \in Nat /\ x < Bits(31)
  <2>1. x \in 0..(Bits(31) - 1)
    BY DEF Float, Number
  <2> QED
    BY <2>1, Powers, Z3
<1> HIDE DEF x
<1>2. /\ e \in Nat /\ s \in Nat /\ s < 8388608 /\ e <= 255 /\ x = e * 8388608 + s
      /\ Bits(23) = 8388608
  <2>1. FloatExp(x) = x \div 8388608 /\ FloatSig(x) = x % 8388608 /\ x < 2147483648
        /\ Bits(23) = 8388608
    BY <1>1, Powers, Z3 DEF FloatExp, FloatSig
  <2> QED
    BY <1>1, <2>1, Z3
<1> HIDE DEF e, s
<1>3. x > 255 * Bits(23) <=> e = 255 /\ s # 0
  BY <1>2, Z3
<1>4. /\ e = 255 /\ s # 0 => v = NaN(s)
      /\ e >= 143 /\ ~(e = 255 /\ s # 0) => v = Infinity
      /\ e < 102 => v = 0
      /\ e \in 102..112 => v = Rounded((Bits(23) + s) \div Bits(113 - e))
      /\ e \in 113..142 => v = (e - 112) * Bits(10) + Rounded(s)
  BY <1>2, ConvertSplits DEF x, e, s
<1> HIDE DEF v
<1>5. Infinity = 31744
  BY Powers, Z3 DEF Infinity
<1>6. CASE e = 255 /\ s # 0
  <2>1. s \div 8192 \in Nat
    BY <1>2, Z3
  <2>2. NaN(s) > 31744
    BY <2>1, Powers, Z3 DEF NaN
  <2> QED
    BY <1>3, <1>4, <1>5, <1>6, <2>2 DEF NaNsStayNaNs, x, v
<1>7. CASE ~(e = 255 /\ s # 0)
  <2>1. ASSUME e >= 143 PROVE ~(v > Infinity)
    BY <1>4, <1>5, <1>7, <2>1, Z3
  <2>2. ASSUME e < 102 PROVE ~(v > Infinity)
    BY <1>4, <1>5, <2>2, Z3
  <2>3. ASSUME 102 <= e, e <= 112 PROVE ~(v > Infinity)
    <3>1. e \in 102..112
      BY <1>2, <2>3, Z3
    <3>2. Bits(113 - e) \in Nat /\ Bits(113 - e) >= 2
      BY <3>1, Powers, Z3
    <3>3. \A i, d \in Nat : d >= 2 => i \div d \in Nat /\ 2 * (i \div d) <= i
      BY Z3
    <3> DEFINE q == (Bits(23) + s) \div Bits(113 - e)
    <3>4. Bits(23) + s \in Nat
      BY <1>2, Z3
    <3>5. q \in Nat /\ 2 * q <= Bits(23) + s
      BY <3>2, <3>3, <3>4
    <3> HIDE DEF q
    <3>6. Rounded(q) = (q + 4096) \div 8192
      BY Powers, Z3 DEF Rounded
    <3>7. Rounded(q) <= 31744
      BY <1>2, <3>5, <3>6, Z3
    <3>8. v = Rounded(q)
      BY <1>4, <3>1 DEF q
    <3> QED
      BY <1>5, <3>5, <3>6, <3>7, <3>8, Z3
  <2>4. ASSUME 113 <= e, e <= 142 PROVE ~(v > Infinity)
    <3>1. e \in 113..142
      BY <1>2, <2>4, Z3
    <3>2. Rounded(s) = (s + 4096) \div 8192 /\ Bits(10) = 1024
      BY Powers, Z3 DEF Rounded
    <3>3. v = (e - 112) * Bits(10) + Rounded(s)
      BY <1>4, <3>1
    <3> QED
      BY <1>2, <1>5, <2>4, <3>2, <3>3, Z3
  <2>5. ~(v > Infinity)
    BY <1>2, <2>1, <2>2, <2>3, <2>4, Z3
  <2> QED
    BY <1>3, <1>7, <2>5 DEF NaNsStayNaNs, x, v
<1> QED
  BY <1>6, <1>7
-----------------------------------------------------------------------------
(***************************************************************************)
(* The graph file and the buffers.                                         *)
(***************************************************************************)
LEMMA WordPositive == Word \in Nat /\ Word > 0
<1>1. Base \in Nat /\ Base > 0
  BY WidthAssumption
<1>2. \A a, b \in Nat : a > 0 /\ b > 0 => a * b \in Nat /\ a * b > 0
  OBVIOUS
<1>3. Base * Base \in Nat /\ Base * Base > 0
  BY <1>1, <1>2
<1>4. Base * Base * Base \in Nat /\ Base * Base * Base > 0
  BY <1>1, <1>2, <1>3
<1> QED
  BY <1>1, <1>2, <1>4 DEF Word

LEMMA TimesType == ASSUME NEW a \in Int, NEW b \in Int PROVE Times(a, b) \in 0..(Word - 1)
<1>1. a * b \in Int
  OBVIOUS
<1>2. \A c \in Int, w \in Nat : w > 0 => c % w \in 0..(w - 1)
  OBVIOUS
<1> QED
  BY <1>1, <1>2, WordPositive DEF Times

\* A file in memory: what is read behind its end is some byte.
Memory == [Int -> Byte]

LEMMA ReadType ==
    ASSUME NEW f \in Memory, NEW o \in Int
    PROVE  read_32bits(f, o) \in Int
<1>1. \A i \in Int : f[i] \in Int
  BY WidthAssumption DEF Memory, Byte
<1>2. Base \in Int /\ Base * Base \in Int /\ Base * Base * Base \in Int
  BY WidthAssumption
<1>3. f[o] \in Int /\ f[o + 1] \in Int /\ f[o + 2] \in Int /\ f[o + 3] \in Int
  BY <1>1
<1>4. \A a, b \in Int : a * b \in Int
  OBVIOUS
<1>5. /\ Base * f[o + 1] \in Int /\ Base * Base * f[o + 2] \in Int
      /\ Base * Base * Base * f[o + 3] \in Int
  BY <1>2, <1>3, <1>4
<1> QED
  BY <1>3, <1>5 DEF read_32bits

LEMMA StagesType ==
    ASSUME NEW f \in Memory
    PROVE  NStages(f) \in Nat /\ LastStage(f) \in Int
<1>1. f[N_STAGES_OFFSET] \in Nat /\ f[N_STAGES_OFFSET + 1] \in Nat
  BY WidthAssumption DEF Memory, Byte, N_STAGES_OFFSET
<1>2. \A a, b \in Nat : a * b \in Nat
  OBVIOUS
<1>3. Base * f[N_STAGES_OFFSET + 1] \in Nat
  BY <1>1, <1>2, WidthAssumption
<1>4. NStages(f) \in Nat
  BY <1>1, <1>3 DEF NStages
<1> QED
  BY <1>4 DEF LastStage, STAGE_LENGTH

LEMMA OutputsFollow ==
    ASSUME NEW f, \A i \in 1..3 : read_32bits(f, Factors(f)[i]) \in Int
    PROVE  NOutputs(f) \in Nat
<1> DEFINE w == Factors(f)
<1>1. /\ read_32bits(f, w[1]) \in Int /\ read_32bits(f, w[2]) \in Int
      /\ read_32bits(f, w[3]) \in Int
  OBVIOUS
<1> HIDE DEF w
<1>2. Times(read_32bits(f, w[1]), read_32bits(f, w[2])) \in Int
  BY <1>1, TimesType, WordPositive
<1>3. Times(Times(read_32bits(f, w[1]), read_32bits(f, w[2])), read_32bits(f, w[3])) \in Nat
  BY <1>1, <1>2, TimesType, WordPositive
<1>4. \A v \in Nat : v \div 2 \in Nat
  OBVIOUS
<1> QED
  BY <1>3, <1>4 DEF NOutputs, w

LEMMA OutputsType ==
    ASSUME NEW f \in Memory
    PROVE  NOutputs(f) \in Nat
<1>1. \A i \in 1..3 : Factors(f)[i] \in Int
  BY StagesType DEF Factors, N_OUTPUTS_OFFSET, X_OUT_STRIDE_OFFSET, HEADER_LENGTH
<1> QED
  BY <1>1, ReadType, OutputsFollow

LEMMA BuffersFollow ==
    ASSUME NEW f, NEW length, NStages(f) \in Nat, NOutputs(f) \in Nat
    PROVE  BuffersHold(f, length)
<1> SUFFICES ASSUME Accepted(f, length)
             PROVE  BuffersHold(f, length)
  BY DEF BuffersHold
<1> DEFINE m == NStages(f)
           k == NOutputs(f)
<1>1. m \in Nat /\ k \in Nat /\ k <= MaxOutputs
  BY DEF Accepted
<1> HIDE DEF m, k
<1>2. OutputLength(k) = OutputSize(k)
  <2>1. 2 * k \in 0..(Word - 1)
    BY <1>1, WordPositive, WidthAssumption
  <2>2. \A w \in Nat, v \in Int : v \in 0..(w - 1) => v % w = v
    OBVIOUS
  <2>3. (2 * k) % Word = 2 * k
    BY <2>1, <2>2, WordPositive
  <2> QED
    BY <1>1, <2>3 DEF OutputLength, OutputSize
<1>3. AuxLength(m) = AuxSize(m)
  BY <1>1 DEF AuxLength, AuxSize, DEBUG_BUFFER_SIZE, THERMAL_BUFFER_SIZE
<1>4. \A p \in {DebugInfo, ThermalStats, ThrottleHappened, TimeTaken(m)} :
        Inside(p, AuxSize(m)) /\ p[1] % 4 = 0
  BY <1>1 DEF Inside, AuxSize, DebugInfo, ThermalStats, ThrottleHappened, TimeTaken,
     DEBUG_BUFFER_SIZE, THERMAL_BUFFER_SIZE
<1>5. /\ Apart(DebugInfo, ThermalStats) /\ Apart(ThermalStats, ThrottleHappened)
      /\ Apart(ThrottleHappened, TimeTaken(m))
  BY DEF Apart, DebugInfo, ThermalStats, ThrottleHappened, TimeTaken,
     DEBUG_BUFFER_SIZE, THERMAL_BUFFER_SIZE
<1> QED
  BY <1>2, <1>3, <1>4, <1>5 DEF BuffersHold, m, k

\* Whatever is in memory where mvncAllocateGraph takes a graph file to be,
\* products that wrap and stages behind the end of the file included: if it
\* accepts the file, what mvncGetResult writes fits the buffers it allocated.
THEOREM BuffersAlwaysHold ==
    ASSUME NEW f \in Memory, NEW length \in Nat
    PROVE  BuffersHold(f, length)
BY StagesType, OutputsType, BuffersFollow
-----------------------------------------------------------------------------
(***************************************************************************)
(* The width of the code.                                                  *)
(***************************************************************************)
RealBase == 256

\* The word v begins at offset o.
Holds(f, o, v) == \A i \in 0..3 : f[o + i] = Digit(v, i)

LEMMA WordIsRead ==
    ASSUME Base = RealBase, NEW v \in Nat, v < Word, NEW f, NEW o \in Int,
           Holds(f, o, v)
    PROVE  read_32bits(f, o) = v
<1> DEFINE a == v \div 256
           b == a \div 256
           c == b \div 256
           number(i, j, k, l) == i + 256 * j + 256 * 256 * k + 256 * 256 * 256 * l
<1>1. v \in Nat /\ v < 256 * 256 * 256 * 256
  BY SMT DEF Word, RealBase
<1>2. /\ a \in Nat /\ v = 256 * a + (v % 256) /\ v % 256 \in 0..255
      /\ a < 256 * 256 * 256
  BY <1>1, SMT
<1>3. /\ b \in Nat /\ a = 256 * b + (a % 256) /\ a % 256 \in 0..255
      /\ b < 256 * 256
  <2> HIDE DEF a
  <2> QED
    BY <1>2, SMT
<1>4. /\ c \in Nat /\ b = 256 * c + (b % 256) /\ b % 256 \in 0..255
      /\ c < 256
  <2> HIDE DEF b
  <2> QED
    BY <1>3, SMT
<1>5. v \div (256 * 256) = b /\ v \div (256 * 256 * 256) = c /\ c % 256 = c
  <2>1. \A x, r, d \in Nat : r < d => (d * x + r) \div d = x
    BY SMT
  <2>2. v = 256 * 256 * b + (256 * (a % 256) + (v % 256))
    <3> HIDE DEF a, b
    <3> QED
      BY <1>2, <1>3, SMT
  <2> HIDE DEF a, b, c
  <2> QED
    BY <1>2, <1>3, <1>4, <2>2, SMT
<1>6. /\ Digit(v, 0) = v % 256 /\ Digit(v, 1) = a % 256
      /\ Digit(v, 2) = b % 256 /\ Digit(v, 3) = c
  <2>1. <<1, Base, Base * Base, Base * Base * Base>> = <<1, 256, 256 * 256, 256 * 256 * 256>>
    BY DEF RealBase
  <2>2. /\ Digit(v, 0) = (v \div 1) % 256 /\ Digit(v, 1) = (v \div 256) % 256
        /\ Digit(v, 2) = (v \div (256 * 256)) % 256
        /\ Digit(v, 3) = (v \div (256 * 256 * 256)) % 256
    BY <2>1, SMT DEF Digit
  <2>3. v \div 1 = v
    BY <1>1, SMT
  <2> QED
    BY <1>5, <2>2, <2>3
<1>7. read_32bits(f, o) = number(f[o], f[o + 1], f[o + 2], f[o + 3])
  BY SMT DEF read_32bits, RealBase
<1>8. /\ f[o] = v % 256 /\ f[o + 1] = a % 256 /\ f[o + 2] = b % 256 /\ f[o + 3] = c
  <2>1. 0 \in 0..3 /\ 1 \in 0..3 /\ 2 \in 0..3 /\ 3 \in 0..3 /\ o + 0 = o
    BY SMT
  <2>2. /\ f[o] = Digit(v, 0) /\ f[o + 1] = Digit(v, 1)
        /\ f[o + 2] = Digit(v, 2) /\ f[o + 3] = Digit(v, 3)
    BY <2>1 DEF Holds
  <2> QED
    BY <1>6, <2>2
<1>9. v = number(v % 256, a % 256, b % 256, c)
  <2> HIDE DEF a, b, c
  <2> QED
    BY <1>2, <1>3, <1>4, SMT
<1> HIDE DEF a, b, c, number
<1> QED
  BY <1>7, <1>8, <1>9

LEMMA StagesAreRead ==
    ASSUME Base = RealBase, NEW m \in Nat, m < Base * Base, NEW f,
           f[N_STAGES_OFFSET] = Digit(m, 0), f[N_STAGES_OFFSET + 1] = Digit(m, 1)
    PROVE  NStages(f) = m
<1>1. <<1, Base, Base * Base, Base * Base * Base>> = <<1, 256, 256 * 256, 256 * 256 * 256>>
  BY DEF RealBase
<1>2. Digit(m, 0) = (m \div 1) % 256 /\ Digit(m, 1) = (m \div 256) % 256
  BY <1>1, SMT DEF Digit
<1>3. m \div 1 = m /\ (m \div 256) % 256 = m \div 256 /\ (m % 256) + 256 * (m \div 256) = m
  BY SMT DEF RealBase
<1>4. Digit(m, 0) = m % 256 /\ Digit(m, 1) = m \div 256
  BY <1>2, <1>3
<1>5. NStages(f) = f[N_STAGES_OFFSET] + 256 * f[N_STAGES_OFFSET + 1]
  BY DEF NStages, RealBase
<1>6. NStages(f) = (m % 256) + 256 * (m \div 256)
  BY <1>4, <1>5
<1> QED
  BY <1>3, <1>6

\* Products that fit a word are not cut off.
LEMMA ExactTimes ==
    ASSUME NEW x \in Nat, NEW y \in Nat, NEW s \in Nat, x * y * s < Word
    PROVE  Times(Times(x, y), s) = x * y * s
<1>1. \A v \in Nat, w \in Nat : v < w => v % w = v
  OBVIOUS
<1>2. x * y \in Nat /\ x * y * s \in Nat
  OBVIOUS
<1>3. CASE s = 0
  <2>1. Times(x, y) \in Int
    BY TimesType, WordPositive
  <2>2. \A t \in Int : t * 0 = 0
    OBVIOUS
  <2>3. Times(Times(x, y), s) = 0 % Word /\ x * y * s = 0
    BY <1>2, <1>3, <2>1, <2>2 DEF Times
  <2> QED
    BY <1>1, <2>3, WordPositive
<1>4. CASE s > 0
  <2>1. \A t, r \in Nat : r > 0 => t <= t * r
    OBVIOUS
  <2>2. x * y < Word
    BY <1>2, <1>4, <2>1, WordPositive
  <2>3. Times(x, y) = x * y
    BY <1>1, <1>2, <2>2, WordPositive DEF Times
  <2>4. (x * y * s) % Word = x * y * s
    BY <1>1, <1>2, WordPositive
  <2> QED
    BY <2>3, <2>4 DEF Times
<1> QED
  BY <1>3, <1>4

\* Where the last of n stages begins.
StageAt(m) == HEADER_LENGTH + (m - 1) * STAGE_LENGTH

\* Where its factors are.
XAt(m) == StageAt(m) + 136
YAt(m) == StageAt(m) + 140
SAt(m) == StageAt(m) + 172

LEMMA FileBytes ==
    ASSUME NEW m \in Nat, m > 0, NEW x, NEW y, NEW s, NEW c,
           NEW f, f = File(m, x, y, s, c)
    PROVE  /\ StageAt(m) \in Nat
           /\ DOMAIN f = 0..(StageAt(m) + STAGE_LENGTH - 1)
           /\ f[VERSION_OFFSET] = GRAPH_VERSION
           /\ f[N_STAGES_OFFSET] = Digit(m, 0) /\ f[N_STAGES_OFFSET + 1] = Digit(m, 1)
           /\ Holds(f, XAt(m), x) /\ Holds(f, YAt(m), y) /\ Holds(f, SAt(m), s)
<1> DEFINE last == HEADER_LENGTH + (m - 1) * STAGE_LENGTH
           byte(o) ==
             CASE o = 36 -> GRAPH_VERSION
               [] o \in 240..241 -> Digit(m, o - 240)
               [] o \in (last + 136)..(last + 139) -> Digit(x, o - last - 136)
               [] o \in (last + 140)..(last + 143) -> Digit(y, o - last - 140)
               [] o \in (last + 172)..(last + 175) -> Digit(s, o - last - 172)
               [] OTHER -> c
           end == HEADER_LENGTH + m * STAGE_LENGTH - 1
<1>1. /\ last \in Nat /\ last >= 264 /\ end = last + STAGE_LENGTH - 1
      /\ STAGE_LENGTH = 227 /\ StageAt(m) = last
  BY SMT DEF HEADER_LENGTH, STAGE_LENGTH, StageAt
<1>2. f = [o \in 0..end |-> byte(o)]
  BY Zenon DEF File
<1> HIDE DEF last, end
<1>3. byte(36) = GRAPH_VERSION /\ byte(240) = Digit(m, 0) /\ byte(241) = Digit(m, 1)
  BY <1>1, SMT
<1>4. ASSUME NEW i \in 0..3
      PROVE  /\ byte(last + 136 + i) = Digit(x, i)
             /\ byte(last + 140 + i) = Digit(y, i)
             /\ byte(last + 172 + i) = Digit(s, i)
  BY <1>1, SMT
<1> HIDE DEF byte
<1>5. DOMAIN f = 0..end /\ \A o \in 0..end : f[o] = byte(o)
  BY <1>2
<1>6. \A i \in 0..3 : /\ last + 136 + i \in 0..end /\ last + 140 + i \in 0..end
                      /\ last + 172 + i \in 0..end
  BY <1>1, SMT
<1>7. 36 \in 0..end /\ 240 \in 0..end /\ 241 \in 0..end
  BY <1>1, SMT
<1>8. f[VERSION_OFFSET] = GRAPH_VERSION
  BY <1>3, <1>5, <1>7 DEF VERSION_OFFSET
<1>9. f[N_STAGES_OFFSET] = Digit(m, 0) /\ f[N_STAGES_OFFSET + 1] = Digit(m, 1)
  <2>1. N_STAGES_OFFSET = 240 /\ N_STAGES_OFFSET + 1 = 241
    BY SMT DEF N_STAGES_OFFSET
  <2>2. f[240] = Digit(m, 0) /\ f[241] = Digit(m, 1)
    BY <1>3, <1>5, <1>7
  <2> QED
    BY <2>1, <2>2
<1>10. ASSUME NEW i \in 0..3
       PROVE  /\ f[last + 136 + i] = Digit(x, i)
              /\ f[last + 140 + i] = Digit(y, i)
              /\ f[last + 172 + i] = Digit(s, i)
  <2>1. /\ last + 136 + i \in 0..end /\ last + 140 + i \in 0..end
        /\ last + 172 + i \in 0..end
    BY <1>6
  <2>2. /\ f[last + 136 + i] = byte(last + 136 + i)
        /\ f[last + 140 + i] = byte(last + 140 + i)
        /\ f[last + 172 + i] = byte(last + 172 + i)
    BY <1>5, <2>1, Zenon
  <2> QED
    BY <1>4, <2>2, Zenon
<1>11. /\ Holds(f, last + 136, x) /\ Holds(f, last + 140, y) /\ Holds(f, last + 172, s)
  BY <1>10 DEF Holds
<1>12. Holds(f, XAt(m), x) /\ Holds(f, YAt(m), y) /\ Holds(f, SAt(m), s)
  BY <1>1, <1>11 DEF XAt, YAt, SAt
<1>13. StageAt(m) \in Nat /\ DOMAIN f = 0..(StageAt(m) + STAGE_LENGTH - 1)
  BY <1>1, <1>5
<1> QED
  BY <1>8, <1>9, <1>12, <1>13

\* Where the factors are, and what they are.
LEMMA FactorsAreRead ==
    ASSUME Base = RealBase, NEW m \in Nat, m > 0, m < Base * Base, NEW x \in Nat, x < Word,
           NEW y \in Nat, y < Word, NEW s \in Nat, s < Word, NEW c,
           NEW f, f = File(m, x, y, s, c)
    PROVE  /\ NStages(f) = m
           /\ \A i \in 1..3 : {Factors(f)[i], Factors(f)[i] + 3} \subseteq DOMAIN f
           /\ read_32bits(f, Factors(f)[1]) = x
           /\ read_32bits(f, Factors(f)[2]) = y
           /\ read_32bits(f, Factors(f)[3]) = s
<1>1. /\ StageAt(m) \in Nat /\ DOMAIN f = 0..(StageAt(m) + STAGE_LENGTH - 1)
      /\ f[N_STAGES_OFFSET] = Digit(m, 0) /\ f[N_STAGES_OFFSET + 1] = Digit(m, 1)
      /\ Holds(f, XAt(m), x) /\ Holds(f, YAt(m), y) /\ Holds(f, SAt(m), s)
  BY FileBytes
<1>2. NStages(f) = m
  BY <1>1, StagesAreRead
<1>3. LastStage(f) = StageAt(m) - HEADER_LENGTH
  BY <1>2, SMT DEF LastStage, StageAt, HEADER_LENGTH, STAGE_LENGTH
<1>4. Factors(f) = <<XAt(m), YAt(m), SAt(m)>>
  <2>0. StageAt(m) \in Nat
    BY <1>1
  <2>1. /\ N_OUTPUTS_OFFSET + LastStage(f) = XAt(m)
        /\ N_OUTPUTS_OFFSET + LastStage(f) + 4 = YAt(m)
        /\ X_OUT_STRIDE_OFFSET + LastStage(f) = SAt(m)
    BY <1>3, <2>0, Z3 DEF N_OUTPUTS_OFFSET, X_OUT_STRIDE_OFFSET, HEADER_LENGTH,
       XAt, YAt, SAt
  <2> QED
    BY <2>1 DEF Factors
<1>5. Factors(f)[1] = XAt(m) /\ Factors(f)[2] = YAt(m) /\ Factors(f)[3] = SAt(m)
  BY <1>4
<1>6. XAt(m) \in Int /\ YAt(m) \in Int /\ SAt(m) \in Int
  BY <1>1, SMT DEF XAt, YAt, SAt
<1>7. /\ read_32bits(f, XAt(m)) = x /\ read_32bits(f, YAt(m)) = y
      /\ read_32bits(f, SAt(m)) = s
  BY <1>1, <1>6, WordIsRead
<1>8. ASSUME NEW i \in 1..3
      PROVE  {Factors(f)[i], Factors(f)[i] + 3} \subseteq DOMAIN f
  <2> DEFINE end == StageAt(m) + STAGE_LENGTH - 1
  <2>1. /\ XAt(m) \in 0..end /\ XAt(m) + 3 \in 0..end
        /\ YAt(m) \in 0..end /\ YAt(m) + 3 \in 0..end
        /\ SAt(m) \in 0..end /\ SAt(m) + 3 \in 0..end
    <3>1. StageAt(m) \in Nat /\ end = StageAt(m) + 226
      BY <1>1 DEF STAGE_LENGTH
    <3> HIDE DEF end
    <3> QED
      BY <3>1 DEF XAt, YAt, SAt
  <2>2. i = 1 \/ i = 2 \/ i = 3
    BY SMT
  <2> HIDE DEF end
  <2>3. Factors(f)[i] \in 0..end /\ Factors(f)[i] + 3 \in 0..end
    BY <1>5, <2>1, <2>2
  <2>4. DOMAIN f = 0..end
    BY <1>1 DEF end
  <2> QED
    BY <2>3, <2>4
<1> QED
  BY <1>2, <1>5, <1>7, <1>8

\* With bytes of eight bits: a graph file with any number of stages its header
\* can tell, any factors of its last stage and anything in the other bytes is
\* read inside the file, and a product that fits a word is exact.
THEOREM HeadersAreRead ==
    ASSUME Base = RealBase, NEW m \in 1..(Base * Base - 1), NEW x \in 0..(Word - 1),
           NEW y \in 0..(Word - 1), NEW s \in 0..(Word - 1), NEW c \in Byte
    PROVE  HeaderIsRead(m, x, y, s, c)
<1>1. PICK f : f = File(m, x, y, s, c)
  OBVIOUS
<1>2. PICK size \in Nat : /\ size = HEADER_LENGTH + m * STAGE_LENGTH
                          /\ size >= HEADER_LENGTH + STAGE_LENGTH
  BY SMT DEF HEADER_LENGTH, STAGE_LENGTH
<1>3. m \in Nat /\ m > 0 /\ m < Base * Base
  <2> DEFINE b == Base * Base
  <2>1. b \in Int
    BY WidthAssumption
  <2> HIDE DEF b
  <2>2. m \in 1..(b - 1)
    BY DEF b
  <2>3. m \in Nat /\ m > 0 /\ m < b
    BY <2>1, <2>2
  <2> QED
    BY <2>3 DEF b
<1>4. /\ NStages(f) = m
      /\ \A i \in 1..3 : {Factors(f)[i], Factors(f)[i] + 3} \subseteq DOMAIN f
      /\ read_32bits(f, Factors(f)[1]) = x
      /\ read_32bits(f, Factors(f)[2]) = y
      /\ read_32bits(f, Factors(f)[3]) = s
  <2>1. x \in Nat /\ x < Word /\ y \in Nat /\ y < Word /\ s \in Nat /\ s < Word
    BY WordPositive, SMT
  <2> QED
    BY <1>1, <1>3, <2>1, FactorsAreRead
<1>5. ASSUME x * y * s < Word
      PROVE  /\ NOutputs(f) = (x * y * s) \div 2
             /\ Accepted(f, size) <=>
                  size <= MaxLength /\ (x * y * s) \div 2 <= MaxOutputs
  <2>1. x \in Nat /\ y \in Nat /\ s \in Nat
    BY WordPositive, SMT
  <2>2. NOutputs(f) = Times(Times(x, y), s) \div 2
    BY <1>4 DEF NOutputs
  <2>3. NOutputs(f) = (x * y * s) \div 2
    BY <1>5, <2>1, <2>2, ExactTimes
  <2>4. f[VERSION_OFFSET] = GRAPH_VERSION
    BY <1>1, <1>3, FileBytes
  <2> QED
    BY <1>2, <2>3, <2>4 DEF Accepted, LengthAccepted
<1> QED
  BY <1>1, <1>2, <1>4, <1>5 DEF HeaderIsRead
-----------------------------------------------------------------------------
(***************************************************************************)
(* The module that TLC runs.                                               *)
(***************************************************************************)
Cases == n \in Nat /\ n < Bits(16)

LEMMA CasesType == Spec => []Cases
<1>1. \A i \in Nat : i % 65536 \in Nat /\ i % 65536 < 65536
  BY Z3
<1>2. Init => Cases
  BY Powers, Z3 DEF Init, Cases
<1>3. Cases /\ [Next]_n => Cases'
  <2> SUFFICES ASSUME Cases, [Next]_n PROVE Cases'
    OBVIOUS
  <2>1. CASE Next
    <3>1. PICK bit \in {0, 1} : n' = (2 * n + bit) % 65536
      BY <2>1, Powers, Z3 DEF Next
    <3>2. 2 * n + bit \in Nat
      BY <3>1, Z3 DEF Cases
    <3>3. n' \in Nat /\ n' < 65536
      BY <1>1, <3>1, <3>2, Z3
    <3> QED
      BY <3>3, Powers, Z3 DEF Cases
  <2>2. CASE UNCHANGED n
    BY <2>2 DEF Cases
  <2> QED
    BY <2>1, <2>2
<1> QED
  BY <1>2, <1>3, PTL DEF Spec

LEMMA CaseIs == ASSUME Cases PROVE n \in Nat /\ n < 65536
BY Powers, Z3 DEF Cases

LEMMA HalfType == ASSUME Cases PROVE half \in Half
<1>1. n % Bits(15) \in 0..(Bits(15) - 1)
  BY CaseIs, Powers, Z3
<1>2. (n >= Bits(15)) \in BOOLEAN
  OBVIOUS
<1> QED
  BY <1>1, <1>2, SMT DEF half, Half, Number

LEMMA NaNType == ASSUME Cases PROVE nan \in Float
<1>1. 255 * Bits(23) + n \in Nat /\ 255 * Bits(23) + n < Bits(31) /\ Bits(31) \in Nat
  BY CaseIs, Powers, Z3
<1>2. \A a, b \in Nat : a < b => a \in 0..(b - 1)
  BY Z3
<1>3. 255 * Bits(23) + n \in 0..(Bits(31) - 1)
  BY <1>1, <1>2
<1> QED
  BY <1>3, Zenon DEF nan, Positive, Float, Number

LEMMA EndsRound == ASSUME Cases PROVE FloatsRound
<1> DEFINE m == half.mag
<1>1. half \in Half /\ m \in 0..(Bits(15) - 1)
  BY HalfType DEF Half, Number
<1> SUFFICES ASSUME HalfExp(m) # 31,
                    NEW x \in {Exact(m), Middle(m) - 1, Middle(m), Above(m) - 1}
             PROVE  Nearest(m, [half EXCEPT !.mag = x])
  BY DEF FloatsRound
<1>2. m \in Nat /\ m < 31744
  BY <1>1, HalfExpIs
<1>3. /\ Exact(m) \in Nat /\ Middle(m) \in Nat /\ Above(m) \in Nat
      /\ Exact(m) < Middle(m) /\ Middle(m) < Above(m) /\ Above(m) <= 143 * 8388608
  BY <1>2, ValuesGrow
<1>4. x \in 0..(Bits(31) - 1)
  <2> HIDE DEF m
  <2> QED
    BY <1>3, Powers, Z3
<1>5. [half EXCEPT !.mag = x] \in Float
  BY <1>1, <1>4 DEF Half, Float, Number
<1> QED
  BY <1>1, <1>5, FloatsAreRounded

\* The halfs survive the way to a float and back, the floats at the ends of what
\* rounds to one half become it, and NaNs and infinity keep their kind, in every
\* case: what half2float and floattofp16 of fp16.c do.
THEOREM NumbersAlwaysConvert == Spec => [](HalfsRoundTrip /\ FloatsRound /\ NaNsAreKept)
<1>1. Cases => HalfsRoundTrip
  BY HalfType, HalfsAreKept DEF HalfsRoundTrip
<1>2. Cases => FloatsRound
  BY EndsRound
<1>3. Cases => NaNsAreKept
  BY NaNType, NaNsAlwaysStay DEF NaNsAreKept
<1> QED
  BY CasesType, <1>1, <1>2, <1>3, PTL

LEMMA WordsType ==
    ASSUME Cases, Base = RealBase
    PROVE  /\ stages \in 0..15 /\ fill \in Byte
           /\ \A i \in {4, 7, 10} : word(i) \in Nat /\ word(i) < Word
<1>1. stages \in 0..15
  BY CaseIs, Z3 DEF stages
<1>2. fill \in Byte
  <2>1. fill = (n \div 8192) % 256
    BY Powers, Z3 DEF fill, RealBase
  <2>2. n \div 8192 \in Nat
    BY CaseIs, Z3
  <2>3. (n \div 8192) % 256 \in 0..255
    BY <2>2, Z3
  <2> QED
    BY <2>1, <2>3, Z3 DEF Byte, RealBase
<1>3. ASSUME NEW i \in {4, 7, 10} PROVE word(i) \in Nat /\ word(i) < Word
  <2>1. Bits(i) \in {16, 128, 1024}
    BY <1>3, Powers, Z3
  <2>2. ((n \div Bits(i)) % 8) + 1 \in 1..8
    <3>1. n \div Bits(i) \in Nat
      BY <2>1, CaseIs, Z3
    <3>2. \A j \in Nat : (j % 8) + 1 \in 1..8
      BY Z3
    <3> QED
      BY <3>1, <3>2
  <2>3. \A j \in 1..8 : words[j] \in 0..255
    BY SMT DEF words
  <2>4. word(i) \in 0..255
    BY <2>2, <2>3 DEF word
  <2>5. Word = 4294967296
    BY Z3 DEF Word, RealBase
  <2> QED
    BY <2>4, <2>5, Z3
<1> QED
  BY <1>1, <1>2, <1>3

LEMMA FileIsRead ==
    ASSUME Cases, Base = RealBase
    PROVE  FilesAreRead
<1>1. CASE stages = 0
  BY <1>1, Z3 DEF FilesAreRead, HeaderIsRead
<1>2. CASE stages # 0
  <2>1. stages \in 1..(Base * Base - 1)
    <3>1. Base * Base = 65536
      BY Z3 DEF RealBase
    <3>2. stages \in 0..15
      BY WordsType
    <3> QED
      BY <1>2, <3>1, <3>2, Z3
  <2>2. \A i \in {4, 7, 10} : word(i) \in 0..(Word - 1)
    BY WordsType, WordPositive, Z3
  <2>3. /\ word(4) \in 0..(Word - 1) /\ word(7) \in 0..(Word - 1)
        /\ word(10) \in 0..(Word - 1) /\ fill \in Byte
    BY <2>2, WordsType
  <2> QED
    BY <2>1, <2>3, HeadersAreRead DEF FilesAreRead
<1> QED
  BY <1>1, <1>2

LEMMA FileFits ==
    ASSUME Cases, Base = RealBase
    PROVE  BuffersHold(file, HEADER_LENGTH + stages * STAGE_LENGTH)
<1>1. CASE stages = 0
  <2>1. ~LengthAccepted(HEADER_LENGTH + stages * STAGE_LENGTH)
    BY <1>1, Z3 DEF LengthAccepted, HEADER_LENGTH, STAGE_LENGTH
  <2> QED
    BY <2>1 DEF BuffersHold, Accepted
<1>2. CASE stages # 0
  <2>1. stages \in Nat /\ stages > 0 /\ stages < Base * Base
    BY <1>2, WordsType, Z3 DEF RealBase
  <2>2. /\ word(4) \in Nat /\ word(4) < Word /\ word(7) \in Nat /\ word(7) < Word
        /\ word(10) \in Nat /\ word(10) < Word
    BY WordsType
  <2>3. /\ NStages(file) = stages
        /\ read_32bits(file, Factors(file)[1]) = word(4)
        /\ read_32bits(file, Factors(file)[2]) = word(7)
        /\ read_32bits(file, Factors(file)[3]) = word(10)
    BY <2>1, <2>2, FactorsAreRead DEF file
  <2>4. \A i \in 1..3 : read_32bits(file, Factors(file)[i]) \in Int
    BY <2>2, <2>3, Z3
  <2> QED
    BY <2>1, <2>3, <2>4, OutputsFollow, BuffersFollow
<1> QED
  BY <1>1, <1>2

LEMMA BadfileFits ==
    ASSUME Cases, Base = RealBase, MaxLength >= 3400
    PROVE  BuffersHold(badfile, HEADER_LENGTH + STAGE_LENGTH)
<1> DEFINE end == MaxLength + STAGE_LENGTH
           i == n \div 16
           digit(o) == CASE o = VERSION_OFFSET -> GRAPH_VERSION
                         [] o \in 240..241 -> Digit(stages, o - 240)
                         [] OTHER -> (o * i) % Base
<1>1. stages \in Nat /\ stages <= 15 /\ end \in Nat /\ end >= 3627
  BY WordsType, WidthAssumption, Z3 DEF STAGE_LENGTH
<1>2. badfile = [o \in 0..end |-> digit(o)]
  BY SMT DEF badfile
<1>3. i \in Nat
  BY CaseIs, Z3
<1> HIDE DEF end, i
<1>4. digit(240) = Digit(stages, 0) /\ digit(241) = Digit(stages, 1)
  BY SMT DEF VERSION_OFFSET
<1>5. ASSUME NEW o \in Nat, o # 36, o < 240 \/ o > 241
      PROVE  digit(o) \in Int
  <2>1. digit(o) = (o * i) % 256
    BY <1>5, SMT DEF RealBase, VERSION_OFFSET
  <2>2. \A a, b \in Nat : (a * b) % 256 \in Int
    BY Z3
  <2> QED
    BY <1>3, <2>1, <2>2
<1> HIDE DEF digit
<1>6. \A o \in 0..end : badfile[o] = digit(o)
  BY <1>2
<1>7. NStages(badfile) = stages
  <2>1. 240 \in 0..end /\ 241 \in 0..end
    BY <1>1, Z3
  <2>2. badfile[240] = Digit(stages, 0) /\ badfile[241] = Digit(stages, 1)
    BY <1>4, <1>6, <2>1
  <2>3. N_STAGES_OFFSET = 240 /\ N_STAGES_OFFSET + 1 = 241
    BY SMT DEF N_STAGES_OFFSET
  <2>4. stages < Base * Base
    BY <1>1, Z3 DEF RealBase
  <2> QED
    BY <1>1, <2>2, <2>3, <2>4, StagesAreRead
<1>8. \A k \in 1..3 : /\ Factors(badfile)[k] \in Nat /\ Factors(badfile)[k] + 3 <= end
                      /\ Factors(badfile)[k] > 36
                      /\ Factors(badfile)[k] + 3 < 240 \/ Factors(badfile)[k] > 241
  <2> DEFINE last == LastStage(badfile)
  <2>1. last = (stages - 1) * 227
    BY <1>7 DEF LastStage, STAGE_LENGTH
  <2>2. last = -227 \/ (last >= 0 /\ last <= 3178)
    BY <1>1, <2>1, Z3
  <2>3. Factors(badfile) = <<400 + last, 404 + last, 436 + last>>
    <3>1. last \in Int
      BY <1>1, <2>1, Z3
    <3>2. /\ N_OUTPUTS_OFFSET + last = 400 + last /\ N_OUTPUTS_OFFSET + last + 4 = 404 + last
          /\ X_OUT_STRIDE_OFFSET + last = 436 + last
      BY <3>1, Z3 DEF N_OUTPUTS_OFFSET, X_OUT_STRIDE_OFFSET, HEADER_LENGTH
    <3> QED
      BY <3>2 DEF Factors
  <2>4. last \in Int
    BY <1>1, <2>1, Z3
  <2> HIDE DEF last
  <2> QED
    BY <1>1, <2>2, <2>3, <2>4, SMT
<1>9. ASSUME NEW k \in 1..3
      PROVE  read_32bits(badfile, Factors(badfile)[k]) \in Int
  <2> DEFINE o == Factors(badfile)[k]
  <2>1. o \in Nat /\ o + 3 <= end /\ o > 36 /\ (o + 3 < 240 \/ o > 241)
    BY <1>8
  <2> HIDE DEF o
  <2>2. \A j \in {o, o + 1, o + 2, o + 3} : /\ j \in Nat /\ j \in 0..end /\ j # 36
                                            /\ j < 240 \/ j > 241
    BY <1>1, <2>1, Z3
  <2>3. \A j \in {o, o + 1, o + 2, o + 3} : badfile[j] \in Int
    BY <1>5, <1>6, <2>2
  <2>4. /\ badfile[o] \in Int /\ badfile[o + 1] \in Int /\ badfile[o + 2] \in Int
        /\ badfile[o + 3] \in Int
    BY <2>3
  <2>5. \A a, b, c, d \in Int : a + 256 * b + 256 * 256 * c + 256 * 256 * 256 * d \in Int
    BY Z3
  <2>6. read_32bits(badfile, o) = badfile[o] + 256 * badfile[o + 1]
          + 256 * 256 * badfile[o + 2] + 256 * 256 * 256 * badfile[o + 3]
    BY DEF read_32bits, RealBase
  <2> QED
    BY <2>4, <2>5, <2>6 DEF o
<1> QED
  BY <1>1, <1>7, <1>9, OutputsFollow, BuffersFollow

\* In every case the header is read as the file was written, and what
\* mvncGetResult writes fits the buffers of mvncAllocateGraph: for the bytes of
\* the code, and a limit on the length that leaves room for fifteen stages.
THEOREM FilesAlwaysFit ==
    ASSUME Base = RealBase, MaxLength >= 3400
    PROVE  Spec => [](FilesAreRead /\ BuffersFit)
<1>1. Cases => FilesAreRead
  BY FileIsRead
<1>2. Cases => BuffersFit
  BY FileFits, BadfileFits DEF BuffersFit
<1> QED
  BY CasesType, <1>1, <1>2, PTL
=============================================================================
