----------------------------- MODULE BoardProofs -----------------------------
(***************************************************************************)
(* Proofs about the board's devices.  What is made of the network's output *)
(* (PostProcess), for any network, output, thresholds and sizes of frames: *)
(* the sort keeps each box with its score, the suppression is what its     *)
(* definition without an order says, the results are the best boxes that   *)
(* stay, and the letterbox is undone.  The LED driver (LedDriver), for any *)
(* writers, any numbers written and any limit: what the driver takes from  *)
(* the power LED it gives back.                                            *)
(***************************************************************************)
EXTENDS PostProcess, LedDriver, SequenceTheorems, WellFoundedInduction, TLAPS

-----------------------------------------------------------------------------
(* Arithmetic. *)

LEMMA MinOfTwo == \A a, b \in Int : Min({a, b}) = IF a <= b THEN a ELSE b
BY DEF Min

LEMMA MaxOfTwo == \A a, b \in Int : Max({a, b}) = IF a >= b THEN a ELSE b
BY DEF Max

LEMMA DivBounds == ASSUME NEW n \in Int, NEW d \in Nat \ {0}
                   PROVE  /\ n \div d \in Int
                          /\ d * (n \div d) <= n /\ n < d * (n \div d) + d
OBVIOUS

LEMMA NonNegative == \A a, b \in Nat : a * b \in Nat
OBVIOUS

LEMMA Cancel == ASSUME NEW a \in Int, NEW b \in Int, NEW c \in Nat \ {0}, a * c <= b * c
                PROVE  a <= b
OBVIOUS

LEMMA CancelLess == ASSUME NEW a \in Int, NEW b \in Int, NEW c \in Nat \ {0}, a * c < b * c
                    PROVE  a < b
OBVIOUS
-----------------------------------------------------------------------------
(* The letterbox. *)

LEMMA PairOf == ASSUME NEW s \in Sizes
                PROVE s = <<s[1], s[2]>> /\ s[1] \in Nat \ {0} /\ s[2] \in Nat \ {0}
BY DEF Sizes

(* A scale s1/s2 takes a frame's f pixels to c pixels of the model to half a pixel, or f
   is less than half a pixel: then the coordinates come back. *)
Fits(f, s1, s2, c) == \/ 2 * c * s2 <= 2 * f * s1 + s2 /\ 2 * f * s1 <= 2 * c * s2 + s2
                      \/ 2 * f * s1 < s2

LEMMA ThereAndBack ==
  ASSUME NEW f \in Nat \ {0}, NEW s1 \in Nat \ {0}, NEW s2 \in Nat \ {0}, NEW c \in Nat \ {0},
         NEW u \in 0..f, Fits(f, s1, s2, c)
  PROVE  2 * s1 * (Distance(Max({0, Min({(u * c * s2) \div (f * s1), f})}), u) - 1) <= s2
<1> DEFINE z == u * c * s2
           d == f * s1
           x == z \div d
           y == Max({0, Min({x, f})})
<1>1. z \in Nat /\ d \in Nat \ {0}
  OBVIOUS
<1>2. x \in Int /\ d * x <= z /\ z < d * x + d
  <2> HIDE DEF z, d
  <2>1. QED BY <1>1, DivBounds
<1>3. x >= 0
  <2> HIDE DEF z, d, x
  <2>1. QED BY <1>1, <1>2
<1>4. y = IF x <= f THEN x ELSE f
  <2> HIDE DEF x
  <2>1. Min({x, f}) \in Int /\ Min({x, f}) = IF x <= f THEN x ELSE f
    BY <1>2, MinOfTwo
  <2>2. QED BY <1>2, <1>3, <2>1, MaxOfTwo
<1>5. y \in 0..f
  <2> HIDE DEF x, y
  <2>1. QED BY <1>2, <1>3, <1>4
<1>6. Distance(y, u) = IF y >= u THEN y - u ELSE u - y
  <2> HIDE DEF y
  <2>1. y - u \in Int /\ u - y \in Int
    BY <1>5
  <2>2. QED BY <1>5, <2>1, MaxOfTwo DEF Distance
<1> DEFINE Near == 2 * s1 * (Distance(y, u) - 1) <= s2
<1>7. ASSUME 2 * f * s1 < s2 PROVE Near
  <2> DEFINE e == Distance(y, u) - 1
  <2>1. e \in Int /\ e <= f
    <3> HIDE DEF y
    <3>1. QED BY <1>5, <1>6
  <2> HIDE DEF e
  <2>2. s1 * e <= s1 * f
    BY <2>1
  <2>3. 2 * s1 * e <= 2 * f * s1
    BY <2>1, <2>2
  <2>4. QED BY <1>7, <2>1, <2>3 DEF e
<1>8. ASSUME 2 * c * s2 <= 2 * f * s1 + s2, 2 * f * s1 <= 2 * c * s2 + s2 PROVE Near
  <2>1. u * (2 * c * s2) <= u * (2 * f * s1 + s2) /\ u * (2 * f * s1) <= u * (2 * c * s2 + s2)
    BY <1>8
  <2>2. u * (2 * c * s2) = 2 * z /\ u * (2 * f * s1) = 2 * (d * u) /\ u * s2 <= f * s2
    OBVIOUS
  <2>3. 2 * z <= 2 * (d * u) + f * s2 /\ 2 * (d * u) <= 2 * z + f * s2
    BY <2>1, <2>2
  <2>4. 2 * (d * x) <= 2 * (d * u) + f * s2 /\ 2 * (d * u) < 2 * (d * x + d) + f * s2
    <3> HIDE DEF x, z, d
    <3>1. QED BY <1>1, <1>2, <2>3
  <2>5. /\ (2 * s1 * (x - u)) * f <= s2 * f
        /\ (2 * s1 * (u - x - 1)) * f < s2 * f
    <3> HIDE DEF x, z
    <3>1. d * x = f * s1 * x /\ d * u = f * s1 * u
      OBVIOUS
    <3>2. /\ (2 * s1 * (x - u)) * f = 2 * (f * s1 * x) - 2 * (f * s1 * u)
          /\ (2 * s1 * (u - x - 1)) * f = 2 * (f * s1 * u) - 2 * (f * s1 * x) - 2 * (f * s1)
      BY <1>2
    <3>3. f * s1 * x \in Int /\ f * s1 * u \in Int /\ f * s1 \in Int /\ f * s2 \in Int
      BY <1>2
    <3>4. QED BY <2>4, <3>1, <3>2, <3>3
  <2>6. 2 * s1 * (x - u) <= s2 /\ 2 * s1 * (u - x - 1) < s2
    <3> HIDE DEF x
    <3>1. 2 * s1 * (x - u) \in Int /\ 2 * s1 * (u - x - 1) \in Int
      BY <1>2
    <3>2. QED BY <2>5, <3>1, Cancel, CancelLess
  <2> HIDE DEF x, y
  <2>7. ASSUME y >= u PROVE Near
    <3>1. y - u - 1 <= x - u
      BY <1>2, <1>4, <1>5
    <3>2. s1 * (y - u - 1) <= s1 * (x - u)
      BY <1>2, <1>5, <3>1
    <3>3. 2 * s1 * (y - u - 1) <= 2 * s1 * (x - u)
      BY <1>2, <1>5, <3>2
    <3>4. QED BY <1>2, <1>5, <1>6, <2>6, <2>7, <3>3
  <2>8. ASSUME ~(y >= u) PROVE Near
    <3>1. y = x
      BY <1>2, <1>4, <1>5, <2>8
    <3>2. Distance(y, u) - 1 = u - x - 1
      BY <1>2, <1>6, <2>8, <3>1
    <3>3. QED BY <1>2, <2>6, <3>2
  <2>9. QED BY <2>7, <2>8
<1>9. QED BY <1>7, <1>8 DEF Fits

LEMMA ScaleFits == ASSUME NEW size \in Sizes
                   PROVE  /\ Scale(size) \in Sizes
                          /\ \A a \in 1..2 : size[a] * Scale(size)[1] <= ModelSize[a] * Scale(size)[2]
<1>1. ModelSize \in Sizes
  BY PostProcessAssumption
<1>2. /\ size[1] \in Nat \ {0} /\ size[2] \in Nat \ {0}
      /\ ModelSize[1] \in Nat \ {0} /\ ModelSize[2] \in Nat \ {0}
  BY <1>1, PairOf
<1> DEFINE m1 == ModelSize[1]
           m2 == ModelSize[2]
           f1 == size[1]
           f2 == size[2]
<1>3. Scale(size) = IF m2 * f1 < m1 * f2 THEN <<m2, f2>> ELSE <<m1, f1>>
  BY DEF Scale, Less
<1>4. <<m2, f2>> \in Sizes /\ <<m1, f1>> \in Sizes
  BY <1>2 DEF Sizes
<1>5. m1 \in Nat \ {0} /\ m2 \in Nat \ {0} /\ f1 \in Nat \ {0} /\ f2 \in Nat \ {0}
  BY <1>2
<1>6. ASSUME NEW a \in 1..2 PROVE size[a] * Scale(size)[1] <= ModelSize[a] * Scale(size)[2]
  <2>1. CASE m2 * f1 < m1 * f2
    <3>1. Scale(size)[1] = m2 /\ Scale(size)[2] = f2
      BY <1>3, <2>1
    <3> HIDE DEF m1, m2, f1, f2
    <3>2. f1 * m2 <= m1 * f2 /\ f2 * m2 <= m2 * f2
      BY <1>5, <2>1
    <3>3. QED BY <3>1, <3>2 DEF m1, m2, f1, f2
  <2>2. CASE ~(m2 * f1 < m1 * f2)
    <3>1. Scale(size)[1] = m1 /\ Scale(size)[2] = f1
      BY <1>3, <2>2
    <3> HIDE DEF m1, m2, f1, f2
    <3>2. f1 * m1 <= m1 * f1 /\ f2 * m1 <= m2 * f1
      BY <1>5, <2>2
    <3>3. QED BY <3>1, <3>2 DEF m1, m2, f1, f2
  <2>3. QED BY <2>1, <2>2
<1>7. QED BY <1>3, <1>4, <1>6

\* What computeLetterbox makes of one axis.
ContentOf(f, s1, s2, m) == Min({Max({1, Rounded(<<f * s1, s2>>)}), m})

LEMMA ContentFits ==
  ASSUME NEW f \in Nat \ {0}, NEW s1 \in Nat \ {0}, NEW s2 \in Nat \ {0}, NEW m \in Nat \ {0},
         f * s1 <= m * s2
  PROVE  ContentOf(f, s1, s2, m) \in 1..m /\ Fits(f, s1, s2, ContentOf(f, s1, s2, m))
<1> DEFINE n == 2 * (f * s1) + s2
           d == 2 * s2
           r == n \div d
           c == IF r >= 1 THEN r ELSE 1
<1>1. n \in Nat /\ d \in Nat \ {0}
  OBVIOUS
<1>2. r \in Int /\ d * r <= n /\ n < d * r + d
  <2> HIDE DEF n, d
  <2>1. QED BY <1>1, DivBounds
<1>3. Rounded(<<f * s1, s2>>) = r
  BY DEF Rounded
<1> HIDE DEF r
<1>4. f * s1 \in Nat /\ m * s2 \in Nat /\ s2 * r \in Int /\ n = 2 * (f * s1) + s2
  BY <1>2
<1>5. s2 * r <= s2 * m
  <2>1. 2 * (s2 * r) <= 2 * (s2 * m) + s2
    BY <1>2, <1>4
  <2>2. ASSUME r > m PROVE FALSE
    <3>1. r >= m + 1
      BY <1>2, <2>2
    <3>2. s2 * r >= s2 * (m + 1)
      BY <1>2, <3>1
    <3>3. s2 * (m + 1) = s2 * m + s2 /\ s2 * m \in Nat
      OBVIOUS
    <3>4. QED BY <1>4, <2>1, <3>2, <3>3
  <2>3. r <= m
    BY <1>2, <2>2
  <2>4. QED BY <1>2, <2>3
<1>6. r <= m
  <2>1. r * s2 <= m * s2
    BY <1>2, <1>5
  <2>2. QED BY <1>2, <2>1, Cancel
<1>7. c \in 1..m
  BY <1>2, <1>6
<1>8. ContentOf(f, s1, s2, m) = c
  <2>1. Max({1, r}) = c
    BY <1>2, MaxOfTwo
  <2> HIDE DEF c
  <2>2. Min({c, m}) = c
    BY <1>7, MinOfTwo
  <2>3. QED BY <1>3, <2>1, <2>2 DEF ContentOf
<1>9. Fits(f, s1, s2, c)
  <2>1. ASSUME r >= 1 PROVE Fits(f, s1, s2, c)
    <3>1. c = r
      BY <2>1
    <3>2. 2 * r * s2 = 2 * (s2 * r) /\ (2 * s2) * r = 2 * (s2 * r) /\ 2 * f * s1 = 2 * (f * s1)
      BY <1>2
    <3>3. 2 * r * s2 <= 2 * f * s1 + s2 /\ 2 * f * s1 <= 2 * r * s2 + s2
      BY <1>2, <1>4, <3>2
    <3>4. QED BY <3>1, <3>3 DEF Fits
  <2>2. ASSUME ~(r >= 1) PROVE Fits(f, s1, s2, c)
    <3>1. (2 * s2) * r <= 0
      BY <1>2, <2>2
    <3>2. 2 * f * s1 = 2 * (f * s1) /\ (2 * s2) * r \in Int
      BY <1>2
    <3>3. 2 * f * s1 < s2
      BY <1>2, <1>4, <3>1, <3>2
    <3>4. QED BY <3>3 DEF Fits
  <2>3. QED BY <2>1, <2>2
<1>10. QED BY <1>7, <1>8, <1>9

(* Of either letterbox: the content lies in the model's input, and the scale fits. *)
AxisFits(size, l, a) == /\ l[a].scale \in Sizes /\ l[a].content \in 1..ModelSize[a] /\ l[a].pad \in Nat
                        /\ l[a].pad + l[a].content <= ModelSize[a]
                        /\ Fits(size[a], l[a].scale[1], l[a].scale[2], l[a].content)

LEMMA LetterboxFits ==
  ASSUME NEW size \in Sizes, NEW l \in {ComputeLetterbox(size), Stretched(size)}, NEW a \in 1..2
  PROVE  AxisFits(size, l, a)
<1> DEFINE f == size[a]
           m == ModelSize[a]
<1>1. f \in Nat \ {0} /\ m \in Nat \ {0}
  BY PostProcessAssumption, PairOf
<1>2. CASE l = Stretched(size)
  <2>1. l[a] = [scale |-> <<m, f>>, content |-> m, pad |-> 0]
    BY <1>2 DEF Stretched
  <2> HIDE DEF f, m
  <2>2. <<m, f>> \in Sizes
    BY <1>1 DEF Sizes
  <2>3. 2 * m * f <= 2 * f * m + f /\ 2 * f * m <= 2 * m * f + f
    BY <1>1
  <2>4. QED BY <1>1, <2>1, <2>2, <2>3 DEF AxisFits, Fits, f, m
<1>3. CASE l = ComputeLetterbox(size)
  <2> DEFINE s1 == Scale(size)[1]
             s2 == Scale(size)[2]
             c == ContentOf(f, s1, s2, m)
             raw == (m - c) \div 2
             half == raw \div 16
  <2>1. s1 \in Nat \ {0} /\ s2 \in Nat \ {0} /\ f * s1 <= m * s2 /\ Scale(size) \in Sizes
    BY ScaleFits, PairOf
  <2>2. c \in 1..m /\ Fits(f, s1, s2, c)
    <3> HIDE DEF f, m, s1, s2, c
    <3>1. QED BY <1>1, <2>1, ContentFits DEF c
  <2>3. l[a].scale = Scale(size) /\ l[a].content = c /\ l[a].pad \in {half * 16, raw}
    <3> DEFINE co(b) == ContentOf(size[b], s1, s2, ModelSize[b])
               left == (((ModelSize[1] - co(1)) \div 2) \div 16) * 16
               top == (ModelSize[2] - co(2)) \div 2
    <3>1. l = <<[scale |-> Scale(size), content |-> co(1), pad |-> left],
                [scale |-> Scale(size), content |-> co(2), pad |-> top]>>
      BY <1>3 DEF ComputeLetterbox, ContentOf
    <3>2. CASE a = 1
      BY <3>1, <3>2
    <3>3. CASE a = 2
      BY <3>1, <3>3
    <3>4. QED BY <3>2, <3>3
  <2>4. raw \in Nat /\ half * 16 \in Nat /\ raw + c <= m /\ half * 16 + c <= m
    <3> HIDE DEF m, c
    <3>1. raw \in Int /\ 2 * raw <= m - c /\ m - c < 2 * raw + 2
      BY <1>1, <2>2
    <3> HIDE DEF raw
    <3>2. half \in Int /\ 16 * half <= raw /\ raw < 16 * half + 16
      BY <3>1
    <3> HIDE DEF half
    <3>3. QED BY <1>1, <2>2, <3>1, <3>2
  <2>5. l[a].pad \in Nat /\ l[a].pad + l[a].content <= m
    BY <2>3, <2>4
  <2>6. QED BY <2>1, <2>2, <2>3, <2>5 DEF AxisFits
<1>4. QED BY <1>2, <1>3

LEMMA LetterboxType == ASSUME NEW size \in Sizes, NEW l \in {ComputeLetterbox(size), Stretched(size)}
                       PROVE  l \in [1..2 -> [scale : Sizes, content : Nat, pad : Nat]]
<1>1. \A a \in 1..2 : AxisFits(size, l, a)
  BY LetterboxFits
<1>2. ModelSize[1] \in Nat /\ ModelSize[2] \in Nat
  BY PostProcessAssumption, PairOf
<1>3. \A a \in 1..2 : l[a].scale \in Sizes /\ l[a].content \in Nat /\ l[a].pad \in Nat
  BY <1>1, <1>2 DEF AxisFits
<1>4. \A a \in 1..2 : l[a] = [scale |-> l[a].scale, content |-> l[a].content, pad |-> l[a].pad]
  BY DEF ComputeLetterbox, Stretched
<1> DEFINE Axis == [scale : Sizes, content : Nat, pad : Nat]
<1>5. l[1] \in Axis /\ l[2] \in Axis
  BY <1>3, <1>4
<1> HIDE DEF Axis
<1>6. CASE l = Stretched(size)
  BY <1>3, <1>4, <1>6 DEF Stretched, Axis
<1>7. CASE l = ComputeLetterbox(size)
  <2>1. PICK x, y : l = <<x, y>>
    BY <1>7 DEF ComputeLetterbox
  <2>2. l \in [1..2 -> Axis]
    BY <1>5, <2>1
  <2>3. QED BY <2>2 DEF Axis
<1>8. QED BY <1>6, <1>7
-----------------------------------------------------------------------------
(* Decoding. *)

LEMMA LeastExists == ASSUME NEW I \in SUBSET Nat, I # {}
                     PROVE  \E x \in I : \A y \in I : x <= y
<1> DEFINE R == OpToRel(<, Nat)
<1>1. IsWellFoundedOn(R, Nat)
  BY NatLessThanWellFounded
<1>2. \A a, b \in Nat : a < b => <<a, b>> \in R
  BY DEF OpToRel
<1> HIDE DEF R
<1>3. PICK x \in I : \A y \in I : ~ (<<y, x>> \in R)
  BY <1>1, WFMin, Zenon
<1>4. \A y \in I : ~ (y < x)
  BY <1>2, <1>3, Zenon
<1>5. QED BY <1>4

LEMMA LeastClass == ASSUME NEW I \in SUBSET Nat, I # {} PROVE Min(I) \in I
<1>1. PICK x \in I : \A y \in I : x <= y
  BY LeastExists
<1>2. QED BY <1>1 DEF Min

LEMMA Bytes == \A v \in Int8 : v \in Int /\ 127 - v \in Nat
BY DEF Int8

LEMMA BestIsThere == ASSUME NEW probs \in Seq(Int8), probs # <<>>
                     PROVE  BestClass(probs) \in DOMAIN probs
<1> DEFINE Lacks == {127 - probs[k] : k \in DOMAIN probs}
<1>0. /\ DOMAIN probs = 1..Len(probs) /\ Len(probs) \in Nat /\ Len(probs) # 0
      /\ \A k \in DOMAIN probs : probs[k] \in Int8
  BY LenProperties, EmptySeq, ElementOfSeq
<1>1. /\ DOMAIN probs \subseteq Nat /\ DOMAIN probs # {}
      /\ \A k \in DOMAIN probs : probs[k] \in Int /\ 127 - probs[k] \in Nat
  <2>1. DOMAIN probs \subseteq Nat /\ 1 \in DOMAIN probs
    BY <1>0
  <2>2. QED BY <1>0, <2>1, Bytes
<1>2. Lacks \subseteq Nat /\ Lacks # {}
  BY <1>1
<1>3. PICK x \in Lacks : \A y \in Lacks : x <= y
  <2> HIDE DEF Lacks
  <2>1. QED BY <1>2, LeastExists
<1> DEFINE Most == {k \in DOMAIN probs : 127 - probs[k] = x}
<1>4. Most \subseteq Nat /\ Most # {}
  BY <1>1
<1>5. PICK first \in Most : \A k \in Most : first <= k
  <2> HIDE DEF Most
  <2>1. QED BY <1>4, LeastExists
<1>6. ASSUME NEW l \in DOMAIN probs
      PROVE  probs[l] < probs[first] \/ (probs[l] = probs[first] /\ first <= l)
  <2>1. x <= 127 - probs[l] /\ 127 - probs[first] = x
    BY <1>3
  <2>2. CASE x = 127 - probs[l]
    BY <1>1, <1>5, <2>1, <2>2
  <2>3. CASE x # 127 - probs[l]
    <3>1. probs[l] \in Int /\ probs[first] \in Int /\ x \in Int
      BY <1>1, <1>2
    <3>2. probs[l] < probs[first]
      BY <2>1, <2>3, <3>1
    <3>3. QED BY <3>2
  <2>4. QED BY <2>2, <2>3
<1>7. first \in DOMAIN probs
  OBVIOUS
<1>8. QED BY <1>6, <1>7, Zenon DEF BestClass

LEMMA DecodedType == ASSUME NEW k \in DOMAIN Cells, NEW o \in Outputs
                     PROVE  Decoded(Cells[k], o) \in Box
<1> DEFINE c == Cells[k]
           t == c.t
           ratio == Common \div Dens[t]
           best == BestClass(o.probs)
<1>1. t \in 1..3 /\ c.i \in Nat /\ c.j \in Nat /\ Anchors[t][c.a] \in Sizes
  <2>1. Cells \in Seq([t : 1..3, a : 1..3, i : Nat, j : Nat])
    BY PostProcessAssumption
  <2>2. c \in [t : 1..3, a : 1..3, i : Nat, j : Nat]
    BY <2>1, ElementOfSeq, LenProperties
  <2>3. QED BY <2>2, PostProcessAssumption
<1>2. /\ o.x \in Int /\ o.y \in Int /\ o.w \in Int /\ o.h \in Int /\ o.conf \in Int
      /\ o.probs \in Seq(Int8) /\ o.probs # <<>>
  BY PostProcessAssumption, Bytes
<1>3. best \in DOMAIN o.probs /\ best \in Nat /\ o.probs[best] \in Int
  <2>1. best \in DOMAIN o.probs
    BY <1>2, BestIsThere
  <2>2. DOMAIN o.probs \subseteq Nat /\ \A i \in DOMAIN o.probs : o.probs[i] \in Int8
    BY <1>2, LenProperties, ElementOfSeq
  <2>3. QED BY <2>1, <2>2, Bytes
<1>4. /\ Dens[t] \in Nat \ {0} /\ Common \in Nat \ {0} /\ Zps[t] \in Int
      /\ Anchors[t][c.a][1] \in Int /\ Anchors[t][c.a][2] \in Int
      /\ Stride[t] \in Int
  <2>1. Dens[t] \in Nat \ {0} /\ Common \in Nat \ {0} /\ Zps[t] \in Int8
    BY <1>1, PostProcessAssumption
  <2>2. Anchors[t][c.a][1] \in Int /\ Anchors[t][c.a][2] \in Int
    BY <1>1, PairOf
  <2>3. Stride[t] \in Int
    BY <1>1 DEF Stride
  <2>4. QED BY <2>1, <2>2, <2>3, Bytes
<1>5. ratio \in Int
  BY <1>4
<1> DEFINE q(v) == Dequantized(t, v)
           centre(v, at) == Stride[t] * (4 * q(v) * Common * ratio
                                         - Common * Common + 2 * at * Common * Common)
           extent(v, a) == 8 * q(v) * q(v) * ratio * ratio * Anchors[t][c.a][a]
           score == q(o.probs[best]) * q(o.conf) * ratio * ratio
<1>6. q(o.x) \in Int /\ q(o.y) \in Int /\ q(o.w) \in Int /\ q(o.h) \in Int /\ q(o.conf) \in Int
      /\ q(o.probs[best]) \in Int
  <2>1. \A v \in Int : q(v) \in Int
    BY <1>4 DEF Dequantized
  <2> HIDE DEF q, best
  <2>2. QED BY <1>2, <1>3, <2>1
<1> HIDE DEF q, ratio, c, t, best
<1>7. centre(o.x, c.j) \in Int /\ centre(o.y, c.i) \in Int
  <2>1. Common * Common \in Int /\ Common * ratio \in Int
    BY <1>4, <1>5
  <2>2. ASSUME NEW d \in Int, NEW at \in Int
        PROVE  Stride[t] * (4 * d * Common * ratio - Common * Common + 2 * at * Common * Common) \in Int
    <3>1. 4 * d * Common * ratio \in Int /\ 2 * at * Common * Common \in Int
      BY <1>4, <1>5
    <3>2. QED BY <1>4, <2>1, <3>1
  <2>3. QED BY <1>1, <1>6, <2>2
<1>8. extent(o.w, 1) \in Int /\ extent(o.h, 2) \in Int /\ score \in Int
  <2>1. ASSUME NEW d \in Int, NEW e \in Int, NEW a \in Int
        PROVE  8 * d * d * ratio * ratio * a \in Int /\ d * e * ratio * ratio \in Int
    BY <1>5
  <2>2. QED BY <1>4, <1>6, <2>1
<1>9. Decoded(Cells[k], o) = [left |-> centre(o.x, c.j) - extent(o.w, 1) \div 2, width |-> extent(o.w, 1),
                             top |-> centre(o.y, c.i) - extent(o.h, 2) \div 2, height |-> extent(o.h, 2),
                             class |-> best,
                             score |-> score]
  BY DEF Decoded, q, ratio, c, t, best
<1> HIDE DEF centre, extent, score
<1>10. QED BY <1>3, <1>7, <1>8, <1>9 DEF Box
-----------------------------------------------------------------------------
(* Post-processing: the inductive invariant. *)

(* Which arrays are in use at each stage, and where the call of the sort stands. *)
Shape ==
  /\ stage \in {"preprocess", "decode"} => ranked = <<>> /\ calls = <<>>
  /\ stage \notin {"preprocess", "decode"} => Len(ranked) = Len(boxes)
  /\ stage \in {"suppress", "collect", "done"} => calls = <<>>
  /\ stage \notin {"suppress", "collect", "done"} => gone = {}
  /\ stage \notin {"collect", "done"} => results = <<>>
  /\ stage \in {"sort", "down", "up", "suppress", "collect"} => boxes # <<>>
  /\ stage = "suppress" => classes # {}
  /\ stage = "done" => pos > Len(ranked)
  /\ stage \in {"down", "up"} =>
       /\ part.left \in Ranks /\ part.right \in Ranks
       /\ part.left <= part.low /\ part.low <= part.high /\ part.high <= part.right
  /\ \A k \in DOMAIN calls : calls[k][1] >= 1 /\ calls[k][2] <= Len(ranked)

Fitting == \A a \in 1..2 : AxisFits(frame, letterbox, a)

LEMMA FrameSize == TypeOK => frame \in Sizes /\ frame[1] \in Nat \ {0} /\ frame[2] \in Nat \ {0}
BY PostProcessAssumption, PairOf DEF TypeOK

LEMMA CoordInFrame ==
  ASSUME TypeOK, NEW a \in 1..2, NEW v \in Int, NEW unit \in Nat \ {0}
  PROVE  ConvertCoord(v, unit, a) \in 0..frame[a]
<1> DEFINE s == letterbox[a].scale
           n == Unpadded(v, unit, a) * s[2]
           d == unit * s[1]
           x == n \div d
<1>1. s \in Sizes /\ letterbox[a].pad \in Nat
  BY DEF TypeOK
<1>2. s[1] \in Nat \ {0} /\ s[2] \in Nat \ {0}
  BY <1>1, PairOf
<1>3. n \in Int /\ d \in Nat \ {0}
  <2> HIDE DEF s
  <2>1. QED BY <1>1, <1>2 DEF Unpadded, s
<1>4. x \in Int
  <2> HIDE DEF n, d
  <2>1. QED BY <1>3, DivBounds
<1>5. ConvertCoord(v, unit, a) = Max({0, Min({x, frame[a]})})
  BY DEF ConvertCoord, Scaled
<1>6. frame[a] \in Nat
  BY FrameSize
<1> HIDE DEF x
<1>7. Min({x, frame[a]}) \in Int /\ Min({x, frame[a]}) <= frame[a]
  BY <1>4, <1>6, MinOfTwo
<1>8. QED BY <1>5, <1>6, <1>7, MaxOfTwo

LEMMA ResultType == ASSUME TypeOK, Len(ranked) = Len(boxes), NEW i \in Ranks,
                           ranked[i].index \in DOMAIN boxes
                    PROVE  Result(i) \in Drawn /\ Result(i).prop = ranked[i].score
<1> DEFINE b == BoxAt(i)
<1>1. b \in Box /\ ranked[i] \in Entry
  BY ElementOfSeq, LenProperties DEF BoxAt, TypeOK, Ranks
<1>2. Unit \in Nat \ {0}
  BY PostProcessAssumption DEF Unit
<1>3. /\ b.class \in Nat /\ b.left \in Int /\ b.width \in Int /\ b.top \in Int /\ b.height \in Int
      /\ ranked[i].score \in Int
  BY <1>1 DEF Box, Entry
<1> HIDE DEF b
<1>4. b.left + b.width \in Int /\ b.top + b.height \in Int
  BY <1>3
<1>5. /\ ConvertCoord(b.left, Unit, 1) \in 0..frame[1]
      /\ ConvertCoord(b.left + b.width, Unit, 1) \in 0..frame[1]
      /\ ConvertCoord(b.top, Unit, 2) \in 0..frame[2]
      /\ ConvertCoord(b.top + b.height, Unit, 2) \in 0..frame[2]
  <2>1. ASSUME NEW v \in Int
        PROVE  ConvertCoord(v, Unit, 1) \in 0..frame[1] /\ ConvertCoord(v, Unit, 2) \in 0..frame[2]
    <3>1. 1 \in 1..2 /\ 2 \in 1..2
      OBVIOUS
    <3>2. QED BY <1>2, <2>1, <3>1, CoordInFrame, Zenon
  <2>2. QED BY <1>3, <1>4, <2>1, Zenon
<1>6. Result(i) = [class |-> b.class, prop |-> ranked[i].score,
                   left |-> ConvertCoord(b.left, Unit, 1), right |-> ConvertCoord(b.left + b.width, Unit, 1),
                   top |-> ConvertCoord(b.top, Unit, 2), bottom |-> ConvertCoord(b.top + b.height, Unit, 2)]
  BY DEF Result, b
<1>7. QED BY <1>3, <1>5, <1>6 DEF Drawn

LEMMA InitShape == Init => TypeOK /\ Shape /\ Fitting
<1> SUFFICES ASSUME Init PROVE TypeOK /\ Shape /\ Fitting
  OBVIOUS
<1> USE DEF Init
<1>1. frame \in Sizes /\ letterbox \in {ComputeLetterbox(frame), Stretched(frame)}
  BY PostProcessAssumption
<1>2. letterbox \in [1..2 -> [scale : Sizes, content : Nat, pad : Nat]] /\ Fitting
  BY <1>1, LetterboxType, LetterboxFits DEF Fitting
<1>3. DOMAIN output \subseteq DOMAIN Cells /\ \A k \in DOMAIN output : output[k] \in Outputs
  OBVIOUS
<1>4. NoEntry \in Entry
  BY DEF NoEntry, Entry
<1>5. TypeOK
  BY <1>2, <1>3, <1>4, EmptySeq DEF TypeOK
<1>6. Shape
  BY DEF Shape
<1>7. QED BY <1>2, <1>5, <1>6

(* The actions that leave the sort alone. *)
LEMMA RestStep ==
  ASSUME TypeOK, Shape, Fitting,
         Preprocess \/ Scan \/ Sorted \/ Suppress \/ NextClass \/ Return \/ UNCHANGED vars
  PROVE  TypeOK' /\ Shape' /\ Fitting'
<1> USE DEF vars, sortVars, nmsVars, Ranks
<1>1. CASE Preprocess
  <2>1. letterbox' \in {ComputeLetterbox(frame), Stretched(frame)} /\ frame' = frame
    BY <1>1 DEF Preprocess
  <2>2. letterbox' \in [1..2 -> [scale : Sizes, content : Nat, pad : Nat]]
    BY <2>1, FrameSize, LetterboxType
  <2>3. Fitting'
    BY <2>1, FrameSize, LetterboxFits DEF Fitting, AxisFits
  <2>4. TypeOK'
    BY <1>1, <2>2 DEF TypeOK, Preprocess, Drawn
  <2>5. Shape'
    BY <1>1 DEF Shape, Preprocess
  <2>6. QED BY <2>3, <2>4, <2>5
<1>2. CASE Scan
  <2>1. boxes' \in Seq(Box)
    <3>1. pos \in DOMAIN Cells
      BY <1>2, LenProperties, PostProcessAssumption DEF Scan, TypeOK
    <3>2. pos \in DOMAIN output => Decoded(Cells[pos], output[pos]) \in Box
      BY <3>1, DecodedType DEF TypeOK
    <3>3. QED BY <1>2, <3>2, AppendProperties DEF Scan, TypeOK
  <2>2. TypeOK'
    BY <1>2, <2>1 DEF TypeOK, Scan, Drawn
  <2>3. Shape' /\ Fitting'
    BY <1>2 DEF Shape, Fitting, AxisFits, Scan
  <2>4. QED BY <2>2, <2>3
<1>3. CASE Sorted
  <2>1. classes' \subseteq Nat
    <3>1. \A n \in DOMAIN boxes : boxes[n] \in Box
      BY LenProperties, ElementOfSeq DEF TypeOK
    <3>2. QED BY <1>3, <3>1 DEF Sorted, Box
  <2>2. TypeOK'
    BY <1>3, <2>1 DEF TypeOK, Sorted, Drawn
  <2>3. classes' # {}
    <3>1. 1 \in DOMAIN boxes
      BY <1>3, LenProperties, EmptySeq DEF Sorted, Shape, TypeOK
    <3>2. QED BY <1>3, <3>1 DEF Sorted
  <2>4. Shape' /\ Fitting'
    BY <1>3, <2>3 DEF Shape, Fitting, AxisFits, Sorted
  <2>5. QED BY <2>2, <2>4
<1>4. CASE Suppress
  <2>1. gone' \subseteq Ranks
    BY <1>4 DEF Suppress, SuppressedBy, TypeOK
  <2>2. TypeOK'
    BY <1>4, <2>1 DEF TypeOK, Suppress, Drawn
  <2>3. Shape' /\ Fitting'
    BY <1>4 DEF Shape, Fitting, AxisFits, Suppress
  <2>4. QED BY <2>2, <2>3
<1>5. CASE NextClass
  <2>1. classes' \subseteq Nat /\ stage' \in {"collect", "suppress"} /\ pos' = 1
    BY <1>5 DEF TypeOK, NextClass
  <2>2. TypeOK'
    BY <1>5, <2>1 DEF TypeOK, NextClass, Drawn
  <2>3. Shape' /\ Fitting'
    BY <1>5 DEF Shape, Fitting, AxisFits, NextClass
  <2>4. QED BY <2>2, <2>3
<1>6. CASE Return
  BY <1>6 DEF TypeOK, Shape, Fitting, AxisFits, Return, Drawn
<1>7. CASE UNCHANGED vars
  BY <1>7 DEF TypeOK, Shape, Fitting, AxisFits, Drawn
<1>8. QED BY <1>1, <1>2, <1>3, <1>4, <1>5, <1>6, <1>7
-----------------------------------------------------------------------------
(* The sort.  Filled is the array with the key put where the hole is: the steps of the
   loops swap two entries of it. *)
Hole == IF stage = "down" THEN part.low ELSE part.high
Filled == IF stage \in {"down", "up"} THEN [ranked EXCEPT ![Hole] = part.key] ELSE ranked

Ranking(s) == /\ \A i \in Ranks : s[i].index \in DOMAIN boxes /\ s[i].score = boxes[s[i].index].score
              /\ \A n \in DOMAIN boxes : \E i \in Ranks : s[i].index = n

\* In one range that is still to be sorted.
Together(i, j) == \/ \E k \in DOMAIN calls : calls[k][1] <= i /\ j <= calls[k][2]
                  \/ stage \in {"down", "up"} /\ part.left <= i /\ j <= part.right
InOrder(s) == \A i, j \in Ranks : i < j => s[i].score >= s[j].score \/ Together(i, j)

\* The ranges are disjoint, the next call's first.
Ascending == /\ \A k, m \in DOMAIN calls : k < m => calls[k][2] < calls[m][1]
             /\ stage \in {"down", "up"} => \A k \in DOMAIN calls : part.right < calls[k][1]

Parted == stage \in {"down", "up"} =>
            /\ \A k \in part.left..(part.low - 1) : ranked[k].score >= part.key.score
            /\ \A k \in (part.high + 1)..part.right : ranked[k].score <= part.key.score

SortInv == /\ Ascending /\ Parted
           /\ stage \notin {"preprocess", "decode"} => Ranking(Filled) /\ InOrder(Filled)

LEMMA RankType == ASSUME TypeOK
                  PROVE  /\ Ranks = 1..Len(ranked) /\ Len(ranked) \in Nat /\ DOMAIN calls = 1..Len(calls)
                         /\ Len(calls) \in Nat
                         /\ \A k \in Ranks : ranked[k] \in Entry /\ ranked[k].score \in Int
                         /\ \A k \in DOMAIN calls : calls[k][1] \in Nat /\ calls[k][2] \in Nat
<1>1. ranked \in Seq(Entry) /\ calls \in Seq(Nat \X Nat)
  BY DEF TypeOK
<1>2. /\ Ranks = 1..Len(ranked) /\ Len(ranked) \in Nat /\ DOMAIN calls = 1..Len(calls)
      /\ Len(calls) \in Nat
  BY <1>1, LenProperties DEF Ranks
<1>3. /\ \A k \in Ranks : ranked[k] \in Entry
      /\ \A k \in DOMAIN calls : calls[k] \in Nat \X Nat
  BY <1>1, <1>2, ElementOfSeq
<1>4. QED BY <1>2, <1>3 DEF Entry

(* Where a call stands. *)
LEMMA PartType == ASSUME TypeOK, Shape, stage \in {"down", "up"}
                  PROVE  /\ part.left \in Ranks /\ part.right \in Ranks
                         /\ part.low \in Ranks /\ part.high \in Ranks
                         /\ part.left <= part.low /\ part.low <= part.high /\ part.high <= part.right
                         /\ part.key \in Entry /\ part.key.score \in Int /\ Hole \in Ranks
<1>1. part \in [left : Nat, right : Nat, low : Nat, high : Nat, key : Entry]
  BY DEF TypeOK
<1>2. part.low \in Nat /\ part.high \in Nat /\ part.key \in Entry /\ part.key.score \in Int
  BY <1>1 DEF Entry
<1>3. /\ part.left \in Ranks /\ part.right \in Ranks
      /\ part.left <= part.low /\ part.low <= part.high /\ part.high <= part.right
  BY DEF Shape
<1>4. part.low \in Ranks /\ part.high \in Ranks
  BY <1>2, <1>3, RankType
<1>5. QED BY <1>2, <1>3, <1>4 DEF Hole

LEMMA FilledAt == ASSUME TypeOK, Shape, NEW k \in Ranks
                  PROVE  Filled[k] = IF stage \in {"down", "up"} /\ k = Hole THEN part.key ELSE ranked[k]
<1>1. CASE stage \in {"down", "up"}
  BY <1>1, RankType, ExceptSeq, PartType DEF Filled, TypeOK, Ranks
<1>2. CASE stage \notin {"down", "up"}
  BY <1>2 DEF Filled
<1>3. QED BY <1>1, <1>2

(* Swapping two entries of the range being sorted disturbs nothing outside. *)
LEMMA SwapKeeps ==
  ASSUME TypeOK, Shape, SortInv, stage \in {"down", "up"}, stage' \in {"down", "up"},
         UNCHANGED <<boxes, calls>>, Ranks' = Ranks, part'.left = part.left, part'.right = part.right,
         NEW a \in part.left..part.right, NEW b \in part.left..part.right,
         \A k \in Ranks : Filled'[k] = Filled[IF k = a THEN b ELSE IF k = b THEN a ELSE k]
  PROVE  Ascending' /\ Ranking(Filled)' /\ InOrder(Filled)'
<1> DEFINE p(k) == IF k = a THEN b ELSE IF k = b THEN a ELSE k
           left == part.left
           right == part.right
<1>1. /\ Ranks = 1..Len(ranked) /\ Len(ranked) \in Nat /\ left \in Ranks /\ right \in Ranks
      /\ \A k \in DOMAIN calls : calls[k][1] \in Nat /\ calls[k][2] \in Nat /\ right < calls[k][1]
  BY RankType, PartType DEF SortInv, Ascending
<1>2. Ranking(Filled) /\ InOrder(Filled)
  BY DEF SortInv
<1>3. \A k \in Ranks : p(k) \in Ranks /\ p(p(k)) = k /\ Filled'[k] = Filled[p(k)]
  BY <1>1
<1>4. \A i, j : Together(i, j)' <=> Together(i, j)
  BY DEF Together
<1>5. Ascending'
  BY DEF SortInv, Ascending
<1>6. Ranking(Filled)'
  <2> HIDE DEF p
  <2>1. ASSUME NEW i \in Ranks
        PROVE  Filled'[i].index \in DOMAIN boxes /\ Filled'[i].score = boxes[Filled'[i].index].score
    BY <1>2, <1>3 DEF Ranking
  <2>2. ASSUME NEW n \in DOMAIN boxes PROVE \E i \in Ranks : Filled'[i].index = n
    <3>1. PICK i \in Ranks : Filled[i].index = n
      BY <1>2 DEF Ranking
    <3>2. p(i) \in Ranks /\ Filled'[p(i)] = Filled[i]
      BY <1>3
    <3>3. QED BY <3>1, <3>2
  <2>3. QED BY <2>1, <2>2 DEF Ranking
<1>7. ASSUME NEW i \in Ranks, NEW j \in Ranks, i < j
      PROVE  Filled'[i].score >= Filled'[j].score \/ Together(i, j)
  <2> DEFINE Apart(m, n) == Filled[m].score >= Filled[n].score \/ Together(m, n)
  <2>1. Filled'[i] = Filled[p(i)] /\ Filled'[j] = Filled[p(j)] /\ p(i) \in Ranks /\ p(j) \in Ranks
    BY <1>3
  <2>2. \A m, n \in Ranks : m < n => Apart(m, n)
    BY <1>2 DEF InOrder
  <2>3. CASE left <= i /\ j <= right
    BY <2>3 DEF Together
  <2>4. CASE i < left
    <3>1. p(i) = i /\ i < p(j) /\ (p(j) = j \/ p(j) <= right)
      BY <1>1, <2>4, <1>7
    <3>2. Apart(i, p(j))
      BY <2>1, <2>2, <3>1
    <3>3. p(j) <= right => ~ Together(i, p(j)) \/ p(j) = j
      <4>1. CASE j <= right
        <5>1. ~ Together(i, p(j))
          BY <1>1, <2>4 DEF Together
        <5>2. QED BY <5>1
      <4>2. CASE ~(j <= right)
        BY <1>1, <4>2
      <4>3. QED BY <4>1, <4>2
    <3>4. QED BY <2>1, <3>1, <3>2, <3>3
  <2>5. CASE right < j
    <3>1. p(j) = j /\ p(i) < j /\ (p(i) = i \/ (left <= i /\ i <= right /\ p(i) <= right))
      BY <1>1, <2>5, <1>7
    <3>2. Apart(p(i), j)
      BY <2>1, <2>2, <3>1
    <3>3. p(i) <= right => ~ Together(p(i), j)
      BY <1>1, <2>1, <2>5 DEF Together
    <3>4. p(i) = i \/ ~ Together(p(i), j)
      BY <3>1, <3>3
    <3>5. QED BY <2>1, <3>1, <3>2, <3>4
  <2>6. QED BY <1>1, <2>3, <2>4, <2>5
<1>8. InOrder(Filled)'
  BY <1>4, <1>7 DEF InOrder
<1>9. QED BY <1>5, <1>6, <1>8

LEMMA ReadyStep == ASSUME TypeOK, Shape, Fitting, SortInv, Ready
                   PROVE  TypeOK' /\ Shape' /\ Fitting' /\ SortInv'
<1> USE DEF sortVars, nmsVars
<1>1. /\ boxes \in Seq(Box) /\ DOMAIN boxes = 1..Len(boxes) /\ Len(boxes) \in Nat
      /\ ranked = <<>> /\ calls = <<>> /\ gone = {} /\ results = <<>>
      /\ \A n \in DOMAIN boxes : boxes[n].score \in Int
  <2>1. boxes \in Seq(Box)
    BY DEF TypeOK
  <2>2. \A n \in DOMAIN boxes : boxes[n] \in Box
    BY <2>1, LenProperties, ElementOfSeq
  <2>3. QED BY <2>1, <2>2, LenProperties DEF Shape, Ready, Box
<1>2. CASE boxes = <<>>
  <2>1. stage' = "done" /\ UNCHANGED <<frame, letterbox, output, boxes, ranked, sortVars, nmsVars, pos, results>>
    BY <1>2 DEF Ready
  <2>2. Len(ranked) = 0 /\ Len(boxes) = 0 /\ DOMAIN calls = {} /\ Ranks = {} /\ DOMAIN boxes = {}
    <3>1. Len(ranked) = 0 /\ Len(boxes) = 0
      BY <1>1, <1>2, EmptySeq
    <3>2. QED BY <1>1, <1>2, <3>1, RankType
  <2>3. TypeOK' /\ Fitting'
    BY <2>1 DEF TypeOK, Drawn, Fitting, AxisFits, Ranks
  <2>4. Shape'
    <3>1. pos > 0
      BY DEF TypeOK
    <3>2. QED BY <1>1, <2>1, <2>2, <3>1 DEF Shape, Ranks
  <2>5. SortInv'
    BY <1>1, <2>1, <2>2 DEF SortInv, Ascending, Parted, Ranking, InOrder, Filled, Ranks
  <2>6. QED BY <2>3, <2>4, <2>5
<1>3. CASE boxes # <<>>
  <2>1. /\ ranked' = [n \in DOMAIN boxes |-> [score |-> boxes[n].score, index |-> n]]
        /\ calls' = << <<1, Len(boxes)>> >> /\ stage' = "sort"
        /\ UNCHANGED <<frame, letterbox, output, boxes, part, gone, classes, pos, results>>
    BY <1>3 DEF Ready
  <2>2. ranked' \in Seq(Entry) /\ Len(ranked') = Len(boxes) /\ Ranks' = 1..Len(boxes)
    <3>1. \A n \in 1..Len(boxes) : [score |-> boxes[n].score, index |-> n] \in Entry
      BY <1>1 DEF Entry
    <3>2. ranked' \in [1..Len(boxes) -> Entry]
      BY <1>1, <2>1, <3>1
    <3>3. ranked' \in Seq(Entry)
      BY <1>1, <3>2
    <3>4. DOMAIN ranked' = 1..Len(ranked') /\ Len(ranked') \in Nat
      BY <3>3, LenProperties
    <3>5. QED BY <1>1, <3>2, <3>3, <3>4 DEF Ranks
  <2>3. /\ calls' \in Seq(Nat \X Nat) /\ DOMAIN calls' = {1}
        /\ calls'[1][1] = 1 /\ calls'[1][2] = Len(boxes)
    <3>1. <<1, Len(boxes)>> \in Nat \X Nat
      BY <1>1
    <3>2. QED BY <1>1, <2>1, <3>1
  <2>4. TypeOK' /\ Fitting'
    <3>1. gone' \subseteq Ranks'
      BY <1>1, <2>1
    <3>2. QED BY <2>1, <2>2, <2>3, <3>1 DEF TypeOK, Drawn, Fitting, AxisFits
  <2>5. Shape'
    BY <1>1, <1>3, <2>1, <2>2, <2>3 DEF Shape
  <2>6. Ascending' /\ Parted'
    BY <2>1, <2>3 DEF Ascending, Parted
  <2>7. Filled' = ranked'
    BY <2>1 DEF Filled
  <2>8. Ranking(Filled)' /\ InOrder(Filled)'
    <3>1. Ranking(Filled)'
      BY <1>1, <2>1, <2>2, <2>7 DEF Ranking
    <3>2. \A i, j \in Ranks' : Together(i, j)'
      BY <2>2, <2>3 DEF Together
    <3>3. QED BY <3>1, <3>2 DEF InOrder
  <2>9. QED BY <2>4, <2>5, <2>6, <2>8 DEF SortInv
<1>4. QED BY <1>2, <1>3

LEMMA CallStep == ASSUME TypeOK, Shape, Fitting, SortInv, Call
                  PROVE  TypeOK' /\ Shape' /\ Fitting' /\ SortInv'
<1> DEFINE left == calls[1][1]
           right == calls[1][2]
<1> USE DEF nmsVars
<1>1. /\ stage = "sort" /\ UNCHANGED <<frame, letterbox, output, boxes, ranked, gone, classes, pos, results>>
      /\ Ranks' = Ranks
  BY DEF Call, Ranks
<1>2. /\ calls' \in Seq(Nat \X Nat) /\ Len(calls') = Len(calls) - 1 /\ Len(calls) \in Nat
      /\ DOMAIN calls = 1..Len(calls) /\ DOMAIN calls' = 1..Len(calls') /\ Len(calls) # 0
      /\ \A k \in DOMAIN calls' : calls'[k] = calls[k + 1] /\ k + 1 \in DOMAIN calls
  <2>1. calls \in Seq(Nat \X Nat) /\ calls # <<>> /\ calls' = Tail(calls)
    BY DEF Call, TypeOK
  <2>2. /\ calls' \in Seq(Nat \X Nat) /\ Len(calls') = Len(calls) - 1
        /\ \A k \in 1..Len(calls') : calls'[k] = calls[k + 1]
    BY <2>1, HeadTailProperties
  <2>3. Len(calls) \in Nat \ {0}
    BY <2>1, EmptySeq
  <2>4. DOMAIN calls = 1..Len(calls) /\ DOMAIN calls' = 1..Len(calls')
    BY <2>1, <2>2, LenProperties
  <2>5. QED BY <2>2, <2>3, <2>4
<1>3. /\ left \in Nat /\ right \in Nat /\ left >= 1 /\ right <= Len(ranked) /\ Len(ranked) \in Nat
      /\ Ranks = 1..Len(ranked) /\ \A k \in DOMAIN calls : calls[k][1] \in Nat /\ calls[k][2] \in Nat
  BY <1>2, RankType DEF Shape
<1>4. /\ \A k, m \in DOMAIN calls' : k < m => calls'[k][2] < calls'[m][1]
      /\ \A k \in DOMAIN calls' : right < calls'[k][1]
      /\ \A k \in DOMAIN calls' : calls'[k][1] >= 1 /\ calls'[k][2] <= Len(ranked)
  <2> DEFINE rest == calls'
  <2>1. \A k, m \in DOMAIN calls : k < m => calls[k][2] < calls[m][1]
    BY DEF SortInv, Ascending
  <2>2. \A k \in DOMAIN calls : calls[k][1] >= 1 /\ calls[k][2] <= Len(ranked)
    BY DEF Shape
  <2>3. \A k \in DOMAIN rest : rest[k] = calls[k + 1] /\ k + 1 \in DOMAIN calls /\ k \in Nat /\ k > 0
    BY <1>2
  <2>4. 1 \in DOMAIN calls
    BY <1>2
  <2> HIDE DEF rest
  <2>5. \A k, m \in DOMAIN rest : k < m => rest[k][2] < rest[m][1]
    BY <2>1, <2>3
  <2>6. \A k \in DOMAIN rest : right < rest[k][1]
    BY <2>1, <2>3, <2>4
  <2>7. QED BY <2>2, <2>3, <2>5, <2>6 DEF rest
<1>5. \A i, j \in Ranks : Together(i, j) => \/ left <= i /\ j <= right
                                            \/ \E k \in DOMAIN calls' : calls'[k][1] <= i /\ j <= calls'[k][2]
  <2> SUFFICES ASSUME NEW i \in Ranks, NEW j \in Ranks, NEW k \in DOMAIN calls,
                      calls[k][1] <= i /\ j <= calls[k][2], k # 1
               PROVE  \E m \in DOMAIN calls' : calls'[m][1] <= i /\ j <= calls'[m][2]
    BY <1>1 DEF Together
  <2>1. k - 1 \in DOMAIN calls' /\ calls'[k - 1] = calls[k]
    BY <1>2
  <2>2. QED BY <2>1
<1>6. Ranking(Filled) /\ InOrder(Filled) /\ Filled = ranked
  BY <1>1 DEF SortInv, Filled
<1>7. left < right => /\ part' = [left |-> left, right |-> right, low |-> left, high |-> right,
                                  key |-> ranked[left]]
                      /\ stage' = "down"
  BY DEF Call
<1>8. ~(left < right) => UNCHANGED <<stage, part>>
  BY DEF Call
<1> HIDE DEF left, right
<1>9. CASE left < right
  <2>1. left \in Ranks /\ right \in Ranks /\ ranked[left] \in Entry
    BY <1>3, <1>9, RankType
  <2>2. part' \in [left : Nat, right : Nat, low : Nat, high : Nat, key : Entry]
    BY <1>3, <1>7, <1>9, <2>1
  <2>3. TypeOK' /\ Fitting'
    BY <1>1, <1>2, <1>7, <1>9, <2>2 DEF TypeOK, Drawn, Fitting, AxisFits
  <2>4. Shape'
    BY <1>1, <1>3, <1>4, <1>7, <1>9, <2>1 DEF Shape
  <2>5. Ascending'
    BY <1>4, <1>7, <1>9 DEF Ascending
  <2>6. Parted'
    BY <1>3, <1>7, <1>9 DEF Parted
  <2>7. Filled' = ranked
    <3>1. ranked \in [Ranks -> Entry]
      BY <1>3, LenProperties DEF TypeOK
    <3>2. stage' = "down" /\ part'.low = left /\ part'.key = ranked[left] /\ ranked' = ranked
      BY <1>1, <1>7, <1>9
    <3>3. Filled' = [ranked EXCEPT ![left] = ranked[left]]
      BY <3>2 DEF Filled, Hole
    <3>4. QED BY <2>1, <3>1, <3>3
  <2>8. Ranking(Filled)'
    BY <1>1, <1>6, <2>7 DEF Ranking
  <2>9. \A i, j \in Ranks : Together(i, j) => Together(i, j)'
    <3>1. \A i, j \in Ranks : Together(i, j)' <=> \/ left <= i /\ j <= right
                                                  \/ \E k \in DOMAIN calls' : calls'[k][1] <= i /\ j <= calls'[k][2]
      BY <1>7, <1>9 DEF Together
    <3>2. QED BY <1>5, <3>1
  <2>10. InOrder(Filled)'
    BY <1>1, <1>6, <2>7, <2>9 DEF InOrder
  <2>11. QED BY <2>3, <2>4, <2>5, <2>6, <2>8, <2>10 DEF SortInv
<1>10. CASE ~(left < right)
  <2>1. stage' = "sort" /\ part' = part
    BY <1>1, <1>8, <1>10
  <2>2. TypeOK' /\ Fitting'
    BY <1>1, <1>2, <2>1 DEF TypeOK, Drawn, Fitting, AxisFits
  <2>3. Shape'
    BY <1>1, <1>4, <2>1 DEF Shape
  <2>4. Ascending' /\ Parted'
    BY <1>4, <2>1 DEF Ascending, Parted
  <2>5. Filled' = ranked
    BY <1>1, <2>1 DEF Filled
  <2>6. Ranking(Filled)'
    BY <1>1, <1>6, <2>5 DEF Ranking
  <2>7. \A i, j \in Ranks : i < j /\ Together(i, j) => Together(i, j)'
    <3> SUFFICES ASSUME NEW i \in Ranks, NEW j \in Ranks, i < j, Together(i, j) PROVE Together(i, j)'
      OBVIOUS
    <3>1. ~(left <= i /\ j <= right)
      BY <1>3, <1>10
    <3>2. QED BY <1>5, <3>1 DEF Together
  <2>8. InOrder(Filled)'
    BY <1>1, <1>6, <2>5, <2>7 DEF InOrder
  <2>9. QED BY <2>2, <2>3, <2>4, <2>6, <2>8 DEF SortInv
<1>11. QED BY <1>9, <1>10

(* What the two loops have in common: an entry moved, the hole where it was. *)
LEMMA MovedType == ASSUME TypeOK, NEW to \in Ranks, NEW from \in Ranks, ranked' = Moved(to, from)
                   PROVE  /\ ranked' \in Seq(Entry) /\ Len(ranked') = Len(ranked) /\ Ranks' = Ranks
                          /\ \A k \in Ranks : ranked'[k] = IF k = to THEN ranked[from] ELSE ranked[k]
<1>1. ranked \in Seq(Entry) /\ ranked[from] \in Entry /\ Ranks = 1..Len(ranked)
  BY RankType DEF TypeOK
<1>2. /\ ranked' \in Seq(Entry) /\ Len(ranked') = Len(ranked)
      /\ \A k \in 1..Len(ranked) : ranked'[k] = IF k = to THEN ranked[from] ELSE ranked[k]
  BY <1>1, ExceptSeq DEF Moved
<1>3. Ranks' = 1..Len(ranked')
  BY <1>2, LenProperties DEF Ranks
<1>4. QED BY <1>1, <1>2, <1>3

LEMMA DownStep == ASSUME TypeOK, Shape, Fitting, SortInv, Down
                  PROVE  TypeOK' /\ Shape' /\ Fitting' /\ SortInv'
<1> DEFINE low == part.low
           key == part.key
<1>1. /\ stage = "down" /\ stage' = "up" /\ low < part.high
      /\ UNCHANGED <<frame, letterbox, output, boxes, calls, gone, classes, pos, results>>
  BY DEF Down, Sorting, nmsVars
<1>2. PICK h \in low..part.high :
        /\ \A k \in (h + 1)..part.high : ranked[k].score <= key.score
        /\ h = low \/ ranked[h].score > key.score
        /\ ranked' = Moved(low, h)
        /\ part' = [part EXCEPT !.high = h]
  BY DEF Down
<1>3. /\ part \in [left : Nat, right : Nat, low : Nat, high : Nat, key : Entry]
      /\ part.left \in Ranks /\ part.right \in Ranks /\ low \in Ranks /\ part.high \in Ranks
      /\ part.left <= low /\ low <= part.high /\ part.high <= part.right
      /\ Ranks = 1..Len(ranked) /\ Len(ranked) \in Nat /\ Hole = low
      /\ \A k \in Ranks : ranked[k].score \in Int /\ key.score \in Int
  BY <1>1, PartType, RankType DEF TypeOK, Hole
<1>4. h \in Ranks /\ h \in Nat
  BY <1>3
<1>5. /\ part'.left = part.left /\ part'.right = part.right /\ part'.low = low /\ part'.high = h
      /\ part'.key = key
      /\ part' \in [left : Nat, right : Nat, low : Nat, high : Nat, key : Entry]
  BY <1>2, <1>3, <1>4
<1>6. /\ ranked' \in Seq(Entry) /\ Len(ranked') = Len(ranked) /\ Ranks' = Ranks
      /\ \A k \in Ranks : ranked'[k] = IF k = low THEN ranked[h] ELSE ranked[k]
  BY <1>2, <1>3, <1>4, MovedType
<1> HIDE DEF low, key
<1>7. TypeOK' /\ Fitting'
  BY <1>1, <1>5, <1>6 DEF TypeOK, Drawn, Fitting, AxisFits
<1>8. Shape'
  <2>1. h \in low..part.high
    OBVIOUS
  <2>2. /\ part'.left \in Ranks' /\ part'.right \in Ranks' /\ part'.left <= part'.low
        /\ part'.low <= part'.high /\ part'.high <= part'.right
    BY <1>3, <1>5, <1>6, <2>1
  <2>3. QED BY <1>1, <1>6, <2>2 DEF Shape
<1>9. \A k \in Ranks : Filled'[k] = Filled[IF k = low THEN h ELSE IF k = h THEN low ELSE k]
  <2>1. \A k \in Ranks : Filled[k] = IF k = low THEN key ELSE ranked[k]
    BY <1>1, <1>3, FilledAt DEF key
  <2>2. \A k \in Ranks : Filled'[k] = IF k = h THEN key ELSE ranked'[k]
    <3>1. Hole' = h /\ stage' \in {"down", "up"}
      BY <1>1, <1>5 DEF Hole
    <3>2. Filled' = [ranked' EXCEPT ![h] = key]
      BY <1>1, <1>5 DEF Filled, Hole
    <3>3. QED BY <1>4, <1>6, <3>2, ExceptSeq, <1>3
  <2>3. QED BY <1>3, <1>4, <1>6, <2>1, <2>2
<1>10. Ascending' /\ Ranking(Filled)' /\ InOrder(Filled)'
  <2>1. low \in part.left..part.right /\ h \in part.left..part.right
    BY <1>3, <1>4
  <2>2. stage \in {"down", "up"} /\ stage' \in {"down", "up"}
    BY <1>1
  <2>3. QED BY <1>1, <1>5, <1>6, <1>9, <2>1, <2>2, SwapKeeps
<1>11. Parted'
  <2>1. ASSUME NEW k \in part.left..(low - 1) PROVE ranked'[k].score >= key.score
    <3>1. k \in Ranks /\ k # low
      BY <1>3
    <3>2. ranked[k].score >= key.score
      BY <1>1 DEF SortInv, Parted, low, key
    <3>3. QED BY <1>6, <3>1, <3>2
  <2>2. ASSUME NEW k \in (h + 1)..part.right PROVE ranked'[k].score <= key.score
    <3>1. k \in Ranks /\ k # low
      BY <1>3, <1>4
    <3>2. ranked[k].score <= key.score
      <4>1. CASE k <= part.high
        BY <1>2, <1>3, <1>4, <4>1
      <4>2. CASE ~(k <= part.high)
        <5>1. k \in (part.high + 1)..part.right
          BY <1>3, <1>4, <4>2
        <5>2. QED BY <1>1, <5>1 DEF SortInv, Parted, key
      <4>3. QED BY <4>1, <4>2
    <3>3. QED BY <1>6, <3>1, <3>2
  <2>3. QED BY <1>5, <2>1, <2>2 DEF Parted
<1>12. QED BY <1>1, <1>7, <1>8, <1>10, <1>11 DEF SortInv

LEMMA UpStep == ASSUME TypeOK, Shape, Fitting, SortInv, Up
                PROVE  TypeOK' /\ Shape' /\ Fitting' /\ SortInv'
<1> DEFINE high == part.high
           key == part.key
<1>1. /\ stage = "up" /\ stage' = "down"
      /\ UNCHANGED <<frame, letterbox, output, boxes, calls, gone, classes, pos, results>>
  BY DEF Up, Sorting, nmsVars
<1>2. PICK l \in part.low..high :
        /\ \A k \in part.low..(l - 1) : ranked[k].score >= key.score
        /\ l = high \/ ranked[l].score < key.score
        /\ ranked' = Moved(high, l)
        /\ part' = [part EXCEPT !.low = l]
  BY DEF Up
<1>3. /\ part \in [left : Nat, right : Nat, low : Nat, high : Nat, key : Entry]
      /\ part.left \in Ranks /\ part.right \in Ranks /\ part.low \in Ranks /\ high \in Ranks
      /\ part.left <= part.low /\ part.low <= high /\ high <= part.right
      /\ Ranks = 1..Len(ranked) /\ Len(ranked) \in Nat /\ Hole = high
      /\ \A k \in Ranks : ranked[k].score \in Int /\ key.score \in Int
  BY <1>1, PartType, RankType DEF TypeOK, Hole
<1>4. l \in Ranks /\ l \in Nat
  BY <1>3
<1>5. /\ part'.left = part.left /\ part'.right = part.right /\ part'.low = l /\ part'.high = high
      /\ part'.key = key
      /\ part' \in [left : Nat, right : Nat, low : Nat, high : Nat, key : Entry]
  BY <1>2, <1>3, <1>4
<1>6. /\ ranked' \in Seq(Entry) /\ Len(ranked') = Len(ranked) /\ Ranks' = Ranks
      /\ \A k \in Ranks : ranked'[k] = IF k = high THEN ranked[l] ELSE ranked[k]
  BY <1>2, <1>3, <1>4, MovedType
<1> HIDE DEF high, key
<1>7. TypeOK' /\ Fitting'
  BY <1>1, <1>5, <1>6 DEF TypeOK, Drawn, Fitting, AxisFits
<1>8. Shape'
  <2>1. l \in part.low..high
    OBVIOUS
  <2>2. /\ part'.left \in Ranks' /\ part'.right \in Ranks' /\ part'.left <= part'.low
        /\ part'.low <= part'.high /\ part'.high <= part'.right
    BY <1>3, <1>5, <1>6, <2>1
  <2>3. QED BY <1>1, <1>6, <2>2 DEF Shape
<1>9. \A k \in Ranks : Filled'[k] = Filled[IF k = high THEN l ELSE IF k = l THEN high ELSE k]
  <2>1. \A k \in Ranks : Filled[k] = IF k = high THEN key ELSE ranked[k]
    BY <1>1, <1>3, FilledAt DEF key
  <2>2. \A k \in Ranks : Filled'[k] = IF k = l THEN key ELSE ranked'[k]
    <3>1. Filled' = [ranked' EXCEPT ![l] = key]
      BY <1>1, <1>5 DEF Filled, Hole
    <3>2. QED BY <1>4, <1>6, <3>1, ExceptSeq, <1>3
  <2>3. QED BY <1>3, <1>4, <1>6, <2>1, <2>2
<1>10. Ascending' /\ Ranking(Filled)' /\ InOrder(Filled)'
  <2>1. high \in part.left..part.right /\ l \in part.left..part.right
    BY <1>3, <1>4
  <2>2. stage \in {"down", "up"} /\ stage' \in {"down", "up"}
    BY <1>1
  <2>3. QED BY <1>1, <1>5, <1>6, <1>9, <2>1, <2>2, SwapKeeps
<1>11. Parted'
  <2>1. ASSUME NEW k \in part.left..(l - 1) PROVE ranked'[k].score >= key.score
    <3>1. k \in Ranks /\ k # high
      BY <1>3, <1>4
    <3>2. ranked[k].score >= key.score
      <4>1. CASE k >= part.low
        BY <1>2, <1>3, <1>4, <4>1
      <4>2. CASE ~(k >= part.low)
        <5>1. k \in part.left..(part.low - 1)
          BY <1>3, <1>4, <4>2
        <5>2. QED BY <1>1, <5>1 DEF SortInv, Parted, key
      <4>3. QED BY <4>1, <4>2
    <3>3. QED BY <1>6, <3>1, <3>2
  <2>2. ASSUME NEW k \in (high + 1)..part.right PROVE ranked'[k].score <= key.score
    <3>1. k \in Ranks /\ k # high
      BY <1>3
    <3>2. ranked[k].score <= key.score
      BY <1>1 DEF SortInv, Parted, high, key
    <3>3. QED BY <1>6, <3>1, <3>2
  <2>3. QED BY <1>5, <2>1, <2>2 DEF Parted
<1>12. QED BY <1>1, <1>7, <1>8, <1>10, <1>11 DEF SortInv

LEMMA PlaceStep == ASSUME TypeOK, Shape, Fitting, SortInv, Place
                   PROVE  TypeOK' /\ Shape' /\ Fitting' /\ SortInv'
<1> DEFINE at == part.low
           key == part.key
           left == part.left
           right == part.right
           two == << <<left, at - 1>>, <<at + 1, right>> >>
           rest == calls'
<1>1. /\ stage = "down" /\ stage' = "sort" /\ at >= part.high
      /\ ranked' = [ranked EXCEPT ![at] = key] /\ calls' = two \o calls
      /\ UNCHANGED <<frame, letterbox, output, boxes, part, gone, classes, pos, results>>
  BY DEF Place, nmsVars
<1>2. /\ left \in Ranks /\ right \in Ranks /\ at \in Ranks /\ key \in Entry
      /\ left <= at /\ at = part.high /\ at <= right
      /\ Ranks = 1..Len(ranked) /\ Len(ranked) \in Nat /\ Hole = at
      /\ \A k \in Ranks : ranked[k].score \in Int /\ key.score \in Int
  BY <1>1, PartType, RankType DEF Hole
<1>3. ranked' \in Seq(Entry) /\ Len(ranked') = Len(ranked) /\ Ranks' = Ranks
  <2>1. ranked \in Seq(Entry)
    BY DEF TypeOK
  <2>2. ranked' \in Seq(Entry) /\ Len(ranked') = Len(ranked)
    BY <1>1, <1>2, <2>1, ExceptSeq
  <2>3. Ranks' = 1..Len(ranked')
    BY <2>2, LenProperties DEF Ranks
  <2>4. QED BY <1>2, <2>2, <2>3
<1>4. /\ rest \in Seq(Nat \X Nat) /\ Len(rest) = Len(calls) + 2 /\ Len(calls) \in Nat
      /\ DOMAIN calls = 1..Len(calls) /\ DOMAIN rest = 1..Len(rest)
      /\ rest[1] = <<left, at - 1>> /\ rest[2] = <<at + 1, right>>
      /\ \A k \in DOMAIN rest : k > 2 => rest[k] = calls[k - 2]
  <2>1. two \in Seq(Nat \X Nat) /\ Len(two) = 2 /\ calls \in Seq(Nat \X Nat)
    <3>1. <<left, at - 1>> \in Nat \X Nat /\ <<at + 1, right>> \in Nat \X Nat
      BY <1>2
    <3> HIDE DEF at, left, right
    <3>2. QED BY <3>1 DEF TypeOK
  <2>2. Len(calls) \in Nat /\ DOMAIN calls = 1..Len(calls)
    BY <2>1, LenProperties
  <2>3. /\ rest \in Seq(Nat \X Nat) /\ Len(rest) = 2 + Len(calls)
        /\ \A i \in 1..(2 + Len(calls)) : rest[i] = IF i <= 2 THEN two[i] ELSE calls[i - 2]
    BY <1>1, <2>1, ConcatProperties
  <2>4. DOMAIN rest = 1..Len(rest)
    BY <2>3, LenProperties
  <2> HIDE DEF rest
  <2>5. 1 \in 1..(2 + Len(calls)) /\ 2 \in 1..(2 + Len(calls))
    BY <2>2
  <2>6. rest[1] = <<left, at - 1>> /\ rest[2] = <<at + 1, right>>
    BY <2>3, <2>5
  <2>7. QED BY <2>2, <2>3, <2>4, <2>6
<1>5. Filled' = ranked' /\ Filled = ranked'
  BY <1>1, <1>2 DEF Filled
<1>6. Ranking(Filled) /\ InOrder(Filled)
  BY <1>1 DEF SortInv
<1>7. \A k \in DOMAIN calls : right < calls[k][1] /\ calls[k][1] >= 1 /\ calls[k][2] <= Len(ranked)
  BY <1>1 DEF SortInv, Ascending, Shape
<1>8. \A k, m \in DOMAIN calls : k < m => calls[k][2] < calls[m][1]
  BY DEF SortInv, Ascending
<1>9. /\ \A k \in left..(at - 1) : ranked'[k].score >= key.score
      /\ \A k \in (at + 1)..right : ranked'[k].score <= key.score
      /\ ranked'[at] = key
  <2>1. /\ \A k \in left..(at - 1) : ranked[k].score >= key.score
        /\ \A k \in (at + 1)..right : ranked[k].score <= key.score
    BY <1>1, <1>2 DEF SortInv, Parted
  <2>2. \A k \in Ranks : ranked'[k] = IF k = at THEN key ELSE ranked[k]
    <3>1. ranked \in Seq(Entry)
      BY DEF TypeOK
    <3>2. QED BY <1>1, <1>2, <3>1, ExceptSeq
  <2> HIDE DEF at, left, right, key
  <2>3. /\ \A k \in left..(at - 1) : k \in Ranks /\ k # at
        /\ \A k \in (at + 1)..right : k \in Ranks /\ k # at
    BY <1>2
  <2>4. QED BY <1>2, <2>1, <2>2, <2>3
<1>10. \A i \in DOMAIN rest : rest[i][1] >= 1 /\ rest[i][2] <= Len(ranked)
  <2> HIDE DEF rest, at, left, right
  <2>1. ASSUME NEW i \in DOMAIN rest, i > 2 PROVE rest[i][1] >= 1 /\ rest[i][2] <= Len(ranked)
    <3>1. i - 2 \in DOMAIN calls
      BY <1>4, <2>1
    <3>2. QED BY <1>4, <1>7, <2>1, <3>1
  <2>2. /\ rest[1][1] = left /\ rest[1][2] = at - 1 /\ rest[2][1] = at + 1 /\ rest[2][2] = right
    BY <1>4
  <2>3. QED BY <1>2, <1>4, <2>1, <2>2
<1>11. \A k, m \in DOMAIN rest : k < m => rest[k][2] < rest[m][1]
  <2> HIDE DEF rest, at, left, right
  <2>1. /\ rest[1][2] = at - 1 /\ rest[2][1] = at + 1 /\ rest[2][2] = right
    BY <1>4
  <2>2. ASSUME NEW m \in DOMAIN rest, m > 2 PROVE right < rest[m][1] /\ m - 2 \in DOMAIN calls
    <3>1. m - 2 \in DOMAIN calls
      BY <1>4, <2>2
    <3>2. QED BY <1>4, <1>7, <2>2, <3>1
  <2> SUFFICES ASSUME NEW k \in DOMAIN rest, NEW m \in DOMAIN rest, k < m PROVE rest[k][2] < rest[m][1]
    OBVIOUS
  <2>3. k \in Nat /\ m \in Nat /\ k >= 1
    BY <1>4
  <2>4. CASE k > 2
    <3>1. k > 2 /\ m > 2
      BY <2>3, <2>4
    <3>2. k - 2 \in DOMAIN calls /\ m - 2 \in DOMAIN calls
      BY <2>2, <3>1
    <3>3. rest[k] = calls[k - 2] /\ rest[m] = calls[m - 2]
      BY <1>4, <3>1
    <3>4. k - 2 < m - 2
      BY <2>3
    <3>5. QED BY <1>8, <3>2, <3>3, <3>4
  <2>5. CASE m > 2 /\ ~(k > 2)
    <3>1. right < rest[m][1] /\ rest[k][2] <= right /\ rest[m][1] \in Int
      <4>1. k = 1 \/ k = 2
        BY <2>3, <2>5
      <4>2. rest[m] = calls[m - 2] /\ m - 2 \in DOMAIN calls
        BY <1>4, <2>2, <2>5
      <4>3. rest[m][1] \in Int
        BY <4>2, RankType
      <4>4. rest[k][2] <= right
        BY <1>2, <2>1, <4>1
      <4>5. QED BY <2>2, <2>5, <4>3, <4>4
    <3>2. rest[k][2] \in Int
      BY <1>2, <2>1, <2>3, <2>5
    <3>3. QED BY <1>2, <3>1, <3>2
  <2>6. CASE ~(m > 2)
    <3>1. k = 1 /\ m = 2
      BY <2>3, <2>6
    <3>2. QED BY <1>2, <2>1, <3>1
  <2>7. QED BY <2>3, <2>4, <2>5, <2>6
<1>12. TypeOK' /\ Fitting'
  BY <1>1, <1>3, <1>4 DEF TypeOK, Drawn, Fitting, AxisFits
<1>13. Shape'
  BY <1>1, <1>3, <1>10 DEF Shape
<1>14. Ascending' /\ Parted'
  BY <1>1, <1>11 DEF Ascending, Parted
<1>15. Ranking(Filled)'
  BY <1>1, <1>3, <1>5, <1>6 DEF Ranking
<1> HIDE DEF at, left, right, key
<1>16. ASSUME NEW i \in Ranks, NEW j \in Ranks, i < j, Together(i, j)
       PROVE  ranked'[i].score >= ranked'[j].score \/ Together(i, j)'
  <2>1. CASE \E k \in DOMAIN calls : calls[k][1] <= i /\ j <= calls[k][2]
    <3>1. PICK k \in DOMAIN calls : calls[k][1] <= i /\ j <= calls[k][2]
      BY <2>1
    <3>2. k + 2 \in DOMAIN rest /\ rest[k + 2] = calls[k]
      <4> HIDE DEF rest
      <4>1. k \in Nat /\ k >= 1 /\ k + 2 \in DOMAIN rest /\ k + 2 > 2 /\ (k + 2) - 2 = k
        BY <1>4
      <4>2. rest[k + 2] = calls[(k + 2) - 2]
        BY <1>4, <4>1
      <4>3. QED BY <4>1, <4>2
    <3>3. rest[k + 2][1] <= i /\ j <= rest[k + 2][2]
      BY <3>1, <3>2
    <3>4. QED BY <3>2, <3>3 DEF Together
  <2>2. CASE left <= i /\ j <= right
    <3>1. CASE j < at
      <4>1. 1 \in DOMAIN rest /\ rest[1][1] <= i /\ j <= rest[1][2]
        BY <1>2, <1>4, <2>2, <3>1
      <4>2. QED BY <4>1 DEF Together
    <3>2. CASE at < i
      <4>1. 2 \in DOMAIN rest /\ rest[2][1] <= i /\ j <= rest[2][2]
        BY <1>2, <1>4, <2>2, <3>2
      <4>2. QED BY <4>1 DEF Together
    <3>3. CASE i <= at /\ at <= j
      <4>1. ranked'[i].score \in Int /\ ranked'[j].score \in Int
        <5>1. ranked'[i] \in Entry /\ ranked'[j] \in Entry
          BY <1>2, <1>3, ElementOfSeq
        <5>2. QED BY <5>1 DEF Entry
      <4>2. ranked'[i].score >= key.score /\ key.score >= ranked'[j].score
        BY <1>2, <1>9, <1>16, <2>2, <3>3
      <4>3. QED BY <1>2, <4>1, <4>2
    <3>4. QED BY <1>2, <3>1, <3>2, <3>3
  <2>3. QED BY <1>16, <2>1, <2>2 DEF Together, left, right
<1>17. InOrder(Filled)'
  BY <1>3, <1>5, <1>6, <1>16 DEF InOrder
<1>18. QED BY <1>12, <1>13, <1>14, <1>15, <1>17 DEF SortInv

(* The other actions leave the sort as it is. *)
LEMMA SortStays ==
  ASSUME TypeOK, Shape, SortInv,
         Preprocess \/ Scan \/ Sorted \/ Suppress \/ NextClass \/ Collect \/ Return \/ UNCHANGED vars
  PROVE  SortInv'
<1>1. CASE stage' \in {"preprocess", "decode"}
  <2>1. calls' = calls
    BY DEF Preprocess, Scan, Sorted, Suppress, NextClass, Collect, Return, vars, sortVars
  <2>2. QED BY <1>1, <2>1 DEF SortInv, Ascending, Parted
<1>2. CASE stage' \notin {"preprocess", "decode"} /\ stage \notin {"down", "up"}
  <2>1. /\ UNCHANGED <<calls, ranked, boxes>> /\ stage \notin {"preprocess", "decode"}
        /\ stage' \notin {"down", "up"}
    BY <1>2 DEF Preprocess, Scan, Sorted, Suppress, NextClass, Collect, Return, vars, sortVars, nmsVars
  <2>2. Filled' = ranked /\ Filled = ranked /\ Ranks' = Ranks
    BY <1>2, <2>1 DEF Filled, Ranks
  <2>3. \A i, j : Together(i, j)' <=> Together(i, j)
    BY <1>2, <2>1 DEF Together
  <2>4. Ranking(Filled)' /\ InOrder(Filled)'
    BY <2>1, <2>2, <2>3 DEF SortInv, Ranking, InOrder
  <2>5. Ascending' /\ Parted'
    BY <2>1 DEF SortInv, Ascending, Parted
  <2>6. QED BY <2>4, <2>5 DEF SortInv
<1>3. CASE stage \in {"down", "up"}
  <2>1. UNCHANGED vars
    BY <1>3 DEF Preprocess, Scan, Sorted, Suppress, NextClass, Collect, Return
  <2>2. QED BY <2>1 DEF vars, sortVars, SortInv, Ascending, Parted, Ranking, InOrder, Together,
                        Filled, Hole, Ranks
<1>4. QED BY <1>1, <1>2, <1>3

(* When the sort is done. *)
LEMMA Falling == ASSUME TypeOK, Shape, SortInv, stage \in {"suppress", "collect", "done"}
                 PROVE  /\ Ranking(ranked)
                        /\ \A i, j \in Ranks : i < j => ranked[i].score >= ranked[j].score
<1>1. Filled = ranked /\ Ranking(ranked) /\ InOrder(ranked)
  BY DEF SortInv, Filled
<1>2. calls = <<>> /\ DOMAIN calls = {}
  <2>1. calls = <<>>
    BY DEF Shape
  <2>2. Len(calls) = 0
    BY <2>1, EmptySeq
  <2>3. QED BY <2>1, <2>2, RankType
<1>3. \A i, j : ~ Together(i, j)
  BY <1>2 DEF Together
<1>4. QED BY <1>1, <1>3 DEF InOrder
-----------------------------------------------------------------------------
(* The suppression. *)

\* A better ranked box that stays, of those ranked below a bound, overlaps box j.
Marked(j, below) == \E i \in Ranks : /\ i < below /\ i < j /\ i \notin gone
                                     /\ SlotClass(i) = SlotClass(j) /\ Overlapping(i, j)

Sifted ==
  /\ stage = "suppress" =>
       \A j \in Ranks :
         /\ SlotClass(j) \notin classes => (j \in gone <=> Marked(j, j))
         /\ SlotClass(j) = Min(classes) => (j \in gone <=> Marked(j, pos))
         /\ SlotClass(j) \in classes \ {Min(classes)} => j \notin gone
  /\ stage \in {"collect", "done"} => \A j \in Ranks : j \in gone <=> Marked(j, j)

LEMMA SuppressSifts == ASSUME TypeOK, Shape, Sifted, Suppress PROVE Sifted'
<1> DEFINE c == Min(classes)
<1>1. /\ stage = "suppress" /\ stage' = "suppress" /\ pos \in Ranks /\ pos' = pos + 1
      /\ gone' = SuppressedBy(gone, pos, c) /\ UNCHANGED <<boxes, ranked, classes>>
      /\ Ranks' = Ranks /\ Ranks \subseteq Nat /\ pos \in Nat
  BY RankType DEF Suppress, TypeOK, Ranks
<1>2. \A i, j : (Overlapping(i, j)' <=> Overlapping(i, j)) /\ SlotClass(i)' = SlotClass(i)
  BY <1>1 DEF Overlapping, BoxAt, SlotClass
<1>3. c \in classes
  BY <1>1, LeastClass DEF Shape, TypeOK
<1>4. \A j \in Ranks : j \in gone' <=> \/ j \in gone
                                       \/ /\ pos \notin gone /\ SlotClass(pos) = c /\ j > pos
                                          /\ SlotClass(j) = c /\ Overlapping(pos, j)
  BY <1>1 DEF SuppressedBy, Acts
<1> HIDE DEF c
<1>5. \A i \in Ranks : i <= pos \/ SlotClass(i) # c => (i \in gone' <=> i \in gone)
  BY <1>1, <1>4
<1>6. ASSUME NEW j \in Ranks, SlotClass(j) # c PROVE Marked(j, j)' <=> Marked(j, j)
  <2>1. \A i \in Ranks : SlotClass(i) = SlotClass(j) => (i \in gone' <=> i \in gone)
    BY <1>5, <1>6
  <2>2. QED BY <1>1, <1>2, <2>1 DEF Marked
<1>7. ASSUME NEW j \in Ranks, SlotClass(j) = c, j \in gone <=> Marked(j, pos)
      PROVE  j \in gone' <=> Marked(j, pos)'
  <2>1. Marked(j, pos)' <=> \E i \in Ranks : /\ i < pos + 1 /\ i < j /\ i \notin gone
                                             /\ SlotClass(i) = SlotClass(j) /\ Overlapping(i, j)
    BY <1>1, <1>2, <1>5 DEF Marked
  <2>2. \A i \in Ranks : i < pos + 1 <=> i < pos \/ i = pos
    BY <1>1
  <2>3. Marked(j, pos)' <=> \/ Marked(j, pos)
                            \/ /\ pos < j /\ pos \notin gone
                               /\ SlotClass(pos) = SlotClass(j) /\ Overlapping(pos, j)
    BY <1>1, <2>1, <2>2 DEF Marked
  <2>4. j > pos <=> pos < j
    BY <1>1
  <2>5. QED BY <1>4, <1>7, <2>3, <2>4
<1>8. ASSUME NEW j \in Ranks
      PROVE  /\ SlotClass(j) \notin classes => (j \in gone' <=> Marked(j, j)')
             /\ SlotClass(j) = c => (j \in gone' <=> Marked(j, pos)')
             /\ SlotClass(j) \in classes \ {c} => j \notin gone'
  <2>1. /\ SlotClass(j) \notin classes => (j \in gone <=> Marked(j, j))
        /\ SlotClass(j) = c => (j \in gone <=> Marked(j, pos))
        /\ SlotClass(j) \in classes \ {c} => j \notin gone
    BY <1>1 DEF Sifted, c
  <2>2. CASE SlotClass(j) = c
    BY <1>3, <1>7, <2>1, <2>2
  <2>3. CASE SlotClass(j) # c
    BY <1>5, <1>6, <2>1, <2>3
  <2>4. QED BY <2>2, <2>3
<1>9. QED BY <1>1, <1>2, <1>8 DEF Sifted, c

LEMMA NextSifts == ASSUME TypeOK, Shape, Sifted, NextClass PROVE Sifted'
<1> DEFINE c == Min(classes)
           left == classes'
<1>1. /\ stage = "suppress" /\ pos > Len(ranked) /\ pos' = 1 /\ left = classes \ {c}
      /\ stage' = IF left = {} THEN "collect" ELSE "suppress"
      /\ UNCHANGED <<boxes, ranked, gone>> /\ Ranks' = Ranks /\ Ranks = 1..Len(ranked)
      /\ Len(ranked) \in Nat /\ pos \in Nat /\ classes \subseteq Nat
  BY RankType DEF NextClass, TypeOK, Ranks
<1>2. \A i, j : (Overlapping(i, j)' <=> Overlapping(i, j)) /\ SlotClass(i)' = SlotClass(i)
  BY <1>1 DEF Overlapping, BoxAt, SlotClass
<1>3. \A j \in Ranks : Marked(j, pos) <=> Marked(j, j)
  <2>1. \A i \in Ranks : i < pos
    BY <1>1
  <2>2. QED BY <2>1 DEF Marked
<1>4. \A j \in Ranks : Marked(j, j)' <=> Marked(j, j)
  BY <1>1, <1>2 DEF Marked
<1>5. \A j \in Ranks : ~ Marked(j, pos)'
  <2>1. \A i \in Ranks : ~(i < 1)
    BY <1>1
  <2>2. QED BY <1>1, <2>1 DEF Marked
<1> HIDE DEF c, left
<1>6. \A j \in Ranks : /\ SlotClass(j) \notin left => (j \in gone <=> Marked(j, j))
                       /\ SlotClass(j) \in left => j \notin gone
  <2> SUFFICES ASSUME NEW j \in Ranks
               PROVE  /\ SlotClass(j) \notin left => (j \in gone <=> Marked(j, j))
                      /\ SlotClass(j) \in left => j \notin gone
    OBVIOUS
  <2>1. /\ SlotClass(j) \notin classes => (j \in gone <=> Marked(j, j))
        /\ SlotClass(j) = c => (j \in gone <=> Marked(j, j))
        /\ SlotClass(j) \in classes \ {c} => j \notin gone
    BY <1>1, <1>3 DEF Sifted, c
  <2>2. QED BY <1>1, <2>1
<1>7. CASE left = {}
  <2>1. stage' = "collect"
    BY <1>1, <1>7
  <2>2. \A j \in Ranks : j \in gone' <=> Marked(j, j)'
    BY <1>1, <1>4, <1>6, <1>7
  <2>3. QED BY <1>1, <2>1, <2>2 DEF Sifted
<1>8. CASE left # {}
  <2>1. stage' = "suppress"
    BY <1>1, <1>8
  <2>2. Min(left) \in left
    BY <1>1, <1>8, LeastClass
  <2>3. \A j \in Ranks : /\ SlotClass(j) \notin left => (j \in gone <=> Marked(j, j)')
                         /\ SlotClass(j) = Min(left) => (j \in gone <=> Marked(j, pos)')
                         /\ SlotClass(j) \in left \ {Min(left)} => j \notin gone
    BY <1>4, <1>5, <1>6, <2>2
  <2>4. \A j \in Ranks' : /\ SlotClass(j)' \notin classes' => (j \in gone' <=> Marked(j, j)')
                          /\ SlotClass(j)' = Min(classes') => (j \in gone' <=> Marked(j, pos)')
                          /\ SlotClass(j)' \in classes' \ {Min(classes')} => j \notin gone'
    BY <1>1, <1>2, <2>3 DEF left
  <2>5. stage' \notin {"collect", "done"}
    BY <2>1
  <2>6. QED BY <2>4, <2>5 DEF Sifted
<1>9. QED BY <1>7, <1>8

LEMMA SiftStep == ASSUME TypeOK, Shape, Sifted, [Next]_vars PROVE Sifted'
<1>1. CASE Suppress
  BY <1>1, SuppressSifts
<1>2. CASE NextClass
  BY <1>2, NextSifts
<1>3. CASE Sorted
  <2>1. /\ stage' = "suppress" /\ pos' = 1 /\ classes' = {boxes[n].class : n \in DOMAIN boxes}
        /\ UNCHANGED <<boxes, ranked, gone>> /\ gone = {} /\ Len(ranked) = Len(boxes)
    BY <1>3 DEF Sorted, Shape
  <2>2. Ranks' = Ranks /\ Ranks = 1..Len(ranked) /\ Ranks = DOMAIN boxes
    <3>1. Ranks = 1..Len(ranked) /\ DOMAIN boxes = 1..Len(boxes)
      BY RankType, LenProperties DEF TypeOK
    <3>2. QED BY <2>1, <3>1 DEF Ranks
  <2>3. \A j \in Ranks' : SlotClass(j)' \in classes' /\ ~ Marked(j, pos)' /\ j \notin gone'
    <3>1. \A j \in Ranks' : SlotClass(j)' \in classes' /\ j \notin gone'
      BY <2>1, <2>2 DEF SlotClass
    <3>2. \A i \in Ranks' : ~(i < pos')
      BY <2>1, <2>2
    <3>3. QED BY <3>1, <3>2 DEF Marked
  <2>4. QED BY <2>1, <2>3 DEF Sifted
<1>4. CASE Collect \/ Return \/ UNCHANGED vars
  <2>1. UNCHANGED <<boxes, ranked, gone, classes>>
    BY <1>4 DEF Collect, Return, vars, nmsVars
  <2>2. /\ Ranks' = Ranks /\ \A j : SlotClass(j)' = SlotClass(j)
        /\ \A i, j : Overlapping(i, j)' <=> Overlapping(i, j)
    BY <2>1 DEF Ranks, SlotClass, Overlapping, BoxAt
  <2>3. \A j : Marked(j, j)' <=> Marked(j, j)
    BY <2>1, <2>2 DEF Marked
  <2>4. CASE Collect \/ Return
    <3>1. stage = "collect" /\ stage' \in {"collect", "done"}
      BY <2>4 DEF Collect, Return
    <3>2. \A j \in Ranks' : j \in gone' <=> Marked(j, j)'
      BY <2>1, <2>2, <2>3, <3>1 DEF Sifted
    <3>3. QED BY <3>1, <3>2 DEF Sifted
  <2>5. CASE UNCHANGED vars
    <3>1. stage' = stage /\ pos' = pos
      BY <2>5 DEF vars
    <3>2. \A j : Marked(j, pos)' <=> Marked(j, pos)
      BY <2>1, <2>2, <3>1 DEF Marked
    <3>3. QED BY <2>1, <2>2, <2>3, <3>1, <3>2 DEF Sifted
  <2>6. QED BY <1>4, <2>4, <2>5
<1>5. CASE Ready
  <2>1. stage' \in {"sort", "done"}
    BY <1>5 DEF Ready
  <2>2. stage' = "done" => Ranks' = {}
    <3>1. ASSUME stage' = "done" PROVE ranked' = ranked /\ ranked = <<>>
      BY <1>5, <3>1 DEF Ready, Shape
    <3>2. Ranks = 1..Len(ranked) /\ Len(<<>>) = 0
      BY RankType, EmptySeq
    <3>3. QED BY <3>1, <3>2 DEF Ranks
  <2>3. QED BY <2>1, <2>2 DEF Sifted
<1>6. CASE Preprocess \/ Scan \/ Call \/ Down \/ Up \/ Place
  <2>1. stage' \in {"decode", "sort", "down", "up"}
    BY <1>6 DEF Preprocess, Scan, Call, Down, Up, Place
  <2>2. QED BY <2>1 DEF Sifted
<1>7. QED BY <1>1, <1>2, <1>3, <1>4, <1>5, <1>6 DEF Next
-----------------------------------------------------------------------------
(* The results. *)
Gathered ==
  stage \in {"collect", "done"} =>
    /\ Len(results) <= MaxResults
    /\ \A k \in DOMAIN results : \E i \in Ranks \ gone : i < pos /\ results[k] = Result(i)
    /\ \A i \in Ranks \ gone :
         i < pos => \/ Among(i)
                    \/ /\ Len(results) = MaxResults
                       /\ \A k \in DOMAIN results : results[k].prop >= ranked[i].score

LEMMA CollectStep == ASSUME TypeOK, Shape, Fitting, SortInv, Gathered, Collect
                     PROVE  TypeOK' /\ Shape' /\ Fitting' /\ Gathered'
<1>1. /\ stage = "collect" /\ stage' = "collect" /\ pos \in Ranks /\ pos' = pos + 1 /\ pos \in Nat
      /\ UNCHANGED <<frame, letterbox, output, boxes, ranked, calls, part, gone, classes>>
      /\ Ranks' = Ranks /\ Ranks \subseteq Nat /\ MaxResults \in Nat
      /\ results \in Seq(Drawn) /\ DOMAIN results = 1..Len(results) /\ Len(results) \in Nat
  <2>1. /\ stage = "collect" /\ stage' = "collect" /\ pos <= Len(ranked) /\ pos' = pos + 1
        /\ UNCHANGED <<frame, letterbox, output, boxes, ranked, calls, part, gone, classes>>
        /\ Ranks' = Ranks
    BY DEF Collect, Ranks, sortVars, nmsVars
  <2>2. results \in Seq(Drawn) /\ DOMAIN results = 1..Len(results) /\ Len(results) \in Nat
    BY LenProperties DEF TypeOK
  <2>3. pos \in Nat \ {0} /\ Ranks = 1..Len(ranked) /\ Len(ranked) \in Nat
    BY RankType DEF TypeOK
  <2>4. QED BY <2>1, <2>2, <2>3, PostProcessAssumption
<1>2. /\ \A i \in Ranks : ranked[i].index \in DOMAIN boxes /\ ranked[i].score \in Int
      /\ \A i, j \in Ranks : i < j => ranked[i].score >= ranked[j].score
  BY <1>1, Falling, RankType DEF Ranking
<1>3. \A i \in Ranks : Result(i) \in Drawn /\ Result(i).prop = ranked[i].score
  BY <1>1, <1>2, ResultType DEF Shape
<1>4. /\ Len(results) <= MaxResults
      /\ \A k \in DOMAIN results : \E i \in Ranks \ gone : i < pos /\ results[k] = Result(i)
      /\ \A i \in Ranks \ gone :
           i < pos => \/ Among(i)
                      \/ /\ Len(results) = MaxResults
                         /\ \A k \in DOMAIN results : results[k].prop >= ranked[i].score
  BY <1>1 DEF Gathered
<1>5. \A i : Result(i)' = Result(i)
  BY <1>1 DEF Result, BoxAt, ConvertCoord, Scaled, Unpadded
<1>6. Shape' /\ Fitting'
  BY <1>1 DEF Shape, Fitting, AxisFits
<1>7. \A i \in Ranks : i < pos + 1 <=> i < pos \/ i = pos
  BY <1>1
<1>8. CASE pos \in gone \/ Len(results) >= MaxResults
  <2>1. results' = results
    BY <1>8 DEF Collect
  <2>2. TypeOK'
    BY <1>1, <2>1 DEF TypeOK, Drawn
  <2>3. \A i : Among(i)' <=> Among(i)
    BY <1>5, <2>1 DEF Among
  <2>4. \A k \in DOMAIN results : \E i \in Ranks \ gone : i < pos + 1 /\ results[k] = Result(i)
    BY <1>4, <1>7
  <2>5. ASSUME pos \notin gone
        PROVE  /\ Len(results) = MaxResults
               /\ \A k \in DOMAIN results : results[k].prop >= ranked[pos].score
    <3>1. Len(results) = MaxResults
      BY <1>1, <1>4, <1>8, <2>5
    <3>2. ASSUME NEW k \in DOMAIN results PROVE results[k].prop >= ranked[pos].score
      <4>1. PICK i \in Ranks \ gone : i < pos /\ results[k] = Result(i)
        BY <1>4
      <4>2. QED BY <1>1, <1>2, <1>3, <4>1
    <3>3. QED BY <3>1, <3>2
  <2>6. \A i \in Ranks \ gone :
          i < pos + 1 => \/ Among(i)
                         \/ /\ Len(results) = MaxResults
                            /\ \A k \in DOMAIN results : results[k].prop >= ranked[i].score
    BY <1>4, <1>7, <2>5
  <2>7. Gathered'
    BY <1>1, <1>4, <1>5, <2>1, <2>3, <2>4, <2>6 DEF Gathered
  <2>8. QED BY <1>6, <2>2, <2>7
<1>9. CASE pos \notin gone /\ ~(Len(results) >= MaxResults)
  <2> DEFINE more == results'
  <2>1. /\ more = Append(results, Result(pos)) /\ Result(pos) \in Drawn
        /\ more \in Seq(Drawn) /\ Len(more) = Len(results) + 1
        /\ \A k \in DOMAIN results : more[k] = results[k]
        /\ more[Len(results) + 1] = Result(pos)
    <3>1. more = Append(results, Result(pos)) /\ Result(pos) \in Drawn
      BY <1>1, <1>3, <1>9 DEF Collect
    <3> HIDE DEF more
    <3>2. /\ more \in Seq(Drawn) /\ Len(more) = Len(results) + 1
          /\ \A k \in 1..Len(results) : more[k] = results[k]
          /\ more[Len(results) + 1] = Result(pos)
      BY <1>1, <3>1, AppendProperties
    <3>3. QED BY <1>1, <3>1, <3>2
  <2>2. DOMAIN more = 1..(Len(results) + 1)
    <3>1. DOMAIN more = 1..Len(more)
      BY <2>1, LenProperties
    <3>2. QED BY <2>1, <3>1
  <2>3. TypeOK'
    <3>1. Drawn' = Drawn
      BY <1>1 DEF Drawn
    <3>2. results' \in Seq(Drawn)'
      BY <2>1, <3>1
    <3>3. pos' \in Nat \ {0}
      BY <1>1
    <3>4. QED BY <1>1, <3>2, <3>3 DEF TypeOK
  <2> HIDE DEF more
  <2>4. Len(more) <= MaxResults /\ Len(results) # MaxResults
    <3>1. Len(results) \in Nat /\ MaxResults \in Nat
      BY <1>1
    <3>2. Len(results) < MaxResults
      BY <1>9, <3>1
    <3>3. QED BY <2>1, <3>1, <3>2
  <2>5. ASSUME NEW k \in DOMAIN more
        PROVE  \E i \in Ranks \ gone : i < pos + 1 /\ more[k] = Result(i)
    <3>1. CASE k \in DOMAIN results
      <4>1. PICK i \in Ranks \ gone : i < pos /\ results[k] = Result(i)
        BY <1>4, <3>1
      <4>2. QED BY <1>7, <2>1, <3>1, <4>1
    <3>2. CASE k \notin DOMAIN results
      <4>1. k = Len(results) + 1
        BY <1>1, <2>2, <3>2
      <4>2. QED BY <1>1, <1>7, <1>9, <2>1, <4>1
    <3>3. QED BY <3>1, <3>2
  <2>6. ASSUME NEW i \in Ranks \ gone, i < pos + 1 PROVE \E k \in DOMAIN more : more[k] = Result(i)
    <3>1. CASE i < pos
      <4>1. PICK k \in DOMAIN results : results[k] = Result(i)
        BY <1>4, <2>4, <3>1 DEF Among
      <4>2. k \in DOMAIN more /\ more[k] = results[k]
        BY <1>1, <2>1, <2>2
      <4>3. QED BY <4>1, <4>2
    <3>2. CASE i = pos
      <4>1. Len(results) + 1 \in DOMAIN more
        BY <1>1, <2>2
      <4>2. QED BY <2>1, <3>2, <4>1
    <3>3. QED BY <1>7, <2>6, <3>1, <3>2
  <2>7. \A i \in Ranks \ gone : i < pos + 1 => Among(i)'
    BY <1>5, <2>6 DEF Among, more
  <2>8. Gathered'
    BY <1>1, <1>5, <2>4, <2>5, <2>7 DEF Gathered, more
  <2>9. QED BY <1>6, <2>3, <2>8
<1>10. QED BY <1>8, <1>9

LEMMA GatherStep == ASSUME TypeOK, Shape, Gathered, [Next]_vars, ~ Collect PROVE Gathered'
<1>1. CASE NextClass
  <2>1. pos' = 1 /\ results' = results /\ results = <<>> /\ Ranks' = Ranks
    BY <1>1 DEF NextClass, Shape, Ranks
  <2>2. Len(results) = 0 /\ DOMAIN results = {}
    <3>1. DOMAIN results = 1..Len(results)
      BY LenProperties DEF TypeOK
    <3>2. QED BY <2>1, <3>1, EmptySeq
  <2>3. \A i \in Ranks' : ~(i < pos')
    BY <2>1, RankType
  <2>4. QED BY <2>1, <2>2, <2>3, PostProcessAssumption DEF Gathered
<1>2. CASE Return \/ UNCHANGED vars
  <2>1. /\ UNCHANGED <<frame, letterbox, boxes, ranked, gone, pos, results>>
        /\ stage' \in {"collect", "done"} => stage \in {"collect", "done"}
    BY <1>2 DEF Return, vars, nmsVars
  <2>2. /\ Ranks' = Ranks /\ \A i : Result(i)' = Result(i) /\ (Among(i)' <=> Among(i))
    BY <2>1 DEF Ranks, Result, BoxAt, ConvertCoord, Scaled, Unpadded, Among
  <2>3. QED BY <2>1, <2>2 DEF Gathered
<1>3. CASE Ready
  <2>1. stage' \in {"sort", "done"}
    BY <1>3 DEF Ready
  <2>2. ASSUME stage' = "done" PROVE Ranks' = {} /\ Len(results') = 0 /\ DOMAIN results' = {}
    <3>1. ranked' = ranked /\ ranked = <<>> /\ results' = results /\ results = <<>>
      BY <1>3, <2>2 DEF Ready, Shape
    <3>2. Ranks = 1..Len(ranked) /\ Len(<<>>) = 0 /\ DOMAIN results = 1..Len(results)
      BY RankType, EmptySeq, LenProperties DEF TypeOK
    <3>3. QED BY <3>1, <3>2 DEF Ranks
  <2>3. QED BY <2>1, <2>2, PostProcessAssumption DEF Gathered
<1>4. CASE Preprocess \/ Scan \/ Call \/ Down \/ Up \/ Place \/ Sorted \/ Suppress
  <2>1. stage' \in {"decode", "sort", "down", "up", "suppress"}
    BY <1>4 DEF Preprocess, Scan, Call, Down, Up, Place, Sorted, Suppress
  <2>2. QED BY <2>1 DEF Gathered
<1>5. QED BY <1>1, <1>2, <1>3, <1>4 DEF Next
-----------------------------------------------------------------------------
(* Post-processing: the theorems. *)
PostInv == TypeOK /\ Shape /\ Fitting /\ SortInv /\ Sifted /\ Gathered

LEMMA PostInitInv == Init => PostInv
<1> SUFFICES ASSUME Init PROVE PostInv
  OBVIOUS
<1>1. TypeOK /\ Shape /\ Fitting
  BY InitShape
<1>2. stage = "preprocess" /\ DOMAIN calls = {}
  <2>1. stage = "preprocess" /\ calls = <<>>
    BY DEF Init
  <2>2. Len(calls) = 0
    BY <2>1, EmptySeq
  <2>3. QED BY <1>1, <2>1, <2>2, RankType
<1>3. QED BY <1>1, <1>2 DEF PostInv, SortInv, Ascending, Parted, Sifted, Gathered

LEMMA PostStepInv == PostInv /\ [Next]_vars => PostInv'
<1> SUFFICES ASSUME PostInv, [Next]_vars PROVE PostInv'
  OBVIOUS
<1>1. TypeOK /\ Shape /\ Fitting /\ SortInv /\ Sifted /\ Gathered
  BY DEF PostInv
<1>2. Sifted'
  BY <1>1, SiftStep
<1>3. CASE Ready \/ Call \/ Down \/ Up \/ Place
  <2>1. TypeOK' /\ Shape' /\ Fitting' /\ SortInv'
    BY <1>1, <1>3, ReadyStep, CallStep, DownStep, UpStep, PlaceStep
  <2>2. ~ Collect
    BY <1>3 DEF Ready, Call, Down, Up, Place, Collect
  <2>3. QED BY <1>1, <1>2, <2>1, <2>2, GatherStep DEF PostInv
<1>4. CASE Collect
  BY <1>1, <1>2, <1>4, CollectStep, SortStays DEF PostInv
<1>5. CASE Preprocess \/ Scan \/ Sorted \/ Suppress \/ NextClass \/ Return \/ UNCHANGED vars
  <2>1. TypeOK' /\ Shape' /\ Fitting' /\ SortInv'
    BY <1>1, <1>5, RestStep, SortStays
  <2>2. CASE Collect
    BY <1>4, <2>2
  <2>3. CASE ~ Collect
    BY <1>1, <1>2, <2>1, <2>3, GatherStep DEF PostInv
  <2>4. QED BY <2>2, <2>3
<1>6. QED BY <1>3, <1>4, <1>5 DEF Next

LEMMA PostAlways == Spec => []PostInv
<1>1. QED BY PostInitInv, PostStepInv, PTL DEF Spec

(* Type correctness: every array holds what it is meant to at every step, the indices stay
   in the arrays and the boxes drawn in the frame (postprocess). *)
THEOREM PostProcessTypes == Spec => []TypeOK
<1>1. PostInv => TypeOK
  BY DEF PostInv
<1>2. QED BY <1>1, PostAlways, PTL

(* The sort moves the scores together with the indices, loses no box, and is a sort; and the
   results are those of boxes that stay, the best ones when there are too many
   (quick_sort_indices_inverse, the last loop of post_process). *)
THEOREM SortKeepsScores == Spec => []EachWithItsScore
<1>1. PostInv => EachWithItsScore
  <2> SUFFICES ASSUME PostInv PROVE EachWithItsScore
    OBVIOUS
  <2>0. TypeOK /\ Shape /\ SortInv /\ Gathered
    BY DEF PostInv
  <2>1. ASSUME stage \in {"suppress", "collect", "done"}
        PROVE  /\ {ranked[i].index : i \in Ranks} = DOMAIN boxes
               /\ \A i \in Ranks : ranked[i].score = BoxAt(i).score
               /\ \A i, j \in Ranks : i < j => ranked[i].score >= ranked[j].score
    BY <2>0, <2>1, Falling DEF Ranking, BoxAt
  <2>2. ASSUME NEW k \in DOMAIN results PROVE \E i \in Ranks \ gone : results[k] = Result(i)
    <3>1. stage \in {"collect", "done"}
      <4>1. CASE stage \notin {"collect", "done"}
        <5>1. results = <<>> /\ Len(<<>>) = 0 /\ DOMAIN results = 1..Len(results)
          BY <2>0, <4>1, EmptySeq, LenProperties DEF Shape, TypeOK
        <5>2. QED BY <5>1
      <4>2. QED BY <4>1
    <3>2. QED BY <2>0, <3>1 DEF Gathered
  <2>3. ASSUME stage = "done", NEW i \in Ranks \ gone
        PROVE  \/ Among(i)
               \/ /\ Len(results) = MaxResults
                  /\ \A k \in DOMAIN results : results[k].prop >= ranked[i].score
    <3>1. i < pos
      BY <2>0, <2>3, RankType DEF Shape, TypeOK
    <3>2. QED BY <2>0, <2>3, <3>1 DEF Gathered
  <2>4. QED BY <2>1, <2>2, <2>3 DEF EachWithItsScore
<1>2. QED BY <1>1, PostAlways, PTL

(* What non_max_suppression computes, class by class and in place, is its definition without
   an order. *)
THEOREM SuppressionIsDefined == Spec => []GoesForOneThatStays
<1>1. PostInv => GoesForOneThatStays
  <2> SUFFICES ASSUME PostInv, stage \in {"collect", "done"}, NEW j \in Ranks
               PROVE  j \in gone <=> \E i \in Ranks : /\ i < j /\ i \notin gone
                                                      /\ SlotClass(i) = SlotClass(j)
                                                      /\ Overlapping(i, j)
    BY DEF GoesForOneThatStays
  <2>1. j \in gone <=> Marked(j, j)
    BY DEF PostInv, Sifted
  <2>2. QED BY <2>1 DEF Marked
<1>2. QED BY <1>1, PostAlways, PTL

(* Each coordinate of the frame comes back from the model's input within half a pixel of the
   model and one of the frame, for frames and models of any size (computeLetterbox, convertCoord). *)
THEOREM LetterboxUndone == Spec => []MapsBack
<1>1. PostInv => MapsBack
  <2> SUFFICES ASSUME PostInv, NEW a \in 1..2
               PROVE  LET l == letterbox[a] IN
                        /\ l.pad >= 0 /\ l.pad + l.content <= ModelSize[a]
                        /\ \A u \in 0..frame[a] :
                             2 * l.scale[1] * (Distance(ConvertCoord(Placed(u, a), frame[a], a), u) - 1)
                               <= l.scale[2]
    BY DEF MapsBack
  <2> DEFINE l == letterbox[a]
             f == frame[a]
             s1 == l.scale[1]
             s2 == l.scale[2]
             c == l.content
  <2>1. /\ l.scale \in Sizes /\ c \in 1..ModelSize[a] /\ l.pad \in Nat /\ l.pad + c <= ModelSize[a]
        /\ Fits(f, s1, s2, c)
    BY DEF PostInv, Fitting, AxisFits
  <2>2. s1 \in Nat \ {0} /\ s2 \in Nat \ {0} /\ f \in Nat \ {0} /\ ModelSize[a] \in Nat
    <3>1. s1 \in Nat \ {0} /\ s2 \in Nat \ {0}
      BY <2>1, PairOf
    <3>2. frame[a] \in Nat \ {0}
      BY FrameSize DEF PostInv
    <3>3. ModelSize \in Sizes
      BY PostProcessAssumption
    <3>4. ModelSize[a] \in Nat
      BY <3>3, PairOf
    <3>5. QED BY <3>1, <3>2, <3>4
  <2>3. c \in Nat \ {0}
    BY <2>1, <2>2
  <2>4. ASSUME NEW u \in 0..f
        PROVE  2 * s1 * (Distance(ConvertCoord(Placed(u, a), f, a), u) - 1) <= s2
    <3>1. Unpadded(Placed(u, a), f, a) = u * c
      <4> HIDE DEF f, c
      <4>1. l.pad * f \in Int /\ u * c \in Int
        BY <2>1, <2>2, <2>3
      <4>2. Placed(u, a) = l.pad * f + u * c
        BY DEF Placed, f, c
      <4>3. Unpadded(Placed(u, a), f, a) = Placed(u, a) - l.pad * f
        BY DEF Unpadded, f
      <4> HIDE DEF l
      <4>4. QED BY <4>1, <4>2, <4>3
    <3>2. ConvertCoord(Placed(u, a), f, a) = Max({0, Min({(u * c * s2) \div (f * s1), f})})
      BY <3>1 DEF ConvertCoord, Scaled
    <3> HIDE DEF l, f, s1, s2, c
    <3>3. QED BY <2>1, <2>2, <2>3, <2>4, <3>2, ThereAndBack
  <2>5. QED BY <2>1, <2>4
<1>2. QED BY <1>1, PostAlways, PTL
-----------------------------------------------------------------------------
(* The LED driver. *)

(* The mutex: who is past it holds it; and only a loaded module is written to. *)
Mutex == \A w \in Writers : /\ pc[w] \in Holding <=> lock = w
                            /\ pc[w] # "idle" => loaded = "yes"

(* How often a blinking writer has still to blink. *)
Counts == \A w \in Writers : pc[w] \in {"on", "off"} => blinks[w] >= 1

(* The takeover at each point of a write. *)
Takeover ==
  /\ valid = "yes" => found = "yes"
  /\ \A w \in Writers :
       /\ pc[w] \in {"powerSave", "unlock"} /\ found = "yes" => (valid = "yes" <=> kylin = Full)
       /\ pc[w] \in {"powerOff", "set", "on", "off", "restore"} /\ found = "yes" => valid = "yes"
       /\ pc[w] = "powerOff" => found = "yes"
       /\ pc[w] = "restore" => kylin = 0

(* The brightness the others chose is shown, or it is what was saved. *)
Remembered == disturbed = "no" => IF valid = "yes" THEN saved = wanted ELSE power = wanted

LedInv == /\ LedTypeOK /\ Mutex /\ Counts /\ Takeover /\ TakenOverOnlyWhileLit /\ UnloadedIsClean
          /\ Remembered

LEMMA LedInitInv == LedInit => LedInv
BY LedAssumption DEF LedInit, LedInv, LedTypeOK, Mutex, Counts, Takeover, TakenOverOnlyWhileLit,
                     UnloadedIsClean, Remembered, Holding

LEMMA LedTypeStep == LedTypeOK /\ Counts /\ [LedNext]_ledVars => LedTypeOK' /\ Counts'
<1> SUFFICES ASSUME LedTypeOK, Counts, [LedNext]_ledVars PROVE LedTypeOK' /\ Counts'
  OBVIOUS
<1> USE LedAssumption DEF LedTypeOK, Counts, Holding
<1>1. CASE Load
  BY <1>1 DEF Load
<1>2. CASE Unload
  BY <1>2 DEF Unload, RestoredAtExit, Restore
<1>3. ASSUME NEW w \in Writers, NEW v \in Values, Write(w, v) PROVE LedTypeOK' /\ Counts'
  <2>1. v \in Int
    BY LedAssumption
  <2>2. QED BY <1>3, <2>1 DEF Write
<1>4. ASSUME NEW w \in Writers, Lock(w) PROVE LedTypeOK' /\ Counts'
  BY <1>4 DEF Lock
<1>5. ASSUME NEW w \in Writers, PowerSave(w) PROVE LedTypeOK' /\ Counts'
  BY <1>5 DEF PowerSave
<1>6. ASSUME NEW w \in Writers, PowerOff(w) \/ SetOff(w) \/ SetFull(w) PROVE LedTypeOK' /\ Counts'
  BY <1>6 DEF PowerOff, SetOff, SetFull, NotRestoring
<1>7. ASSUME NEW w \in Writers, SetBlink(w) PROVE LedTypeOK' /\ Counts'
  <2>1. value[w] \in Int /\ value[w] > 1
    BY <1>7 DEF SetBlink
  <2>2. Limited(value[w]) \in 1..MaxBlink
    BY <2>1 DEF Limited
  <2>3. QED BY <1>7, <2>2 DEF SetBlink
<1>8. ASSUME NEW w \in Writers, BlinkOn(w) PROVE LedTypeOK' /\ Counts'
  BY <1>8 DEF BlinkOn
<1>9. ASSUME NEW w \in Writers, BlinkOff(w) PROVE LedTypeOK' /\ Counts'
  BY <1>9 DEF BlinkOff, Counted
<1>10. ASSUME NEW w \in Writers, RestorePower(w) \/ Unlock(w) PROVE LedTypeOK' /\ Counts'
  BY <1>10 DEF RestorePower, Restore, Unlock
<1>11. ASSUME NEW b \in {0, Full}, OthersSet(b) PROVE LedTypeOK' /\ Counts'
  BY <1>11 DEF OthersSet
<1>12. CASE UNCHANGED ledVars
  BY <1>12 DEF ledVars
<1>13. QED
  BY <1>1, <1>2, <1>3, <1>4, <1>5, <1>6, <1>7, <1>8, <1>9, <1>10, <1>11, <1>12
     DEF LedNext, Writing

LEMMA MutexStep == LedTypeOK /\ Mutex /\ [LedNext]_ledVars => Mutex'
<1> SUFFICES ASSUME LedTypeOK, Mutex, [LedNext]_ledVars PROVE Mutex'
  OBVIOUS
<1> USE LedAssumption DEF LedTypeOK, Mutex, Holding
<1>1. CASE Load \/ Unload
  BY <1>1 DEF Load, Unload
<1>2. ASSUME NEW w \in Writers, NEW v \in Values, Write(w, v) PROVE Mutex'
  BY <1>2 DEF Write
<1>3. ASSUME NEW w \in Writers, Lock(w) \/ Unlock(w) PROVE Mutex'
  BY <1>3 DEF Lock, Unlock
<1>4. ASSUME NEW w \in Writers, PowerSave(w) \/ PowerOff(w) \/ SetOff(w) \/ SetFull(w)
      PROVE  Mutex'
  BY <1>4 DEF PowerSave, PowerOff, SetOff, SetFull, NotRestoring
<1>5. ASSUME NEW w \in Writers, SetBlink(w) \/ BlinkOn(w) \/ BlinkOff(w) \/ RestorePower(w)
      PROVE  Mutex'
  BY <1>5 DEF SetBlink, BlinkOn, BlinkOff, RestorePower
<1>6. ASSUME NEW b \in {0, Full}, OthersSet(b) PROVE Mutex'
  BY <1>6 DEF OthersSet
<1>7. CASE UNCHANGED ledVars
  BY <1>7 DEF ledVars
<1>8. QED BY <1>1, <1>2, <1>3, <1>4, <1>5, <1>6, <1>7 DEF LedNext, Writing

(* What a write does to the two LEDs. *)
Leds == Takeover /\ TakenOverOnlyWhileLit /\ UnloadedIsClean /\ Remembered

LEMMA LedsStep == LedTypeOK /\ Mutex /\ Leds /\ [LedNext]_ledVars => Leds'
<1> SUFFICES ASSUME LedTypeOK, Mutex, Leds, [LedNext]_ledVars PROVE Leds'
  OBVIOUS
<1> USE LedAssumption DEF LedTypeOK, Mutex, Holding, Leds, Takeover, TakenOverOnlyWhileLit,
                          UnloadedIsClean, Remembered
<1>1. CASE Load
  BY <1>1 DEF Load
<1>2. CASE Unload
  BY <1>2 DEF Unload, RestoredAtExit, Restore, TakenOver
<1>3. ASSUME NEW w \in Writers, NEW v \in Values, Write(w, v) PROVE Leds'
  BY <1>3 DEF Write
<1>4. ASSUME NEW w \in Writers, Lock(w) PROVE Leds'
  BY <1>4 DEF Lock
<1>5. ASSUME NEW w \in Writers, PowerSave(w) PROVE Leds'
  BY <1>5 DEF PowerSave, SavesFirst
<1>6. ASSUME NEW w \in Writers, PowerOff(w) PROVE Leds'
  BY <1>6 DEF PowerOff
<1>7. ASSUME NEW w \in Writers, SetOff(w) PROVE Leds'
  BY <1>7 DEF SetOff
<1>8. ASSUME NEW w \in Writers, SetFull(w) PROVE Leds'
  BY <1>8 DEF SetFull, NotRestoring
<1>9. ASSUME NEW w \in Writers, SetBlink(w) \/ BlinkOn(w) \/ BlinkOff(w) PROVE Leds'
  BY <1>9 DEF SetBlink, BlinkOn, BlinkOff
<1>10. ASSUME NEW w \in Writers, RestorePower(w) PROVE Leds'
  BY <1>10 DEF RestorePower, Restore, TakenOver
<1>11. ASSUME NEW w \in Writers, Unlock(w) PROVE Leds'
  BY <1>11 DEF Unlock
<1>12. ASSUME NEW b \in {0, Full}, OthersSet(b) PROVE Leds'
  BY <1>12 DEF OthersSet, TakenOver
<1>13. CASE UNCHANGED ledVars
  BY <1>13 DEF ledVars
<1>14. QED
  BY <1>1, <1>2, <1>3, <1>4, <1>5, <1>6, <1>7, <1>8, <1>9, <1>10, <1>11, <1>12, <1>13
     DEF LedNext, Writing

LEMMA LedAlways == LedSpec => []LedInv
<1>1. LedInv /\ [LedNext]_ledVars => LedInv'
  BY LedTypeStep, MutexStep, LedsStep DEF LedInv, Leds
<1>2. QED BY LedInitInv, <1>1, PTL DEF LedSpec

(* The variables of LedDriver keep their types; a write blinks MaxBlink times at most. *)
THEOREM LedTypes == LedSpec => []LedTypeOK
BY LedAlways, PTL DEF LedInv

(* Between two writes the power LED is held exactly while the user LED is lit. *)
THEOREM HeldOnlyWhileLit == LedSpec => []TakenOverOnlyWhileLit
BY LedAlways, PTL DEF LedInv

(* The power LED comes back as the others left it. *)
THEOREM GivesPowerBack == LedSpec => []PowerComesBack
<1>1. LedInv => PowerComesBack
  BY DEF LedInv, Remembered, PowerComesBack
<1>2. QED BY LedAlways, <1>1, PTL

(* An unloaded driver leaves the user LED off and holds nothing. *)
THEOREM LeavesNothing == LedSpec => []UnloadedIsClean
BY LedAlways, PTL DEF LedInv
=============================================================================
