-------------------------- MODULE MultiCycleProofs --------------------------
(***************************************************************************)
(* The multiplier and the divider are right at every width.  The powers of *)
(* two the shifts stand for are defined by recursion, so the file starts   *)
(* with the least-number principle and what it gives for Pow2; then        *)
(* division with a remainder, two's complement, the sum of the twelve      *)
(* slice products, the invariant of the shift-and-subtract loop, the signs *)
(* and the invariant of the unit.                                          *)
(***************************************************************************)
EXTENDS MultiCycle, TLAPS, WellFoundedInduction

(* Induction on sets of numbers.                                           *)

Less == {ss \in Nat \X Nat : ss[1] < ss[2]}

\* A set that holds 0 and each successor holds every number: the least number
\* outside it would have a predecessor inside.
LEMMA NatSetInduction ==
    ASSUME NEW S, 0 \in S, \A n \in Nat : n \in S => n + 1 \in S
    PROVE  Nat \subseteq S
<1>1. IsWellFoundedOn(Less, Nat)
  BY NatLessThanWellFounded DEF OpToRel, Less
<1>2. \A a, b \in Nat : a < b => <<a, b>> \in Less
  BY DEF Less
<1>3. SUFFICES ASSUME Nat \ S # {} PROVE FALSE
  OBVIOUS
<1>4. PICK x \in Nat \ S : \A y \in Nat \ S : <<y, x>> \notin Less
  BY <1>1, <1>3, WFMin
<1>5. x # 0 /\ x - 1 \in Nat /\ x - 1 < x /\ (x - 1) + 1 = x
  BY <1>4
<1>6. <<x - 1, x>> \in Less
  BY <1>2, <1>4, <1>5
<1>7. x - 1 \in S
  BY <1>4, <1>5, <1>6
<1>8. QED
  BY <1>4, <1>5, <1>7

\* The first n powers.
UpTo(g, n) == \A m \in 0 .. n : g[m] = IF m = 0 THEN 1 ELSE 2 * g[m - 1]

LEMMA UpToExists == \A n \in Nat : \E g : UpTo(g, n)
<1> DEFINE S == {n \in Nat : \E g : UpTo(g, n)}
<1>1. 0 \in S
  <2>1. UpTo([m \in Nat |-> 1], 0)
    BY DEF UpTo
  <2>2. QED
    BY <2>1
<1>2. ASSUME NEW n \in Nat, n \in S PROVE n + 1 \in S
  <2>1. PICK g : UpTo(g, n)
    BY <1>2
  <2> DEFINE h == [m \in Nat |-> IF m = n + 1 THEN 2 * g[n] ELSE g[m]]
  <2>2. h[n + 1] = 2 * h[n] /\ \A m \in 0 .. n : h[m] = g[m]
    OBVIOUS
  <2> HIDE DEF h
  <2>3. UpTo(h, n + 1)
    <3>1. SUFFICES ASSUME NEW m \in 0 .. n + 1
                   PROVE h[m] = IF m = 0 THEN 1 ELSE 2 * h[m - 1]
      BY DEF UpTo
    <3>2. CASE m = n + 1
      BY <2>2, <3>2
    <3>3. CASE m \in 0 .. n
      BY <2>1, <2>2, <3>3 DEF UpTo
    <3>4. QED
      BY <3>2, <3>3
  <2>4. QED
    BY <2>3
<1> HIDE DEF S
<1>3. Nat \subseteq S
  BY <1>1, <1>2, NatSetInduction
<1>4. QED
  BY <1>3 DEF S

LEMMA UpToUnique ==
    ASSUME NEW g, NEW h, NEW k \in Nat, NEW l \in Nat, UpTo(g, k), UpTo(h, l)
    PROVE  \A n \in Nat : n <= k /\ n <= l => g[n] = h[n]
<1> DEFINE S == {n \in Nat : n <= k /\ n <= l => g[n] = h[n]}
<1>1. 0 \in S
  BY DEF UpTo
<1>2. ASSUME NEW n \in Nat, n \in S PROVE n + 1 \in S
  <2>1. SUFFICES ASSUME n + 1 <= k, n + 1 <= l PROVE g[n + 1] = h[n + 1]
    OBVIOUS
  <2>2. g[n + 1] = 2 * g[n] /\ h[n + 1] = 2 * h[n] /\ g[n] = h[n]
    BY <1>2, <2>1 DEF UpTo
  <2>3. QED
    BY <2>2
<1> HIDE DEF S
<1>3. Nat \subseteq S
  BY <1>1, <1>2, NatSetInduction
<1>4. QED
  BY <1>3 DEF S

\* The recursive definition has a solution, which the CHOOSE behind it picks.
LEMMA Pow2Def == Pow2 = [n \in Nat |-> IF n = 0 THEN 1 ELSE 2 * Pow2[n - 1]]
<1> DEFINE G(n) == CHOOSE g : UpTo(g, n)
           f == [n \in Nat |-> G(n)[n]]
<1>1. \A n \in Nat : UpTo(G(n), n)
  BY UpToExists
<1> HIDE DEF G
<1>2. ASSUME NEW n \in Nat PROVE f[n] = IF n = 0 THEN 1 ELSE 2 * f[n - 1]
  <2>1. CASE n = 0
    BY <1>1, <2>1 DEF UpTo
  <2>2. CASE n # 0
    <3>1. n - 1 \in Nat /\ f[n] = G(n)[n] /\ f[n - 1] = G(n - 1)[n - 1]
      BY <2>2
    <3>2. G(n)[n] = 2 * G(n)[n - 1]
      BY <1>1, <2>2 DEF UpTo
    <3>3. G(n)[n - 1] = G(n - 1)[n - 1]
      <4>1. UpTo(G(n), n) /\ UpTo(G(n - 1), n - 1)
        BY <1>1, <3>1
      <4>2. QED
        BY <4>1, <3>1, UpToUnique
    <3>4. QED
      BY <2>2, <3>1, <3>2, <3>3
  <2>3. QED
    BY <2>1, <2>2
<1>3. f = [n \in Nat |-> IF n = 0 THEN 1 ELSE 2 * f[n - 1]]
  BY <1>2
<1> HIDE DEF f
<1>4. QED
  BY <1>3 DEF Pow2

LEMMA Pow2Type == \A n \in Nat : Pow2[n] \in Nat /\ Pow2[n] >= 1
<1> DEFINE S == {n \in Nat : Pow2[n] \in Nat /\ Pow2[n] >= 1}
<1>1. 0 \in S
  BY Pow2Def
<1>2. ASSUME NEW n \in Nat, n \in S PROVE n + 1 \in S
  <2>1. Pow2[n + 1] = 2 * Pow2[n]
    BY Pow2Def
  <2>2. QED
    BY <1>2, <2>1
<1> HIDE DEF S
<1>3. Nat \subseteq S
  BY <1>1, <1>2, NatSetInduction
<1>4. QED
  BY <1>3 DEF S

LEMMA Pow2Add == \A a, b \in Nat : Pow2[a + b] = Pow2[a] * Pow2[b]
<1>1. SUFFICES ASSUME NEW a \in Nat PROVE \A b \in Nat : Pow2[a + b] = Pow2[a] * Pow2[b]
  OBVIOUS
<1> DEFINE S == {b \in Nat : Pow2[a + b] = Pow2[a] * Pow2[b]}
<1>2. 0 \in S
  BY Pow2Def, Pow2Type
<1>3. ASSUME NEW b \in Nat, b \in S PROVE b + 1 \in S
  <2>1. Pow2[b + 1] = 2 * Pow2[b] /\ Pow2[a + (b + 1)] = 2 * Pow2[a + b]
    BY Pow2Def
  <2>2. Pow2[a] \in Nat /\ Pow2[b] \in Nat
    BY Pow2Type
  <2>3. Pow2[a] * (2 * Pow2[b]) = 2 * (Pow2[a] * Pow2[b])
    BY <2>2
  <2>4. QED
    BY <1>3, <2>1, <2>3
<1> HIDE DEF S
<1>4. Nat \subseteq S
  BY <1>2, <1>3, NatSetInduction
<1>5. QED
  BY <1>4 DEF S

-----------------------------------------------------------------------------
(* Division.                                                               *)

LEMMA DivMod ==
    ASSUME NEW x \in Int, NEW m \in Nat, m >= 1
    PROVE  /\ x \div m \in Int /\ x % m \in 0 .. m - 1
           /\ x = m * (x \div m) + (x % m)
           /\ x \in Nat => x \div m \in Nat
OBVIOUS

LEMMA DivModUnique ==
    ASSUME NEW m \in Nat, m >= 1, NEW q \in Int, NEW r \in 0 .. m - 1,
           NEW x, x = m * q + r
    PROVE  x \div m = q /\ x % m = r
<1> DEFINE qq == x \div m
           rr == x % m
<1>1. x \in Int
  OBVIOUS
<1>2. qq \in Int /\ rr \in 0 .. m - 1 /\ m * q + r = m * qq + rr
  BY <1>1, DivMod
<1> HIDE DEF qq, rr
<1>3. m * (qq - q) = r - rr
  <2>1. m * (qq - q) = m * qq - m * q
    BY <1>2
  <2>2. QED
    BY <2>1, <1>2
<1>4. qq = q
  <2>1. CASE qq - q >= 1
    <3>1. m * (qq - q) >= m
      BY <2>1, <1>2
    <3>2. QED
      BY <3>1, <1>3, <1>2
  <2>2. CASE q - qq >= 1
    <3>1. m * (q - qq) >= m
      BY <2>2, <1>2
    <3>2. m * (qq - q) = -(m * (q - qq))
      BY <1>2
    <3>3. m * (q - qq) \in Int
      BY <1>2
    <3>4. QED
      BY <3>1, <3>2, <3>3, <1>3, <1>2
  <2>3. QED
    BY <2>1, <2>2, <1>2
<1>5. rr = r
  BY <1>2, <1>4
<1>6. QED
  BY <1>4, <1>5 DEF qq, rr

\* Numbers that differ by a multiple of m have the same remainder.
LEMMA ModCong ==
    ASSUME NEW x \in Int, NEW y \in Int, NEW m \in Nat, m >= 1, NEW k \in Int, y = x + m * k
    PROVE  y % m = x % m
<1>1. x \div m \in Int /\ x % m \in 0 .. m - 1 /\ x = m * (x \div m) + (x % m)
  BY DivMod
<1>2. y = m * (x \div m + k) + (x % m)
  <2>1. m * (x \div m + k) = m * (x \div m) + m * k
    BY <1>1
  <2>2. QED
    BY <1>1, <2>1
<1>3. x \div m + k \in Int
  BY <1>1
<1>4. QED
  BY <1>1, <1>2, <1>3, DivModUnique

LEMMA ModSmall ==
    ASSUME NEW m \in Nat, m >= 1, NEW x \in 0 .. m - 1
    PROVE  x % m = x /\ x \div m = 0
<1>1. x = m * 0 + x
  OBVIOUS
<1>2. QED
  BY <1>1, DivModUnique

\* Dividing twice is dividing by the product.
LEMMA DivDiv ==
    ASSUME NEW x \in Nat, NEW m \in Nat, m >= 1, NEW n \in Nat, n >= 1
    PROVE  x \div (m * n) = (x \div m) \div n
<1> DEFINE q == x \div m
           r == x % m
           qq == q \div n
           rr == q % n
<1>1. q \in Nat /\ r \in 0 .. m - 1 /\ x = m * q + r
  OBVIOUS
<1> HIDE DEF q, r, qq, rr
<1>2. qq \in Nat /\ rr \in 0 .. n - 1 /\ q = n * qq + rr
  BY <1>1 DEF qq, rr
<1> HIDE DEF qq, rr
<1>3. x = (m * n) * qq + (m * rr + r)
  <2>1. m * q = (m * n) * qq + m * rr
    BY <1>1, <1>2
  <2>2. QED
    BY <2>1, <1>1, <1>2
<1>4. m * rr + r \in 0 .. m * n - 1
  <2>1. m * rr <= m * (n - 1)
    BY <1>2
  <2>2. m * (n - 1) = m * n - m
    OBVIOUS
  <2>3. m * rr \in Nat /\ m * n \in Nat
    BY <1>2
  <2>4. QED
    BY <1>1, <2>1, <2>2, <2>3
<1>5. m * n \in Nat /\ m * n >= 1
  OBVIOUS
<1>6. x \div (m * n) = qq
  <2> DEFINE mn == m * n
             rest == m * rr + r
  <2>1. mn \in Nat /\ mn >= 1 /\ qq \in Int /\ rest \in 0 .. mn - 1 /\ x = mn * qq + rest
    BY <1>2, <1>3, <1>4, <1>5
  <2> HIDE DEF mn, rest
  <2>2. x \div mn = qq
    BY <2>1, DivModUnique
  <2>3. QED
    BY <2>2 DEF mn
<1>7. QED
  BY <1>6 DEF q, qq

-----------------------------------------------------------------------------
(* Widths, signs and numbers.                                              *)

LEMMA Widths ==
    /\ W \div 4 \in Nat /\ W \div 4 >= 1 /\ W = 4 * (W \div 4)
    /\ Half \in Nat /\ Half >= 2 /\ W = Half + Half /\ W \in Nat /\ W >= 4
BY MultiCycleAssumption DEF Half

\* An instruction works on words whose number Pow2[W] is a multiple of.
LEMMA BitsOf ==
    ASSUME NEW op
    PROVE  /\ Bits(op) \in Nat /\ Bits(op) >= 2 /\ Bits(op) - 1 \in Nat
           /\ Pow2[Bits(op)] \in Nat /\ Pow2[Bits(op) - 1] \in Nat
           /\ Pow2[Bits(op) - 1] >= 1
           /\ Pow2[Bits(op)] = 2 * Pow2[Bits(op) - 1]
           /\ Pow2[W] \in Nat /\ Pow2[W] >= Pow2[Bits(op)]
<1>1. Bits(op) \in Nat /\ Bits(op) >= 2 /\ Bits(op) - 1 \in Nat
  BY Widths DEF Bits
<1>2. Pow2[Bits(op)] = 2 * Pow2[Bits(op) - 1]
  BY <1>1, Pow2Def
<1>3. /\ Pow2[Bits(op)] \in Nat /\ Pow2[Bits(op) - 1] \in Nat /\ Pow2[W] \in Nat
      /\ Pow2[Bits(op) - 1] >= 1 /\ Pow2[Bits(op)] >= 1
  BY <1>1, Widths, Pow2Type
<1>4. Pow2[W] >= Pow2[Bits(op)]
  <2>1. CASE IsWord(op)
    <3>1. Pow2[W] = Pow2[Half] * Pow2[Half] /\ Bits(op) = Half
      BY <2>1, Widths, Pow2Add DEF Bits
    <3>2. Pow2[Half] \in Nat /\ Pow2[Half] >= 1
      BY <1>3, <3>1
    <3>3. Pow2[Half] * Pow2[Half] >= Pow2[Half]
      BY <3>2
    <3>4. QED
      BY <3>1, <3>3
  <2>2. CASE ~IsWord(op)
    BY <2>2, <1>3 DEF Bits
  <2>3. QED
    BY <2>1, <2>2
<1>5. QED
  BY <1>1, <1>2, <1>3, <1>4

\* Sign extension looks at the low bits only.
LEMMA SextLow ==
    ASSUME NEW op, NEW x \in Int
    PROVE  Sext(x % Pow2[Bits(op)], Bits(op)) = Sext(x, Bits(op))
<1>1. x % Pow2[Bits(op)] \in 0 .. Pow2[Bits(op)] - 1
  <2> DEFINE m == Pow2[Bits(op)]
  <2>1. m \in Nat /\ m >= 1
    BY BitsOf
  <2> HIDE DEF m
  <2>2. x % m \in 0 .. m - 1
    BY <2>1
  <2>3. QED
    BY <2>2 DEF m
<1>2. Low(x % Pow2[Bits(op)], Bits(op)) = Low(x, Bits(op))
  BY <1>1, BitsOf, ModSmall DEF Low
<1>3. QED
  BY <1>2 DEF Sext, Msb, Neg

\* Two's complement.
LEMMA NegIs ==
    ASSUME NEW op, NEW x \in Int
    PROVE  Neg(x, Bits(op)) = (-x) % Pow2[Bits(op)]
<1> DEFINE m == Pow2[Bits(op)]
           q == x \div m
           r == x % m
<1>1. m \in Nat /\ m >= 1
  BY BitsOf
<1> HIDE DEF m
<1>2. q \in Int /\ r \in 0 .. m - 1 /\ x = m * q + r
  BY <1>1, DivMod
<1> HIDE DEF q, r
<1>3. -x = (m - r) + m * (-q - 1)
  <2>1. m * (-q - 1) = -(m * q) - m
    BY <1>1, <1>2
  <2>2. m * q \in Int
    BY <1>1, <1>2
  <2>3. QED
    BY <1>1, <1>2, <2>1, <2>2
<1>4. (-x) % m = (m - r) % m
  <2> DEFINE y == -x
             z == m - r
             k == -q - 1
  <2>1. y \in Int /\ z \in Int /\ k \in Int /\ y = z + m * k
    BY <1>1, <1>2, <1>3
  <2> HIDE DEF y, z, k
  <2>2. y % m = z % m
    BY <2>1, <1>1, ModCong
  <2>3. QED
    BY <2>2 DEF y, z
<1>5. QED
  BY <1>4 DEF Neg, Low, m, r

\* What leaves a unit is the low part of a number, with its sign.
LEMMA SignedIs ==
    ASSUME NEW op, NEW x \in Int, NEW neg \in BOOLEAN
    PROVE  Signed(neg, x, Bits(op)) = Sext((IF neg THEN -x ELSE x) % Pow2[Bits(op)], Bits(op))
<1>1. CASE neg
  BY <1>1, NegIs DEF Signed
<1>2. CASE ~neg
  BY <1>2, SextLow DEF Signed
<1>3. QED
  BY <1>1, <1>2

\* A word is a number, of which the units take the magnitude.
LEMMA NumberOf ==
    ASSUME NEW op, NEW v \in Words
    PROVE  /\ Number(v, op) \in Int /\ Magnitude(v, op) \in 0 .. Pow2[Bits(op)] - 1
           /\ Number(v, op) = IF IsSigned(op) /\ Msb(v, Bits(op)) THEN -Magnitude(v, op)
                              ELSE Magnitude(v, op)
           /\ IsSigned(op) => Magnitude(v, op) <= Pow2[Bits(op) - 1]
           /\ Magnitude(v, op) = 0 <=> Low(v, Bits(op)) = 0
           /\ IsSigned(op) /\ Msb(v, Bits(op)) => Magnitude(v, op) >= 1
           /\ Number(v, op) % Pow2[Bits(op)] = v % Pow2[Bits(op)]
<1> DEFINE m == Pow2[Bits(op)]
           h == Pow2[Bits(op) - 1]
           u == Low(v, Bits(op))
<1>1. m \in Nat /\ h \in Nat /\ h >= 1 /\ m = 2 * h /\ m >= 1
  BY BitsOf
<1>2. v \in Int /\ Pow2[W] \in Nat
  BY BitsOf DEF Words
<1>3. u \in 0 .. m - 1 /\ v \div m \in Int /\ v = m * (v \div m) + u
  BY <1>1, <1>2, DivMod DEF Low
<1>4. Neg(v, Bits(op)) = (m - u) % m
  BY DEF Neg
<1>5. Msb(v, Bits(op)) <=> u >= h
  BY DEF Msb
<1>6. u % m = v % m
  BY <1>1, <1>3, ModSmall DEF Low
<1> HIDE DEF m, h, u
<1>7. u >= h => Neg(v, Bits(op)) = m - u
  <2>1. u >= h => m - u \in 0 .. m - 1
    BY <1>1, <1>3
  <2>2. QED
    BY <2>1, <1>1, <1>4, ModSmall
<1>8. Number(v, op) = IF IsSigned(op) /\ u >= h THEN u - m ELSE u
  BY <1>5 DEF Number, m, u
<1>9. Magnitude(v, op) = IF IsSigned(op) /\ u >= h THEN m - u ELSE u
  BY <1>5, <1>7 DEF Magnitude, u
<1>10. Number(v, op) % m = v % m
  <2> DEFINE y == u - m
             k == -1
  <2>1. y \in Int /\ u \in Int /\ k \in Int /\ y = u + m * k
    BY <1>1, <1>3
  <2> HIDE DEF y, k
  <2>2. y % m = u % m
    BY <1>1, <2>1, ModCong
  <2>3. QED
    BY <1>6, <1>8, <2>2 DEF y
<1>11. QED
  <2>1. Number(v, op) \in Int /\ Magnitude(v, op) \in 0 .. m - 1
    BY <1>1, <1>3, <1>8, <1>9
  <2>2. Number(v, op) = IF IsSigned(op) /\ u >= h THEN -Magnitude(v, op) ELSE Magnitude(v, op)
    BY <1>1, <1>3, <1>8, <1>9
  <2>3. IsSigned(op) => Magnitude(v, op) <= h
    BY <1>1, <1>3, <1>9
  <2>4. Magnitude(v, op) = 0 <=> u = 0
    BY <1>1, <1>3, <1>9
  <2>5. IsSigned(op) /\ u >= h => Magnitude(v, op) >= 1
    BY <1>1, <1>3, <1>9
  <2>6. QED
    BY <1>5, <1>10, <2>1, <2>2, <2>3, <2>4, <2>5 DEF m, h, u

-----------------------------------------------------------------------------
(* The multiplier.                                                         *)

\* The slices of the first factor: f and g, and what is left in e.
LEMMA ASlices ==
    ASSUME NEW a \in Words
    PROVE  /\ ASlice(a, 0) \in 0 .. Pow2[LowBits] - 1
           /\ ASlice(a, 1) \in 0 .. Pow2[LowBits] - 1
           /\ ASlice(a, 2) \in 0 .. Pow2[W - 2 * LowBits] - 1
           /\ a = ASlice(a, 0) + Pow2[LowBits] * ASlice(a, 1)
                    + Pow2[2 * LowBits] * ASlice(a, 2)
<1> DEFINE x == Pow2[LowBits]
           z == Pow2[W - 2 * LowBits]
           q == a \div x
           t == q \div x
           r0 == a % x
           r1 == q % x
<1>1. /\ LowBits \in Nat /\ 0 * LowBits = 0 /\ 1 * LowBits = LowBits
      /\ 2 * LowBits = LowBits + LowBits /\ 2 * LowBits \in Nat
      /\ W - 2 * LowBits \in Nat /\ W = 2 * LowBits + (W - 2 * LowBits)
  BY MultiCycleAssumption
<1>2. Pow2[2 * LowBits] = x * x /\ Pow2[W] = Pow2[2 * LowBits] * z
  BY <1>1, Pow2Add
<1>3. x \in Nat /\ x >= 1 /\ z \in Nat /\ z >= 1 /\ Pow2[0] = 1
  BY <1>1, Pow2Type, Pow2Def
<1>4. a \in Nat /\ a < Pow2[W]
  BY BitsOf DEF Words
<1>5. ASlice(a, 0) = r0
  <2>1. a \div 1 = a
    BY <1>4
  <2>2. QED
    BY <2>1, <1>1, <1>3 DEF ASlice
<1>6. ASlice(a, 1) = r1
  BY <1>1 DEF ASlice
<1>7. ASlice(a, 2) = t
  <2>1. a \div (x * x) = t
    BY <1>3, <1>4, DivDiv
  <2>2. QED
    BY <1>2, <2>1 DEF ASlice
<1> HIDE DEF x, z
<1>8. q \in Nat /\ r0 \in 0 .. x - 1 /\ a = x * q + r0
  BY <1>3, <1>4
<1> HIDE DEF r0, q
<1>9. t \in Nat /\ r1 \in 0 .. x - 1 /\ q = x * t + r1
  BY <1>3, <1>8
<1> HIDE DEF r1, t
<1>10. a = r0 + x * r1 + x * x * t
  <2>1. x * q = x * (x * t) + x * r1
    BY <1>3, <1>8, <1>9
  <2>2. x * (x * t) = x * x * t
    BY <1>3, <1>9
  <2>3. QED
    BY <1>3, <1>8, <1>9, <2>1, <2>2
<1>11. t <= z - 1
  <2> DEFINE y == x * x
  <2>1. y \in Nat /\ y >= 1 /\ y * t <= a /\ a < y * z
    <3>1. x * r1 \in Nat /\ y * t \in Nat /\ y \in Nat /\ y >= 1
      BY <1>3, <1>8, <1>9
    <3>2. QED
      BY <1>2, <1>4, <1>8, <1>10, <3>1
  <2> HIDE DEF y
  <2>2. t >= z => y * t >= y * z
    BY <2>1, <1>3, <1>9
  <2>3. y * t \in Int /\ y * z \in Int
    BY <2>1, <1>3, <1>9
  <2>4. QED
    BY <2>1, <2>2, <2>3, <1>3, <1>4, <1>9
<1>12. QED
  BY <1>2, <1>3, <1>5, <1>6, <1>7, <1>8, <1>9, <1>10, <1>11 DEF x, z

\* The slices of the second: m, n, p and q.
LEMMA BSlices ==
    ASSUME NEW b \in Words
    PROVE  /\ \A j \in 0 .. 3 : BSlice(b, j) \in 0 .. Pow2[W \div 4] - 1
           /\ b = BSlice(b, 0) + Pow2[W \div 4] * BSlice(b, 1)
                    + Pow2[2 * (W \div 4)] * BSlice(b, 2)
                    + Pow2[3 * (W \div 4)] * BSlice(b, 3)
<1> DEFINE w == W \div 4
           y == Pow2[w]
           q == b \div y
           s == q \div y
           t == s \div y
           r0 == b % y
           r1 == q % y
           r2 == s % y
<1>1. w \in Nat /\ W = 3 * w + w /\ 3 * w = 2 * w + w /\ 2 * w = w + w
      /\ 1 * w = w /\ 0 * w = 0 /\ 2 * w \in Nat /\ 3 * w \in Nat
  BY Widths
<1> HIDE DEF w
<1>2. y \in Nat /\ y >= 1 /\ Pow2[0] = 1
  BY <1>1, Pow2Type, Pow2Def
<1>3. Pow2[2 * w] = y * y /\ Pow2[3 * w] = (y * y) * y /\ Pow2[W] = ((y * y) * y) * y
  BY <1>1, Pow2Add
<1>4. b \in Nat /\ b < Pow2[W]
  BY BitsOf DEF Words
<1> HIDE DEF y
<1>5. q \in Nat /\ r0 \in 0 .. y - 1 /\ b = y * q + r0
  BY <1>2, <1>4
<1>6. s \in Nat /\ r1 \in 0 .. y - 1 /\ q = y * s + r1
  <2> HIDE DEF q, r0
  <2>1. QED
    BY <1>2, <1>5
<1>7. t \in Nat /\ r2 \in 0 .. y - 1 /\ s = y * t + r2
  <2> HIDE DEF s, q, r0, r1
  <2>1. QED
    BY <1>2, <1>6
<1>8. y * y \in Nat /\ y * y >= 1 /\ (y * y) * y \in Nat /\ (y * y) * y >= 1
  <2>1. y * y \in Nat /\ y * y >= 1
    BY <1>2
  <2> DEFINE yy == y * y
  <2> HIDE DEF yy
  <2>2. yy \in Nat /\ yy >= 1 => yy * y \in Nat /\ yy * y >= 1
    BY <1>2
  <2>3. QED
    BY <2>1, <2>2 DEF yy
<1>9. b \div (y * y) = s /\ b \div ((y * y) * y) = t
  <2>1. b \div (y * y) = s
    BY <1>2, <1>4, DivDiv
  <2> DEFINE yy == y * y
  <2>2. yy \in Nat /\ yy >= 1 /\ b \div yy = s
    BY <1>8, <2>1
  <2> HIDE DEF yy, s
  <2>3. b \div (yy * y) = s \div y
    BY <1>2, <1>4, <2>2, DivDiv
  <2>4. QED
    BY <2>1, <2>3 DEF yy, s
<1>10. /\ BSlice(b, 0) = r0 /\ BSlice(b, 1) = r1
       /\ BSlice(b, 2) = r2 /\ BSlice(b, 3) = t % y
  <2>1. b \div 1 = b
    BY <1>4
  <2>2. QED
    BY <1>1, <1>2, <1>3, <1>9, <2>1 DEF BSlice, w, y
<1> HIDE DEF q, s, t, r0, r1, r2
<1>11. q = r1 + y * r2 + (y * y) * t
  <2>1. y * s = y * (y * t) + y * r2
    BY <1>2, <1>6, <1>7
  <2>2. y * (y * t) = (y * y) * t
    BY <1>2, <1>7
  <2>3. QED
    BY <1>2, <1>6, <1>7, <2>1, <2>2
<1>12. b = r0 + y * r1 + (y * y) * r2 + ((y * y) * y) * t
  <2>1. y * q = y * r1 + y * (y * r2) + y * ((y * y) * t)
    BY <1>2, <1>5, <1>6, <1>7, <1>8, <1>11
  <2>2. y * (y * r2) = (y * y) * r2
    BY <1>2, <1>7
  <2>3. y * ((y * y) * t) = ((y * y) * y) * t
    BY <1>2, <1>7
  <2>4. QED
    BY <1>2, <1>5, <1>6, <1>7, <1>8, <2>1, <2>2, <2>3
<1>13. t < y
  <2> DEFINE c == (y * y) * y
  <2>1. c \in Nat /\ c >= 1 /\ b < c * y /\ c * t <= b
    <3>1. y * r1 \in Nat /\ (y * y) * r2 \in Nat /\ c * t \in Nat
      BY <1>2, <1>5, <1>6, <1>7, <1>8
    <3>2. QED
      BY <1>3, <1>4, <1>5, <1>8, <1>12, <3>1
  <2> HIDE DEF c
  <2>2. t >= y => c * t >= c * y
    BY <2>1, <1>2, <1>7
  <2>3. c * t \in Int /\ c * y \in Int
    BY <2>1, <1>2, <1>7
  <2>4. QED
    BY <2>1, <2>2, <2>3, <1>2, <1>4, <1>7
<1>14. t % y = t
  <2>1. t \in 0 .. y - 1
    BY <1>2, <1>7, <1>13
  <2>2. QED
    BY <1>2, <2>1, ModSmall
<1>15. \A j \in 0 .. 3 : BSlice(b, j) \in 0 .. y - 1
  <2>1. t \in 0 .. y - 1
    BY <1>2, <1>7, <1>13
  <2>2. QED
    BY <1>5, <1>6, <1>7, <1>10, <1>14, <2>1
<1>16. QED
  BY <1>3, <1>10, <1>12, <1>14, <1>15 DEF w, y

LEMMA FourFactors ==
    ASSUME NEW a \in Nat, NEW b \in Nat, NEW x \in Nat, NEW y \in Nat
    PROVE  (a * b) * (x * y) = (x * a) * (y * b)
<1>1. (a * b) * (x * y) = a * (b * (x * y)) /\ b * (x * y) = x * (y * b)
  OBVIOUS
<1>2. a * (x * (y * b)) = (x * a) * (y * b)
  OBVIOUS
<1>3. QED
  BY <1>1, <1>2

LEMMA SquareIsLess ==
    ASSUME NEW m \in Nat, m >= 1, NEW x \in 0 .. m - 1, NEW y \in 0 .. m - 1
    PROVE  x * y \in 0 .. m * m - 1
<1>1. x * y <= x * m /\ x * m <= (m - 1) * m /\ (m - 1) * m = m * m - m
  OBVIOUS
<1>2. x * y \in Nat /\ x * m \in Nat /\ m * m \in Nat
  OBVIOUS
<1>3. QED
  BY <1>1, <1>2

LEMMA RowIs ==
    ASSUME NEW a \in Words, NEW b \in Words, NEW j \in 0 .. 3,
           slices = [s \in Slices |-> ASlice(a, s[1]) * BSlice(b, s[2])]
    PROVE  Row(j) = a * (Pow2[j * (W \div 4)] * BSlice(b, j))
<1> DEFINE y == Pow2[j * (W \div 4)]
           f == BSlice(b, j)
           g == y * f
<1>1. /\ LowBits \in Nat /\ 0 * LowBits = 0 /\ 1 * LowBits = LowBits /\ 2 * LowBits \in Nat
      /\ j * (W \div 4) \in Nat
  BY Widths, MultiCycleAssumption
<1>2. y \in Nat /\ f \in Nat
  BY <1>1, BSlices, Pow2Type
<1>3. ASSUME NEW i \in 0 .. 2
      PROVE  Partial(<<i, j>>) = (Pow2[i * LowBits] * ASlice(a, i)) * g
  <2>1. i * LowBits \in Nat /\ Pow2[i * LowBits] \in Nat /\ ASlice(a, i) \in Nat
    <3>1. i = 0 \/ i = 1 \/ i = 2
      OBVIOUS
    <3>2. ASlice(a, 0) \in Nat /\ ASlice(a, 1) \in Nat /\ ASlice(a, 2) \in Nat
      BY ASlices
    <3>3. QED
      BY <1>1, <3>1, <3>2, Pow2Type
  <2>2. <<i, j>> \in Slices
    BY DEF Slices
  <2>3. slices[<<i, j>>] = ASlice(a, i) * f
    BY <2>2
  <2>4. Pow2[i * LowBits + j * (W \div 4)] = Pow2[i * LowBits] * y
    BY <1>1, <2>1, Pow2Add
  <2>5. Partial(<<i, j>>) = (ASlice(a, i) * f) * (Pow2[i * LowBits] * y)
    BY <2>3, <2>4 DEF Partial
  <2> HIDE DEF y, f
  <2>6. QED
    BY <1>2, <2>1, <2>5, FourFactors DEF g
<1> DEFINE a0 == ASlice(a, 0)
           a1 == Pow2[LowBits] * ASlice(a, 1)
           a2 == Pow2[2 * LowBits] * ASlice(a, 2)
<1>4. a0 \in Nat /\ a1 \in Nat /\ a2 \in Nat /\ a = a0 + a1 + a2
  BY <1>1, ASlices, Pow2Type
<1>5. Row(j) = a0 * g + a1 * g + a2 * g
  <2>1. Pow2[0] = 1 /\ 1 * a0 = a0
    BY <1>4, Pow2Def
  <2>2. Partial(<<0, j>>) = a0 * g /\ Partial(<<1, j>>) = a1 * g /\ Partial(<<2, j>>) = a2 * g
    BY <1>1, <1>3, <2>1
  <2>3. QED
    BY <2>2 DEF Row
<1>6. g \in Nat
  BY <1>2
<1> HIDE DEF a0, a1, a2, g
<1>7. a0 * g + a1 * g + a2 * g = a * g
  BY <1>4, <1>6
<1>8. QED
  BY <1>5, <1>7 DEF g

\* The sum of the partial products is the product.
LEMMA ProductIs ==
    ASSUME NEW a \in Words, NEW b \in Words,
           slices = [s \in Slices |-> ASlice(a, s[1]) * BSlice(b, s[2])]
    PROVE  Product = a * b
<1> DEFINE b0 == BSlice(b, 0)
           b1 == Pow2[W \div 4] * BSlice(b, 1)
           b2 == Pow2[2 * (W \div 4)] * BSlice(b, 2)
           b3 == Pow2[3 * (W \div 4)] * BSlice(b, 3)
<1>1. /\ W \div 4 \in Nat /\ 2 * (W \div 4) \in Nat /\ 3 * (W \div 4) \in Nat
      /\ 0 * (W \div 4) = 0 /\ 1 * (W \div 4) = W \div 4 /\ Pow2[0] = 1
  BY Widths, Pow2Def
<1>2. b0 \in Nat /\ b1 \in Nat /\ b2 \in Nat /\ b3 \in Nat /\ b = b0 + b1 + b2 + b3
  BY <1>1, BSlices, Pow2Type
<1>3. Row(0) = a * b0 /\ Row(1) = a * b1 /\ Row(2) = a * b2 /\ Row(3) = a * b3
  <2>1. 1 * b0 = b0
    BY <1>2
  <2>2. QED
    BY <1>1, <2>1, RowIs
<1> HIDE DEF b0, b1, b2, b3
<1>4. a \in Nat /\ b \in Nat
  BY BitsOf DEF Words
<1>5. a * b0 + a * b1 + a * b2 + a * b3 = a * b
  BY <1>2, <1>4
<1>6. Row(0) + Row(1) + Row(2) + Row(3) = a * b
  BY <1>3, <1>5
<1>7. a * b \in 0 .. Pow2[2 * W] - 1
  <2>1. Pow2[2 * W] = Pow2[W] * Pow2[W] /\ Pow2[W] \in Nat /\ Pow2[W] >= 1
    <3>1. 2 * W = W + W
      BY Widths
    <3>2. QED
      BY <3>1, Widths, Pow2Add, Pow2Type
  <2>2. QED
    BY <2>1, SquareIsLess DEF Words
<1>8. Pow2[2 * W] \in Nat /\ Pow2[2 * W] >= 1
  BY Widths, Pow2Type
<1>9. QED
  BY <1>6, <1>7, <1>8, ModSmall DEF Product

\* No partial product overflows its register.
LEMMA PartialFits ==
    ASSUME NEW a \in Words, NEW b \in Words, NEW s \in Slices
    PROVE  ASlice(a, s[1]) * BSlice(b, s[2]) \in 0 .. Pow2[SliceBits] - 1
<1> DEFINE w == W \div 4
           l == IF LowBits > W - 2 * LowBits THEN LowBits ELSE W - 2 * LowBits
           d == l - LowBits
           dd == l - (W - 2 * LowBits)
<1>1. /\ w \in Nat /\ l \in Nat /\ LowBits \in Nat /\ W - 2 * LowBits \in Nat
      /\ d \in Nat /\ dd \in Nat /\ l = LowBits + d /\ l = (W - 2 * LowBits) + dd
      /\ SliceBits = l + w
  BY Widths, MultiCycleAssumption DEF SliceBits
<1> HIDE DEF w, l, d, dd
<1>2. /\ Pow2[l] = Pow2[LowBits] * Pow2[d] /\ Pow2[l] = Pow2[W - 2 * LowBits] * Pow2[dd]
      /\ Pow2[SliceBits] = Pow2[l] * Pow2[w]
  BY <1>1, Pow2Add
<1>3. /\ Pow2[d] \in Nat /\ Pow2[d] >= 1 /\ Pow2[dd] \in Nat /\ Pow2[dd] >= 1
      /\ Pow2[l] \in Nat /\ Pow2[l] >= 1 /\ Pow2[w] \in Nat /\ Pow2[w] >= 1
      /\ Pow2[LowBits] \in Nat /\ Pow2[W - 2 * LowBits] \in Nat
  BY <1>1, Pow2Type
<1>4. Pow2[LowBits] <= Pow2[l] /\ Pow2[W - 2 * LowBits] <= Pow2[l]
  <2>1. \A x, k \in Nat : k >= 1 => x <= x * k
    OBVIOUS
  <2>2. QED
    BY <2>1, <1>2, <1>3
<1> DEFINE e == ASlice(a, s[1])
           f == BSlice(b, s[2])
<1>5. e \in 0 .. Pow2[l] - 1
  <2>1. s[1] \in {0, 1, 2}
    BY DEF Slices
  <2>2. QED
    BY <2>1, <1>3, <1>4, ASlices
<1>6. f \in 0 .. Pow2[w] - 1
  <2>1. s[2] \in 0 .. 3
    BY DEF Slices
  <2>2. QED
    BY <2>1, BSlices DEF w
<1> HIDE DEF e, f
<1>7. ASSUME NEW m \in Nat, NEW n \in Nat, m >= 1, n >= 1, e <= m - 1, f <= n - 1
      PROVE  e * f \in 0 .. m * n - 1
  <2>1. e \in Nat /\ f \in Nat
    BY <1>5, <1>6, <1>3
  <2>2. e * f <= e * n /\ e * n <= (m - 1) * n /\ (m - 1) * n = m * n - n
    BY <1>7, <2>1
  <2>3. e * f \in Nat /\ e * n \in Nat /\ m * n \in Nat
    BY <2>1
  <2>4. QED
    BY <1>7, <2>2, <2>3
<1>8. QED
  BY <1>2, <1>3, <1>5, <1>6, <1>7 DEF e, f

-----------------------------------------------------------------------------
(* The divider.                                                            *)

\* After k steps x holds the remainder so far, the bits of the dividend still
\* to come and the quotient so far, side by side.
Progress(x, a, b, k) ==
    \E q, r, t \in Nat :
        /\ x = r * Pow2[W] + t * Pow2[k] + q
        /\ a = (q * b + r) * Pow2[W - k] + t
        /\ q < Pow2[k] /\ t < Pow2[W - k] /\ r < b

LEMMA DivStarts ==
    ASSUME NEW a \in Words, NEW b \in Words, b # 0
    PROVE  Progress(a, a, b, 0)
<1>1. Pow2[0] = 1 /\ W - 0 = W /\ Pow2[W] \in Nat /\ a \in Nat /\ a < Pow2[W] /\ b \in Nat
  BY Pow2Def, Pow2Type, Widths DEF Words
<1>2. /\ a = 0 * Pow2[W] + a * Pow2[0] + 0
      /\ a = (0 * b + 0) * Pow2[W - 0] + a
      /\ 0 < Pow2[0] /\ a < Pow2[W - 0] /\ 0 < b
  BY <1>1
<1>3. QED
  BY <1>1, <1>2 DEF Progress

LEMMA DivAdvances ==
    ASSUME NEW a \in Words, NEW b \in Words, NEW k \in 0 .. W - 1, Progress(p, a, b, k)
    PROVE  Progress(DivStep(b), a, b, k + 1) /\ DivStep(b) \in 0 .. Pow2[2 * W] - 1
<1> DEFINE n == Pow2[W]
           u == Pow2[W - (k + 1)]
           v == Pow2[k]
<1>1. /\ k \in Nat /\ W - (k + 1) \in Nat /\ W - k = (W - (k + 1)) + 1 /\ k + 1 \in Nat
      /\ W = k + (W - k) /\ W - k \in Nat /\ W \in Nat /\ 2 * W = W + W
  BY Widths
<1>2. /\ Pow2[W - k] = 2 * u /\ Pow2[k + 1] = 2 * v /\ n = v * Pow2[W - k]
      /\ Pow2[2 * W] = n * n
  <2>1. Pow2[W - k] = 2 * u
    BY <1>1, Pow2Def
  <2>2. Pow2[k + 1] = 2 * v
    BY <1>1, Pow2Def
  <2>3. n = v * Pow2[W - k]
    BY <1>1, Pow2Add
  <2>4. Pow2[2 * W] = n * n
    BY <1>1, Pow2Add
  <2>5. QED
    BY <2>1, <2>2, <2>3, <2>4
<1>3. u \in Nat /\ u >= 1 /\ v \in Nat /\ v >= 1 /\ n \in Nat /\ n >= 1
      /\ a \in Nat /\ a < n /\ b \in Nat
  BY <1>1, Pow2Type DEF Words
<1>4. PICK q \in Nat, r \in Nat, t \in Nat :
          /\ p = r * n + t * v + q
          /\ a = (q * b + r) * (2 * u) + t
          /\ q < v /\ t < 2 * u /\ r < b
  BY <1>2 DEF Progress
<1>5. PICK t1 \in {0, 1}, tt \in 0 .. u - 1 : t = u * t1 + tt
  <2>1. CASE t < u
    <3>1. t = u * 0 + t /\ t \in 0 .. u - 1
      BY <2>1, <1>3
    <3>2. QED
      BY <3>1
  <2>2. CASE t >= u
    <3>1. t = u * 1 + (t - u) /\ t - u \in 0 .. u - 1
      BY <2>2, <1>3, <1>4
    <3>2. QED
      BY <3>1
  <2>3. QED
    BY <2>1, <2>2, <1>3
<1> DEFINE h == 2 * r + t1
           vv == 2 * v
           low == tt * vv + 2 * q
           qb == q * b
<1>6. n = vv * u /\ vv \in Nat /\ vv >= 1 /\ qb \in Nat /\ h \in Nat /\ tt \in Nat
  BY <1>2, <1>3
<1>7. 2 * p = h * n + low
  <2>1. t * v = (u * t1) * v + tt * v
    BY <1>3, <1>5
  <2>2. 2 * ((u * t1) * v) = t1 * n
    <3>1. CASE t1 = 0
      BY <3>1, <1>3
    <3>2. CASE t1 = 1
      <4>1. 2 * (u * v) = (2 * v) * u
        BY <1>3
      <4>2. QED
        BY <3>2, <4>1, <1>3, <1>6
    <3>3. QED
      BY <3>1, <3>2
  <2>3. 2 * (tt * v) = tt * vv
    BY <1>3, <1>6
  <2>4. h * n = 2 * (r * n) + t1 * n
    BY <1>3
  <2>5. r * n \in Int /\ t * v \in Int /\ tt * v \in Int /\ (u * t1) * v \in Int /\ t1 * n \in Int
    BY <1>3
  <2>6. 2 * p = 2 * (r * n) + 2 * (t * v) + 2 * q
    BY <1>4, <2>5
  <2>7. 2 * (t * v) = t1 * n + tt * vv
    BY <2>1, <2>2, <2>3, <2>5
  <2> HIDE DEF vv, h
  <2>8. tt * vv \in Int /\ h * n \in Int
    BY <1>3, <1>6
  <2>9. QED
    BY <2>4, <2>5, <2>6, <2>7, <2>8
<1>8. a = (2 * qb + h) * u + tt
  <2>1. (qb + r) * (2 * u) = (2 * qb + 2 * r) * u
    BY <1>3, <1>6
  <2>2. (2 * qb + h) * u = (2 * qb + 2 * r) * u + t1 * u
    BY <1>3, <1>6
  <2>3. t1 * u = u * t1 /\ t1 * u \in Int /\ (2 * qb + 2 * r) * u \in Int
    BY <1>3, <1>6
  <2>4. QED
    BY <1>4, <1>5, <2>1, <2>2, <2>3
<1>9. low \in 0 .. n - 1
  <2>1. tt * vv <= (u - 1) * vv /\ (u - 1) * vv = n - vv
    BY <1>3, <1>6
  <2>2. tt * vv \in Nat
    BY <1>6
  <2>3. 2 * q <= vv - 2
    BY <1>4, <1>3
  <2>4. QED
    BY <2>1, <2>2, <2>3, <1>6, <1>3
<1>10. h < n
  <2> HIDE DEF h, vv, qb
  <2>1. h * u <= a
    <3>1. (2 * qb + h) * u = (2 * qb) * u + h * u /\ (2 * qb) * u \in Nat /\ h * u \in Nat
      BY <1>3, <1>6
    <3>2. QED
      BY <3>1, <1>6, <1>8
  <2>2. h >= vv => h * u >= vv * u
    BY <1>3, <1>6
  <2>3. h * u \in Int /\ vv * u \in Int
    BY <1>3, <1>6
  <2>4. h < vv
    BY <2>1, <2>2, <2>3, <1>3, <1>6
  <2>5. vv <= vv * u
    BY <1>3, <1>6
  <2>6. QED
    BY <2>4, <2>5, <1>3, <1>6
<1>11. 2 * p \in 0 .. n * n - 1 /\ (2 * p) % (n * n) = 2 * p /\ (2 * p) \div n = h
  <2> HIDE DEF h, low
  <2>1. h * n <= (n - 1) * n /\ (n - 1) * n = n * n - n
    BY <1>3, <1>6, <1>10
  <2>2. h * n \in Nat /\ n * n \in Nat /\ h * n = n * h
    BY <1>3, <1>6
  <2>3. 2 * p \in 0 .. n * n - 1
    BY <2>1, <2>2, <1>3, <1>7, <1>9
  <2> DEFINE x == 2 * p
             nn == n * n
  <2>4. x = n * h + low /\ x \in 0 .. nn - 1 /\ nn \in Nat /\ nn >= 1 /\ h \in Int
    BY <2>2, <2>3, <1>6, <1>7, <1>9
  <2> HIDE DEF x, nn
  <2>5. x % nn = x
    BY <2>4, ModSmall
  <2>6. x \div n = h
    BY <2>4, <1>3, <1>9, DivModUnique
  <2>7. QED
    BY <2>3, <2>5, <2>6 DEF x, nn
<1>12. DivStep(b) = IF h >= b THEN 2 * p - b * n + 1 ELSE 2 * p
  BY <1>2, <1>11 DEF DivStep
<1>13. CASE h >= b
  <2> DEFINE x == 2 * p - b * n + 1
             qq == 2 * q + 1
             rr == h - b
  <2>1. qq \in Nat /\ rr \in Nat /\ qq < vv /\ rr < b
    BY <1>13, <1>3, <1>4, <1>5, <1>6
  <2>2. x = rr * n + tt * vv + qq
    <3>1. (h - b) * n = h * n - b * n /\ h * n \in Int /\ b * n \in Int /\ tt * vv \in Int
      BY <1>3, <1>6
    <3> HIDE DEF h, vv
    <3>2. QED
      BY <1>7, <3>1, <1>3, <1>6
  <2>3. a = (qq * b + rr) * u + tt
    <3>1. qq * b + rr = 2 * qb + h
      <4>1. (2 * q + 1) * b = 2 * (q * b) + b
        BY <1>3
      <4> HIDE DEF h
      <4>2. QED
        BY <4>1, <1>3, <1>6
    <3>2. QED
      BY <3>1, <1>8
  <2>4. x \in 0 .. Pow2[2 * W] - 1
    <3>1. rr * n \in Nat /\ tt * vv \in Nat
      BY <2>1, <1>3, <1>6
    <3>2. x >= 0
      BY <2>1, <2>2, <3>1
    <3>3. b * n >= n
      <4>1. b >= 1
        BY <1>3, <1>4
      <4>2. QED
        BY <4>1, <1>3
    <3>4. b * n \in Int /\ n * n \in Int
      BY <1>3
    <3>5. x \in Int /\ x <= 2 * p
      BY <1>11, <3>3, <3>4, <1>3
    <3> HIDE DEF x
    <3>6. QED
      BY <1>2, <1>11, <3>2, <3>4, <3>5
  <2> HIDE DEF x, qq, rr, vv
  <2>5. Progress(x, a, b, k + 1)
    BY <1>2, <1>3, <1>5, <1>6, <2>1, <2>2, <2>3 DEF Progress, vv
  <2>6. QED
    BY <1>12, <1>13, <2>4, <2>5 DEF x
<1>14. CASE h < b
  <2> DEFINE x == 2 * p
             qq == 2 * q
  <2>1. qq \in Nat /\ qq < vv
    BY <1>3, <1>4
  <2>2. x = h * n + tt * vv + qq
    <3>1. h * n \in Int /\ tt * vv \in Int
      BY <1>3, <1>6
    <3> HIDE DEF h, vv
    <3>2. QED
      BY <1>7, <3>1, <1>3, <1>6
  <2>3. a = (qq * b + h) * u + tt
    <3>1. (2 * q) * b = 2 * (q * b)
      BY <1>3
    <3>2. QED
      BY <3>1, <1>8
  <2> HIDE DEF qq, vv, h, x
  <2>5. Progress(x, a, b, k + 1)
    BY <1>2, <1>3, <1>5, <1>6, <1>14, <2>1, <2>2, <2>3 DEF Progress, vv
  <2>6. QED
    BY <1>2, <1>11, <1>12, <1>14, <1>3, <1>6, <2>5 DEF x
<1>15. QED
  BY <1>13, <1>14, <1>3, <1>6

\* After W steps they are the quotient and the remainder.
LEMMA DivEnds ==
    ASSUME NEW a \in Words, NEW b \in Words, Progress(p, a, b, W)
    PROVE  /\ Quotient \in Nat /\ Remainder \in Nat /\ Remainder < b
           /\ a = Quotient * b + Remainder
<1> DEFINE n == Pow2[W]
<1>1. Pow2[0] = 1 /\ W - W = 0 /\ n \in Nat /\ n >= 1 /\ b \in Nat
  BY Pow2Def, Pow2Type, Widths DEF Words
<1>2. PICK q \in Nat, r \in Nat, t \in Nat :
          /\ p = r * n + t * n + q
          /\ a = (q * b + r) * 1 + t
          /\ q < n /\ t < 1 /\ r < b
  BY <1>1 DEF Progress
<1>3. t = 0 /\ t * n = 0 /\ q * b \in Nat /\ r * n = n * r /\ n * r \in Nat
  BY <1>1, <1>2
<1>4. p = n * r + q /\ a = q * b + r /\ q \in 0 .. n - 1
  BY <1>1, <1>2, <1>3
<1> HIDE DEF n
<1>5. p \div n = r /\ p % n = q
  <2>1. n \in Nat /\ n >= 1
    BY <1>1
  <2>2. r \in Int /\ p = n * r + q /\ q \in 0 .. n - 1
    BY <1>4
  <2>3. QED
    BY <2>1, <2>2, DivModUnique
<1>6. QED
  BY <1>2, <1>4, <1>5 DEF Quotient, Remainder, n

-----------------------------------------------------------------------------
(* The results.                                                            *)

\* The sign of a product is that of its factors.
LEMMA MulIsRight ==
    ASSUME NEW i \in Instrs, i.op \in MulOps, NEW x,
           x = Magnitude(i.a, i.op) * Magnitude(i.b, i.op)
    PROVE  Signed(MulSign(i.op, [a |-> i.a, b |-> i.b]), x, Bits(i.op)) = Reference(i)
<1> DEFINE na == Number(i.a, i.op)
           nb == Number(i.b, i.op)
           ma == Magnitude(i.a, i.op)
           mb == Magnitude(i.b, i.op)
           neg == MulSign(i.op, [a |-> i.a, b |-> i.b])
<1>1. i.a \in Words /\ i.b \in Words /\ IsSigned(i.op)
  BY MultiCycleAssumption DEF Instrs, Words, MulOps, IsSigned
<1>2. /\ ma \in Nat /\ mb \in Nat
      /\ na = IF Msb(i.a, Bits(i.op)) THEN -ma ELSE ma
      /\ nb = IF Msb(i.b, Bits(i.op)) THEN -mb ELSE mb
  BY <1>1, NumberOf, BitsOf
<1>3. neg <=> ~(Msb(i.a, Bits(i.op)) <=> Msb(i.b, Bits(i.op)))
  BY <1>1 DEF MulSign, Msb
<1> HIDE DEF na, nb, ma, mb, neg
<1>4. na * nb = IF neg THEN -(ma * mb) ELSE ma * mb
  <2>1. /\ ma * mb \in Int /\ (-ma) * mb = -(ma * mb) /\ ma * (-mb) = -(ma * mb)
        /\ (-ma) * (-mb) = ma * mb
    BY <1>2
  <2>2. CASE Msb(i.a, Bits(i.op)) /\ Msb(i.b, Bits(i.op))
    BY <1>2, <1>3, <2>1, <2>2
  <2>3. CASE Msb(i.a, Bits(i.op)) /\ ~Msb(i.b, Bits(i.op))
    BY <1>2, <1>3, <2>1, <2>3
  <2>4. CASE ~Msb(i.a, Bits(i.op)) /\ Msb(i.b, Bits(i.op))
    BY <1>2, <1>3, <2>1, <2>4
  <2>5. CASE ~Msb(i.a, Bits(i.op)) /\ ~Msb(i.b, Bits(i.op))
    <3>1. ~neg
      BY <1>3, <2>5
    <3>2. na = ma /\ nb = mb
      BY <1>2, <2>5, Zenon
    <3>3. QED
      BY <3>1, <3>2
  <2>6. QED
    BY <2>2, <2>3, <2>4, <2>5
<1>5. x \in Int /\ x = ma * mb
  BY <1>2 DEF ma, mb
<1>6. Signed(neg, x, Bits(i.op)) = Sext((na * nb) % Pow2[Bits(i.op)], Bits(i.op))
  <2>1. CASE neg
    <3>1. Signed(TRUE, x, Bits(i.op)) = Sext((-x) % Pow2[Bits(i.op)], Bits(i.op))
      BY <1>5, SignedIs
    <3>2. QED
      BY <2>1, <3>1, <1>4, <1>5 DEF Signed
  <2>2. CASE ~neg
    <3>1. Signed(FALSE, x, Bits(i.op)) = Sext(x % Pow2[Bits(i.op)], Bits(i.op))
      BY <1>5, SignedIs
    <3>2. QED
      BY <2>2, <3>1, <1>4, <1>5 DEF Signed
  <2>3. QED
    BY <2>1, <2>2
<1>7. Reference(i) = Sext((na * nb) % Pow2[Bits(i.op)], Bits(i.op))
  BY DEF Reference, MulOps, DivOps, na, nb
<1>8. QED
  BY <1>6, <1>7 DEF neg

\* There is one quotient rounded towards zero.
LEMMA QuotientIs ==
    ASSUME NEW a \in Int, NEW b \in Int, NEW q \in -Pow2[W] .. Pow2[W],
           NEW r \in Int, r = a - b * q, Abs(r) < Abs(b), r # 0 => (r < 0 <=> a < 0)
    PROVE  QuotientOf(a, b) = q
<1> DEFINE Rounded(k) == LET rr == a - b * k
                         IN  Abs(rr) < Abs(b) /\ (rr # 0 => (rr < 0 <=> a < 0))
<1>0. Pow2[W] \in Nat
  BY Pow2Type, Widths
<1>1. ASSUME NEW k \in -Pow2[W] .. Pow2[W], Rounded(k) PROVE k = q
  <2> DEFINE s == a - b * k
  <2>0. k \in Int /\ q \in Int
    BY <1>0
  <2>1. s \in Int /\ Abs(s) < Abs(b) /\ (s # 0 => (s < 0 <=> a < 0))
    BY <1>1, <2>0
  <2>2. b * (k - q) = r - s
    <3>1. b * (k - q) = b * k - b * q /\ b * k \in Int /\ b * q \in Int
      BY <2>0
    <3>2. QED
      BY <3>1
  <2> HIDE DEF s
  <2>3. Abs(r - s) < Abs(b)
    BY <2>1 DEF Abs
  <2>4. k - q # 0 => Abs(b * (k - q)) >= Abs(b)
    <3> DEFINE d == k - q
    <3>1. d \in Int
      BY <2>0
    <3> HIDE DEF d
    <3>2. CASE d >= 1 /\ b >= 0
      <4>1. b * d >= b
        BY <3>1, <3>2
      <4>2. b * d \in Int
        BY <3>1
      <4>3. QED
        BY <4>1, <4>2, <3>2 DEF Abs, d
    <3>3. CASE d >= 1 /\ b < 0
      <4>1. b * d <= b
        BY <3>1, <3>3
      <4>2. b * d \in Int
        BY <3>1
      <4>3. QED
        BY <4>1, <4>2, <3>3 DEF Abs, d
    <3>4. CASE d <= -1 /\ b >= 0
      <4>1. b * d <= -b
        BY <3>1, <3>4
      <4>2. b * d \in Int
        BY <3>1
      <4>3. QED
        BY <4>1, <4>2, <3>4 DEF Abs, d
    <3>5. CASE d <= -1 /\ b < 0
      <4>1. b * d >= -b
        BY <3>1, <3>5
      <4>2. b * d \in Int
        BY <3>1
      <4>3. QED
        BY <4>1, <4>2, <3>5 DEF Abs, d
    <3>6. QED
      BY <3>1, <3>2, <3>3, <3>4, <3>5 DEF d
  <2>5. QED
    BY <2>0, <2>1, <2>2, <2>3, <2>4 DEF Abs
<1>2. Rounded(q)
  OBVIOUS
<1>3. QuotientOf(a, b) = CHOOSE k \in -Pow2[W] .. Pow2[W] : Rounded(k)
  BY DEF QuotientOf
<1> HIDE DEF Rounded
<1>4. QED
  BY <1>1, <1>2, <1>3

\* Quotient and remainder of the numbers from those of the magnitudes.
LEMMA DivisionOf ==
    ASSUME NEW op, NEW a \in Words, NEW b \in Words, NEW q \in Nat, NEW r \in Nat,
           Magnitude(a, op) = q * Magnitude(b, op) + r, r < Magnitude(b, op)
    PROVE  LET aNeg == IsSigned(op) /\ Msb(a, Bits(op))
               bNeg == IsSigned(op) /\ Msb(b, Bits(op))
               quotient == QuotientOf(Number(a, op), Number(b, op))
           IN  /\ quotient = IF aNeg # bNeg THEN -q ELSE q
               /\ Number(a, op) - Number(b, op) * quotient = IF aNeg THEN -r ELSE r
               /\ Number(b, op) # 0
<1> DEFINE na == Number(a, op)
           nb == Number(b, op)
           ma == Magnitude(a, op)
           mb == Magnitude(b, op)
           aNeg == IsSigned(op) /\ Msb(a, Bits(op))
           bNeg == IsSigned(op) /\ Msb(b, Bits(op))
           qq == IF aNeg # bNeg THEN -q ELSE q
           rr == IF aNeg THEN -r ELSE r
<1>1. /\ ma \in Nat /\ mb \in Nat /\ ma < Pow2[W] /\ Pow2[W] \in Nat
      /\ na = (IF aNeg THEN -ma ELSE ma) /\ nb = (IF bNeg THEN -mb ELSE mb)
      /\ aNeg => ma >= 1
  BY NumberOf, BitsOf
<1>0. aNeg \in BOOLEAN /\ bNeg \in BOOLEAN
  OBVIOUS
<1> HIDE DEF na, nb, ma, mb, aNeg, bNeg
<1>2. ma = q * mb + r /\ r < mb
  BY DEF ma, mb
<1>3. q * mb \in Nat /\ mb >= 1
  BY <1>1, <1>2
<1>4. qq \in -Pow2[W] .. Pow2[W]
  <2>1. q <= q * mb
    BY <1>1, <1>3
  <2>2. q <= Pow2[W]
    BY <2>1, <1>1, <1>2, <1>3
  <2>3. QED
    BY <2>2, <1>1
<1>5. rr \in Int /\ rr = na - nb * qq
  <2>1. (-mb) * q = -(q * mb) /\ (-mb) * (-q) = q * mb /\ mb * (-q) = -(q * mb) /\ mb * q = q * mb
    BY <1>1
  <2>2. CASE aNeg /\ bNeg
    <3>1. na = -ma /\ nb = -mb
      BY <1>1, <2>2, Zenon
    <3>2. qq = q /\ rr = -r
      BY <1>0, <2>2, Zenon DEF qq, rr
    <3>3. (-mb) * q = nb * qq
      BY <3>1, <3>2, Zenon
    <3>4. QED
      BY <1>1, <1>2, <1>3, <2>1, <3>1, <3>2, <3>3
  <2>3. CASE aNeg /\ ~bNeg
    <3>1. na = -ma /\ nb = mb
      BY <1>1, <2>3, Zenon
    <3>2. qq = -q /\ rr = -r
      BY <1>0, <2>3, Zenon DEF qq, rr
    <3>3. mb * (-q) = nb * qq
      BY <3>1, <3>2, Zenon
    <3>4. QED
      BY <1>1, <1>2, <1>3, <2>1, <3>1, <3>2, <3>3
  <2>4. CASE ~aNeg /\ bNeg
    <3>1. na = ma /\ nb = -mb
      BY <1>1, <2>4, Zenon
    <3>2. qq = -q /\ rr = r
      BY <1>0, <2>4, Zenon DEF qq, rr
    <3>3. (-mb) * (-q) = nb * qq
      BY <3>1, <3>2, Zenon
    <3>4. QED
      BY <1>1, <1>2, <1>3, <2>1, <3>1, <3>2, <3>3
  <2>5. CASE ~aNeg /\ ~bNeg
    <3>1. na = ma /\ nb = mb
      BY <1>1, <2>5, Zenon
    <3>2. qq = q /\ rr = r
      BY <1>0, <2>5, Zenon DEF qq, rr
    <3>3. mb * q = nb * qq
      BY <3>1, <3>2, Zenon
    <3>4. QED
      BY <1>1, <1>2, <1>3, <2>1, <3>1, <3>2, <3>3
  <2>6. QED
    BY <2>2, <2>3, <2>4, <2>5
<1>6. Abs(rr) < Abs(nb) /\ (rr # 0 => (rr < 0 <=> na < 0))
  BY <1>1, <1>2, <1>3 DEF Abs
<1>7. na \in Int /\ nb \in Int /\ nb # 0
  BY <1>1, <1>3
<1> HIDE DEF qq, rr
<1>8. QuotientOf(na, nb) = qq
  BY <1>4, <1>5, <1>6, <1>7, QuotientIs
<1>9. QED
  BY <1>5, <1>7, <1>8 DEF na, nb, ma, mb, aNeg, bNeg, qq, rr

\* What a division by zero leaves with: all ones, or the dividend.
LEMMA ByZeroIsRight ==
    ASSUME NEW i \in Instrs, i.op \in DivOps, Low(i.b, Bits(i.op)) = 0
    PROVE  (IF IsRem(i.op) THEN Sext(i.a, Bits(i.op)) ELSE Pow2[W] - 1) = Reference(i)
<1> DEFINE m == Pow2[Bits(i.op)]
           na == Number(i.a, i.op)
<1>1. i.a \in Words /\ i.b \in Words /\ i.a \in Int
  <2>1. Pow2[W] \in Nat
    BY Widths, Pow2Type
  <2>2. i.a \in Words /\ i.b \in Words
    BY MultiCycleAssumption DEF Instrs, Words
  <2>3. QED
    BY <2>1, <2>2 DEF Words
<1>2. Number(i.b, i.op) = 0 /\ na \in Int /\ na % m = i.a % m
  BY <1>1, NumberOf
<1>3. m \in Nat /\ m = 2 * Pow2[Bits(i.op) - 1] /\ Pow2[Bits(i.op) - 1] \in Nat
      /\ Pow2[Bits(i.op) - 1] >= 1 /\ m >= 2
  BY BitsOf
<1>4. CASE IsRem(i.op)
  <2>1. Reference(i) = Sext(na % m, Bits(i.op))
    BY <1>2, <1>4 DEF Reference, MulOps, DivOps, IsRem
  <2>2. Sext(i.a % m, Bits(i.op)) = Sext(i.a, Bits(i.op))
    BY <1>1, SextLow
  <2>3. QED
    BY <1>2, <1>4, <2>1, <2>2
<1>5. CASE ~IsRem(i.op)
  <2>1. Reference(i) = Sext((-1) % m, Bits(i.op))
    BY <1>2, <1>5 DEF Reference, MulOps, DivOps
  <2> HIDE DEF m
  <2>2. Sext((-1) % m, Bits(i.op)) = Sext(-1, Bits(i.op))
    BY SextLow DEF m
  <2>3. Low(-1, Bits(i.op)) = m - 1
    <3>1. -1 = m * (-1) + (m - 1) /\ m - 1 \in 0 .. m - 1 /\ -1 \in Int
      BY <1>3
    <3>2. (-1) % m = m - 1
      BY <1>3, <3>1, DivModUnique
    <3>3. QED
      BY <3>2 DEF Low, m
  <2>4. Msb(-1, Bits(i.op))
    BY <1>3, <2>3 DEF Msb
  <2>5. Neg(-1, Bits(i.op)) = 1
    <3>1. 1 % m = 1
      BY <1>3, ModSmall
    <3>2. m - (m - 1) = 1
      BY <1>3
    <3>3. QED
      BY <2>3, <3>1, <3>2 DEF Neg, m
  <2>6. QED
    BY <1>5, <2>1, <2>2, <2>4, <2>5 DEF Sext
<1>6. QED
  BY <1>4, <1>5

\* The sign of a quotient is that of the operands, the sign of a remainder
\* that of the dividend.
LEMMA DivIsRight ==
    ASSUME NEW i \in Instrs, i.op \in DivOps, Quotient \in Nat, Remainder \in Nat,
           Magnitude(i.a, i.op) = Quotient * Magnitude(i.b, i.op) + Remainder,
           Remainder < Magnitude(i.b, i.op)
    PROVE  Signed(DivSign(i.op, [a |-> i.a, b |-> i.b]),
                  IF IsRem(i.op) THEN Remainder ELSE Quotient, Bits(i.op)) = Reference(i)
<1> DEFINE na == Number(i.a, i.op)
           nb == Number(i.b, i.op)
           qo == QuotientOf(na, nb)
           aNeg == IsSigned(i.op) /\ Msb(i.a, Bits(i.op))
           bNeg == IsSigned(i.op) /\ Msb(i.b, Bits(i.op))
           neg == DivSign(i.op, [a |-> i.a, b |-> i.b])
           v == IF IsRem(i.op) THEN Remainder ELSE Quotient
           m == Pow2[Bits(i.op)]
<1>1. i.a \in Words /\ i.b \in Words
  BY MultiCycleAssumption DEF Instrs, Words
<1>2. /\ qo = IF aNeg # bNeg THEN -Quotient ELSE Quotient
      /\ na - nb * qo = IF aNeg THEN -Remainder ELSE Remainder
      /\ nb # 0
  BY <1>1, DivisionOf
<1>3. IsSigned(i.op) => ~Msb(Remainder, Bits(i.op))
  <2>1. SUFFICES ASSUME IsSigned(i.op) PROVE ~Msb(Remainder, Bits(i.op))
    OBVIOUS
  <2>2. Magnitude(i.b, i.op) <= Pow2[Bits(i.op) - 1] /\ Magnitude(i.b, i.op) \in Int
    BY <1>1, <2>1, NumberOf, BitsOf
  <2>3. m \in Nat /\ m = 2 * Pow2[Bits(i.op) - 1] /\ Pow2[Bits(i.op) - 1] \in Nat /\ m >= 1
    BY BitsOf
  <2>4. Remainder < Pow2[Bits(i.op) - 1] /\ Remainder \in 0 .. m - 1
    BY <2>2, <2>3
  <2>5. Remainder % m = Remainder
    BY <2>3, <2>4, ModSmall
  <2>6. QED
    BY <2>3, <2>4, <2>5 DEF Msb, Low
<1>4. neg = IF IsRem(i.op) THEN aNeg ELSE ~(aNeg <=> bNeg)
  <2>1. /\ Msb(i.a, Bits(i.op)) \in BOOLEAN /\ Msb(i.b, Bits(i.op)) \in BOOLEAN
        /\ Msb(Remainder, Bits(i.op)) \in BOOLEAN /\ IsSigned(i.op) \in BOOLEAN
    BY DEF Msb, IsSigned
  <2>2. CASE IsRem(i.op)
    BY <1>3, <2>1, <2>2 DEF DivSign
  <2>3. CASE ~IsRem(i.op)
    BY <2>1, <2>3 DEF DivSign
  <2>4. QED
    BY <2>2, <2>3
<1>5. neg \in BOOLEAN /\ v \in Int
  BY DEF DivSign
<1>6. Reference(i) = Sext((IF IsRem(i.op) THEN na - nb * qo ELSE qo) % m, Bits(i.op))
  BY <1>2 DEF Reference, MulOps, DivOps
<1>7. (IF IsRem(i.op) THEN na - nb * qo ELSE qo) = IF neg THEN -v ELSE v
  <2>1. aNeg \in BOOLEAN /\ bNeg \in BOOLEAN
    BY DEF Msb
  <2> HIDE DEF na, nb, qo, aNeg, bNeg, neg
  <2>2. CASE IsRem(i.op)
    BY <1>2, <1>4, <2>2, Zenon
  <2>3. CASE ~IsRem(i.op)
    <3>1. neg <=> (aNeg # bNeg)
      BY <1>4, <2>1, <2>3
    <3>2. QED
      BY <1>2, <2>3, <3>1, Zenon
  <2>4. QED
    BY <2>2, <2>3
<1> HIDE DEF neg, v, na, nb, qo
<1>8. Signed(neg, v, Bits(i.op)) = Sext((IF neg THEN -v ELSE v) % m, Bits(i.op))
  BY <1>5, SignedIs
<1>9. QED
  BY <1>6, <1>7, <1>8 DEF neg, v


-----------------------------------------------------------------------------
(* The invariant: while a unit is doing, its registers hold the operands   *)
(* execute's instruction came with and what it has computed from them.     *)

MulHolds ==
    mul_state = "DOING" =>
        /\ ins.op \in MulOps /\ div_state = "INIT"
        /\ mul_store = [a |-> ins.a, b |-> ins.b]
        /\ slices = [s \in Slices |-> ASlice(Magnitude(ins.a, ins.op), s[1])
                                      * BSlice(Magnitude(ins.b, ins.op), s[2])]

DivHolds ==
    div_state = "DOING" =>
        /\ ins.op \in DivOps /\ Low(ins.b, Bits(ins.op)) # 0 /\ mul_state = "INIT"
        /\ div_store = [a |-> ins.a, b |-> ins.b]
        /\ Progress(p, Magnitude(ins.a, ins.op), Magnitude(ins.b, ins.op), W - count)

UnitInv == TypeOK /\ MulHolds /\ DivHolds

LEMMA MagnitudeIsWord ==
    ASSUME NEW op, NEW v \in Words
    PROVE  Magnitude(v, op) \in Words
BY NumberOf, BitsOf DEF Words

LEMMA InstrFields ==
    ASSUME NEW i \in Instrs
    PROVE  i.op \in MulOps \union DivOps /\ i.a \in Words /\ i.b \in Words /\ i # None
<1>1. i.op \in MulOps \union DivOps /\ i.a \in Words /\ i.b \in Words
  BY MultiCycleAssumption DEF Instrs, Words
<1>2. None.op \notin MulOps \union DivOps
  BY DEF None, MulOps, DivOps
<1>3. QED
  BY <1>1, <1>2

LEMMA WordRange == 0 \in Words /\ Pow2[W] \in Nat /\ Pow2[W] >= 1 /\ Pow2[2 * W] \in Nat
                   /\ Pow2[2 * W] = Pow2[W] * Pow2[W] /\ Pow2[2 * W] >= Pow2[W]
<1>1. W \in Nat /\ 2 * W \in Nat /\ 2 * W = W + W
  BY Widths
<1>2. Pow2[W] \in Nat /\ Pow2[W] >= 1 /\ Pow2[2 * W] \in Nat /\ Pow2[2 * W] = Pow2[W] * Pow2[W]
  BY <1>1, Pow2Type, Pow2Add
<1> DEFINE n == Pow2[W]
<1> HIDE DEF n
<1>3. n \in Nat /\ n >= 1 => n * n >= n
  OBVIOUS
<1>4. QED
  BY <1>2, <1>3 DEF n, Words

\* What the inputs of a cycle may be, by the state of the units.
LEMMA InputFields ==
    ASSUME UnitInv, NEW in \in Inputs
    PROVE  /\ in.a \in Words /\ in.b \in Words
           /\ InitState => in \in Instrs \union {None} /\ Current(in) = in
           /\ ~InitState => ins \in Instrs /\ in.op = ins.op /\ in # None /\ Current(in) = ins
<1>1. ins \in Instrs \union {None}
  BY DEF UnitInv, TypeOK
<1>2. ins = None => InitState
  BY DEF UnitInv, TypeOK, MulHolds, DivHolds, None, MulOps, DivOps, InitState
<1>3. None.a \in Words /\ None.b \in Words
  BY WordRange DEF None
<1>4. CASE InitState
  <2>1. in \in Instrs \union {None} /\ Current(in) = in
    BY <1>1, <1>4 DEF Inputs, Current
  <2>2. QED
    BY <1>3, <1>4, <2>1, InstrFields
<1>5. CASE ~InitState
  <2>1. ins \in Instrs /\ ins # None
    BY <1>1, <1>2, <1>5
  <2>2. PICK a \in Later, b \in Later : in = [op |-> ins.op, a |-> a, b |-> b]
    BY <1>5, <2>1 DEF Inputs
  <2>3. in.op = ins.op /\ in.a \in Words /\ in.b \in Words
    BY <2>2, MultiCycleAssumption DEF Words
  <2>4. in # None
    BY <2>1, <2>3, InstrFields DEF None, MulOps, DivOps
  <2>5. QED
    BY <1>5, <2>1, <2>3, <2>4 DEF Current
<1>6. QED
  BY <1>4, <1>5

\* A step of the divider keeps inside its register.
LEMMA DivStepTyped ==
    ASSUME p \in 0 .. Pow2[2 * W] - 1, NEW b \in Words, b # 0
    PROVE  DivStep(b) \in 0 .. Pow2[2 * W] - 1
<1> DEFINE n == Pow2[W]
           nn == Pow2[2 * W]
           x == (2 * p) % nn
           h == x \div n
<1>1. /\ n \in Nat /\ n >= 1 /\ nn \in Nat /\ nn >= 1 /\ b \in Nat /\ b >= 1
      /\ 2 * p \in Int
  BY WordRange DEF Words
<1>2. x \in 0 .. nn - 1
  <2> DEFINE y == 2 * p
  <2> HIDE DEF y, nn
  <2>1. y % nn \in 0 .. nn - 1
    BY <1>1, DivMod DEF y
  <2>2. QED
    BY <2>1 DEF y
<1>3. h \in Nat /\ x = n * h + (x % n) /\ x % n \in 0 .. n - 1
  <2>1. x \in Nat /\ x \in Int
    BY <1>1, <1>2
  <2>2. n \in Nat /\ n >= 1
    BY <1>1
  <2> HIDE DEF x, n, nn, h
  <2>3. x % n \in 0 .. n - 1
    BY <2>1, <2>2, DivMod
  <2>4. x = n * (x \div n) + (x % n)
    BY <2>1, <2>2, DivMod
  <2>5. x \div n \in Nat
    BY <2>1, <2>2, DivMod
  <2>6. QED
    BY <2>3, <2>4, <2>5 DEF h
<1> HIDE DEF x
<1>4. DivStep(b) = IF h >= b THEN x - b * n + 1 ELSE x
  BY DEF DivStep, x
<1> HIDE DEF n, nn, h
<1>5. CASE h >= b
  <2>1. n * h >= b * n /\ b * n >= 1 /\ b * n \in Nat /\ n * h \in Nat
    <3>1. n * h = n * b + n * (h - b) /\ n * (h - b) \in Nat /\ n * b = b * n /\ n * b \in Nat
      BY <1>1, <1>3, <1>5
    <3>2. n * b = n + n * (b - 1) /\ n * (b - 1) \in Nat
      BY <1>1
    <3>3. QED
      BY <1>1, <3>1, <3>2
  <2>2. x - b * n + 1 \in 0 .. nn - 1
    <3> DEFINE bn == b * n
               r == x % n
               nh == n * h
    <3>1. /\ bn \in Nat /\ bn >= 1 /\ nh >= bn /\ x = nh + r /\ r \in 0 .. n - 1
          /\ nh \in Nat
      BY <1>3, <2>1
    <3> HIDE DEF bn, nh, r
    <3>2. x - bn + 1 \in 0 .. nn - 1
      BY <1>1, <1>2, <3>1
    <3>3. QED
      BY <3>2 DEF bn
  <2>3. QED
    BY <1>4, <1>5, <2>2 DEF nn
<1>6. CASE ~(h >= b)
  BY <1>2, <1>4, <1>6 DEF nn
<1>7. QED
  BY <1>5, <1>6

-----------------------------------------------------------------------------
(* One cycle, by the state of the units.                                   *)

\* The units at rest and a multiplication: it is started.
LEMMA StartMul ==
    ASSUME InitState, NEW in \in Instrs, in.op \in MulOps
    PROVE  /\ Doing(in)
           /\ Multiplier(in) =>
                /\ mul_state' = "DOING" /\ mul_store' = [a |-> in.a, b |-> in.b]
                /\ slices' = [s \in Slices |-> ASlice(Magnitude(in.a, in.op), s[1])
                                               * BSlice(Magnitude(in.b, in.op), s[2])]
           /\ Divider(in) =>
                div_state' = "INIT" /\ count' = count /\ p' = 0 /\ div_store' = div_store
<1>1. MulValid(in) /\ ~DivValid(in) /\ ~MulDone(in) /\ DivDone(in)
  BY DEF MulOps, DivOps, MulValid, DivValid, MulDone, DivDone, InitState
<1>2. MulOperands(in) = [a |-> in.a, b |-> in.b]
  BY <1>1 DEF MulOperands
<1>3. QED
  BY <1>1, <1>2 DEF Doing, Multiplier, Divider, InitState

\* The units at rest and a division by a divisor that is not zero.
LEMMA StartDiv ==
    ASSUME InitState, NEW in \in Instrs, in.op \in DivOps,
           Low(in.b, Bits(in.op)) # 0
    PROVE  /\ Doing(in)
           /\ Multiplier(in) =>
                /\ mul_state' = "INIT" /\ mul_store' = mul_store
                /\ slices' = [s \in Slices |-> ASlice(0, s[1]) * BSlice(0, s[2])]
           /\ Divider(in) =>
                /\ div_state' = "DOING" /\ count' = W /\ p' = Magnitude(in.a, in.op)
                /\ div_store' = [a |-> in.a, b |-> in.b]
<1>1. ~MulValid(in) /\ DivValid(in) /\ MulDone(in) /\ ~DivDone(in)
  BY DEF MulOps, DivOps, MulValid, DivValid, DivByZero, MulDone, DivDone, InitState
<1>2. DivOperands(in) = [a |-> in.a, b |-> in.b]
  BY <1>1 DEF DivOperands, InitState
<1>3. QED
  BY <1>1, <1>2 DEF Doing, Multiplier, Divider, InitState

\* The units at rest and no work for them: nothing, or a division by zero.
LEMMA NothingStarts ==
    ASSUME InitState, NEW in, in.op \notin MulOps,
           in.op \in DivOps => Low(in.b, Bits(in.op)) = 0
    PROVE  /\ ~Doing(in)
           /\ Multiplier(in) =>
                /\ mul_state' = "INIT" /\ mul_store' = mul_store
                /\ slices' = [s \in Slices |-> ASlice(0, s[1]) * BSlice(0, s[2])]
           /\ Divider(in) =>
                div_state' = "INIT" /\ count' = count /\ p' = 0 /\ div_store' = div_store
<1>1. ~MulValid(in) /\ ~DivValid(in) /\ MulDone(in) /\ DivDone(in)
  BY DEF MulValid, DivValid, DivByZero, MulDone, DivDone, InitState
<1>2. QED
  BY <1>1 DEF Doing, Multiplier, Divider, InitState

\* The multiplier is doing: this is its last cycle.
LEMMA MulGoesOn ==
    ASSUME UnitInv, mul_state = "DOING", NEW in \in Inputs
    PROVE  /\ ~Doing(in)
           /\ MulC(in) = Reference(ins)
           /\ Multiplier(in) =>
                /\ mul_state' = "INIT" /\ mul_store' = mul_store
                /\ slices' = [s \in Slices |->
                                ASlice(Magnitude(mul_store.a, in.op), s[1])
                                * BSlice(Magnitude(mul_store.b, in.op), s[2])]
           /\ Divider(in) =>
                div_state' = "INIT" /\ count' = count /\ p' = 0 /\ div_store' = div_store
<1>1. ins \in Instrs /\ in.op = ins.op
  BY InputFields DEF InitState
<1>2. /\ ins.op \in MulOps /\ div_state = "INIT" /\ mul_store = [a |-> ins.a, b |-> ins.b]
      /\ slices = [s \in Slices |-> ASlice(Magnitude(ins.a, ins.op), s[1])
                                    * BSlice(Magnitude(ins.b, ins.op), s[2])]
  BY DEF UnitInv, MulHolds
<1>3. MulValid(in) /\ ~DivValid(in) /\ MulDone(in) /\ DivDone(in)
  BY <1>1, <1>2 DEF MulOps, DivOps, MulValid, DivValid, MulDone, DivDone
<1>4. MulOperands(in) = mul_store
  BY <1>3 DEF MulOperands
<1>5. Product = Magnitude(ins.a, ins.op) * Magnitude(ins.b, ins.op)
  <2>1. Magnitude(ins.a, ins.op) \in Words /\ Magnitude(ins.b, ins.op) \in Words
    BY <1>1, InstrFields, MagnitudeIsWord
  <2>2. QED
    BY <1>2, <2>1, ProductIs
<1>6. MulC(in) = Reference(ins)
  BY <1>1, <1>2, <1>4, <1>5, MulIsRight DEF MulC
<1>7. QED
  BY <1>2, <1>3, <1>4, <1>6 DEF Doing, Multiplier, Divider

\* The divider is doing: it leaves when count has come to the end.
LEMMA DivGoesOn ==
    ASSUME UnitInv, div_state = "DOING", NEW in \in Inputs
    PROVE  /\ Doing(in) <=> count # 0
           /\ count = 0 => DivC(in) = Reference(ins)
           /\ Multiplier(in) =>
                /\ mul_state' = "INIT" /\ mul_store' = mul_store
                /\ slices' = [s \in Slices |-> ASlice(0, s[1]) * BSlice(0, s[2])]
           /\ Divider(in) =>
                /\ div_state' = IF count = 0 THEN "INIT" ELSE "DOING"
                /\ count' = IF count = 0 THEN 0 ELSE count - 1
                /\ p' = DivStep(Magnitude(ins.b, ins.op)) /\ div_store' = div_store
<1>1. ins \in Instrs /\ in.op = ins.op
  BY InputFields DEF InitState
<1>2. /\ ins.op \in DivOps /\ mul_state = "INIT" /\ div_store = [a |-> ins.a, b |-> ins.b]
      /\ Progress(p, Magnitude(ins.a, ins.op), Magnitude(ins.b, ins.op), W - count)
  BY DEF UnitInv, DivHolds
<1>3. ~MulValid(in) /\ DivValid(in) /\ MulDone(in) /\ (DivDone(in) <=> count = 0)
  BY <1>1, <1>2 DEF MulOps, DivOps, MulValid, DivValid, DivByZero, MulDone, DivDone
<1>4. DivOperands(in) = div_store /\ ~DivByZero(in)
  BY <1>3 DEF DivOperands, DivByZero
<1>5. count = 0 => DivC(in) = Reference(ins)
  <2>1. SUFFICES ASSUME count = 0 PROVE DivC(in) = Reference(ins)
    OBVIOUS
  <2>2. Magnitude(ins.a, ins.op) \in Words /\ Magnitude(ins.b, ins.op) \in Words
    BY <1>1, InstrFields, MagnitudeIsWord
  <2>3. W - count = W
    BY <2>1, Widths
  <2>4. /\ Quotient \in Nat /\ Remainder \in Nat
        /\ Remainder < Magnitude(ins.b, ins.op)
        /\ Magnitude(ins.a, ins.op) = Quotient * Magnitude(ins.b, ins.op) + Remainder
    BY <1>2, <2>2, <2>3, DivEnds
  <2>5. QED
    BY <1>1, <1>2, <1>4, <2>4, DivIsRight DEF DivC
<1>6. QED
  BY <1>1, <1>2, <1>3, <1>4, <1>5 DEF Doing, Multiplier, Divider

\* What leaves execute is right, in every state the invariant allows.
LEMMA InvIsRight == UnitInv => ResultIsRight
<1>1. SUFFICES ASSUME UnitInv, NEW in \in Inputs \ {None}, ~Doing(in)
               PROVE  MultiC(in) = Reference(Current(in))
  BY DEF ResultIsRight
<1>2. CASE InitState
  <2>1. in \in Instrs /\ Current(in) = in
    BY <1>1, <1>2, InputFields
  <2>2. in.op \in DivOps /\ in.op \notin MulOps /\ Low(in.b, Bits(in.op)) = 0
    BY <1>1, <1>2, <2>1, StartMul, StartDiv, InstrFields DEF MulOps, DivOps
  <2>3. DivByZero(in)
    BY <1>2, <2>2 DEF DivByZero, InitState
  <2>4. QED
    BY <2>1, <2>2, <2>3, ByZeroIsRight DEF MultiC, DivC
<1>3. CASE mul_state = "DOING"
  <2>1. Current(in) = ins /\ in.op = ins.op
    BY <1>1, <1>3, InputFields DEF InitState
  <2>2. ins.op \in MulOps
    BY <1>1, <1>3 DEF UnitInv, MulHolds
  <2>3. QED
    BY <1>1, <1>3, <2>1, <2>2, MulGoesOn DEF MultiC
<1>4. CASE div_state = "DOING"
  <2>1. Current(in) = ins /\ in.op = ins.op
    BY <1>1, <1>4, InputFields DEF InitState
  <2>2. ins.op \notin MulOps
    BY <1>1, <1>4 DEF UnitInv, DivHolds, MulOps, DivOps
  <2>3. QED
    BY <1>1, <1>4, <2>1, <2>2, DivGoesOn DEF MultiC
<1>5. QED
  BY <1>1, <1>2, <1>3, <1>4 DEF UnitInv, TypeOK, InitState

-----------------------------------------------------------------------------
(* The invariant is kept.                                                  *)

LEMMA SlicesTyped ==
    ASSUME NEW a \in Words, NEW b \in Words
    PROVE  [s \in Slices |-> ASlice(a, s[1]) * BSlice(b, s[2])]
               \in [Slices -> 0 .. Pow2[SliceBits] - 1]
BY PartialFits

LEMMA ResetTyped == [s \in Slices |-> 0] \in [Slices -> 0 .. Pow2[SliceBits] - 1]
<1>1. SliceBits \in Nat
  BY MultiCycleAssumption, Widths DEF SliceBits
<1>2. Pow2[SliceBits] \in Nat /\ Pow2[SliceBits] >= 1
  BY <1>1, Pow2Type
<1>3. QED
  BY <1>2

LEMMA UnitInit == Init => UnitInv
<1>1. SUFFICES ASSUME Init PROVE UnitInv
  OBVIOUS
<1>2. Pow2[2 * W] \in Nat /\ Pow2[2 * W] >= 1 /\ W \in Nat /\ ZeroStore \in Store
  BY WordRange, Widths DEF ZeroStore, Store
<1>3. TypeOK
  BY <1>1, <1>2, ResetTyped DEF Init, TypeOK
<1>4. QED
  BY <1>1, <1>3 DEF Init, UnitInv, MulHolds, DivHolds

\* The registers of the units after a cycle keep their types.
LEMMA UnitTyped ==
    ASSUME UnitInv, NEW in \in Inputs, Multiplier(in), Divider(in),
           ins' \in Instrs \union {None}
    PROVE  TypeOK'
<1>1. TypeOK /\ in.a \in Words /\ in.b \in Words /\ 0 \in Words
  BY InputFields, WordRange DEF UnitInv
<1>2. [a |-> in.a, b |-> in.b] \in Store
  BY <1>1 DEF Store
<1>3. mul_store \in Store /\ div_store \in Store /\ count \in 0 .. W /\ W \in Nat
  BY <1>1, Widths DEF TypeOK
<1>4. mul_state' \in {"INIT", "DOING"} /\ mul_store' \in Store
      /\ div_state' \in {"INIT", "DOING"} /\ div_store' \in Store
  BY <1>2, <1>3 DEF Multiplier, Divider
<1>5. count' \in 0 .. W
  BY <1>3 DEF Divider
<1>6. slices' \in [Slices -> 0 .. Pow2[SliceBits] - 1]
  <2> DEFINE o == MulOperands(in)
             A == IF MulValid(in) THEN Magnitude(o.a, in.op) ELSE 0
             B == IF MulValid(in) THEN Magnitude(o.b, in.op) ELSE 0
  <2>1. o \in Store
    BY <1>2, <1>3 DEF MulOperands
  <2>2. o.a \in Words /\ o.b \in Words
    BY <2>1 DEF Store
  <2>3. A \in Words /\ B \in Words
    BY <1>1, <2>2, MagnitudeIsWord
  <2>4. slices' = [s \in Slices |-> ASlice(A, s[1]) * BSlice(B, s[2])]
    BY DEF Multiplier
  <2> HIDE DEF A, B
  <2>5. QED
    BY <2>3, <2>4, SlicesTyped
<1>7. p' \in 0 .. Pow2[2 * W] - 1
  <2> DEFINE o == DivOperands(in)
             A == IF DivValid(in) THEN Magnitude(o.a, in.op) ELSE 0
  <2>1. CASE div_state = "INIT"
    <3>1. o \in Store
      BY <1>2, <1>3 DEF DivOperands
    <3>2. o.a \in Words
      BY <3>1 DEF Store
    <3>3. A \in Words
      BY <1>1, <3>2, MagnitudeIsWord
    <3>4. p' = A
      BY <2>1 DEF Divider
    <3> HIDE DEF A
    <3>5. QED
      BY <3>3, <3>4, WordRange DEF Words
  <2>2. CASE div_state = "DOING"
    <3>1. ins \in Instrs /\ Low(ins.b, Bits(ins.op)) # 0
      BY <2>2, InputFields DEF InitState, UnitInv, DivHolds
    <3>2. Magnitude(ins.b, ins.op) \in Words /\ Magnitude(ins.b, ins.op) # 0
      BY <3>1, InstrFields, MagnitudeIsWord, NumberOf
    <3>3. p' = DivStep(Magnitude(ins.b, ins.op))
      BY <2>2, DivGoesOn
    <3>4. QED
      BY <1>1, <3>2, <3>3, DivStepTyped DEF TypeOK
  <2>3. QED
    BY <1>1, <2>1, <2>2 DEF TypeOK
<1>8. QED
  BY <1>4, <1>5, <1>6, <1>7 DEF TypeOK

\* A cycle in which both units come to rest.
LEMMA RestHolds ==
    ASSUME mul_state' = "INIT", div_state' = "INIT"
    PROVE  MulHolds' /\ DivHolds'
BY DEF MulHolds, DivHolds

LEMMA RunKeeps ==
    ASSUME UnitInv, NEW in \in Inputs, Multiplier(in), Divider(in),
           ins' = IF Doing(in) THEN Current(in) ELSE None
    PROVE  UnitInv'
<1>1. ins \in Instrs \union {None} /\ Current(in) \in Instrs \union {None}
  BY InputFields DEF UnitInv, TypeOK
<1>2. TypeOK'
  BY <1>1, UnitTyped
<1>3. MulHolds' /\ DivHolds'
  <2>1. CASE InitState
    <3>1. in \in Instrs \union {None} /\ Current(in) = in
      BY <2>1, InputFields
    <3>2. CASE in \in Instrs /\ in.op \in MulOps
      <4>1. /\ mul_state' = "DOING" /\ mul_store' = [a |-> in.a, b |-> in.b]
            /\ slices' = [s \in Slices |-> ASlice(Magnitude(in.a, in.op), s[1])
                                           * BSlice(Magnitude(in.b, in.op), s[2])]
            /\ div_state' = "INIT" /\ ins' = in
        BY <2>1, <3>1, <3>2, StartMul
      <4>2. QED
        BY <3>2, <4>1 DEF MulHolds, DivHolds
    <3>3. CASE in \in Instrs /\ in.op \in DivOps /\ Low(in.b, Bits(in.op)) # 0
      <4>1. /\ div_state' = "DOING" /\ mul_state' = "INIT" /\ ins' = in
            /\ div_store' = [a |-> in.a, b |-> in.b]
            /\ count' = W /\ p' = Magnitude(in.a, in.op)
        BY <2>1, <3>1, <3>3, StartDiv
      <4>2. Magnitude(in.a, in.op) \in Words /\ Magnitude(in.b, in.op) \in Words
            /\ Magnitude(in.b, in.op) # 0
        BY <3>3, InstrFields, MagnitudeIsWord, NumberOf
      <4>3. W - W = 0
        BY Widths
      <4>4. Progress(p', Magnitude(in.a, in.op), Magnitude(in.b, in.op), W - count')
        BY <4>1, <4>2, <4>3, DivStarts
      <4>5. Progress(p, Magnitude(ins.a, ins.op), Magnitude(ins.b, ins.op), W - count)'
        BY <4>1, <4>4
      <4>6. QED
        BY <3>3, <4>1, <4>5 DEF MulHolds, DivHolds
    <3>4. CASE in.op \notin MulOps /\ (in.op \in DivOps => Low(in.b, Bits(in.op)) = 0)
      BY <2>1, <3>4, NothingStarts, RestHolds
    <3>5. None.op \notin MulOps /\ None.op \notin DivOps
      BY DEF None, MulOps, DivOps
    <3>6. QED
      BY <3>1, <3>2, <3>3, <3>4, <3>5, InstrFields
  <2>2. CASE mul_state = "DOING"
    BY <2>2, MulGoesOn, RestHolds
  <2>3. CASE div_state = "DOING"
    <3>1. /\ ins \in Instrs /\ Current(in) = ins /\ ins.op \in DivOps
          /\ Low(ins.b, Bits(ins.op)) # 0 /\ div_store = [a |-> ins.a, b |-> ins.b]
          /\ Progress(p, Magnitude(ins.a, ins.op), Magnitude(ins.b, ins.op), W - count)
          /\ count \in 0 .. W /\ W \in Nat
      BY <2>3, InputFields, Widths DEF InitState, UnitInv, DivHolds, TypeOK
    <3>2. CASE count = 0
      BY <2>3, <3>2, DivGoesOn, RestHolds
    <3>3. CASE count # 0
      <4>1. /\ mul_state' = "INIT" /\ ins' = ins /\ div_store' = div_store
            /\ count' = count - 1 /\ p' = DivStep(Magnitude(ins.b, ins.op))
        BY <2>3, <3>1, <3>3, DivGoesOn
      <4>2. Magnitude(ins.a, ins.op) \in Words /\ Magnitude(ins.b, ins.op) \in Words
        BY <3>1, InstrFields, MagnitudeIsWord
      <4>3. W - count \in 0 .. W - 1 /\ W - count' = (W - count) + 1
        BY <3>1, <3>3, <4>1
      <4>4. Progress(p', Magnitude(ins.a, ins.op), Magnitude(ins.b, ins.op), W - count')
        BY <3>1, <4>1, <4>2, <4>3, DivAdvances
      <4>5. Progress(p, Magnitude(ins.a, ins.op), Magnitude(ins.b, ins.op), W - count)'
        BY <4>1, <4>4
      <4>6. QED
        BY <3>1, <4>1, <4>5 DEF MulHolds, DivHolds
    <3>4. QED
      BY <3>2, <3>3
  <2>4. QED
    BY <2>1, <2>2, <2>3 DEF UnitInv, TypeOK, InitState
<1>4. QED
  BY <1>2, <1>3 DEF UnitInv

\* An instruction that is held although it could leave is started again, so
\* both units are at rest.
LEMMA StalledKeeps ==
    ASSUME UnitInv, NEW in \in Inputs, ~Doing(in), Multiplier(in), Divider(in),
           ins' = Current(in)
    PROVE  UnitInv'
<1>1. Current(in) \in Instrs \union {None}
  BY InputFields DEF UnitInv, TypeOK
<1>2. TypeOK'
  BY <1>1, UnitTyped
<1>3. mul_state' = "INIT" /\ div_state' = "INIT"
  BY DEF Doing, Multiplier, Divider
<1>4. QED
  BY <1>2, <1>3, RestHolds DEF UnitInv

LEMMA UnitStep == UnitInv /\ [Next]_vars => UnitInv'
<1>1. SUFFICES ASSUME UnitInv, [Next]_vars PROVE UnitInv'
  OBVIOUS
<1>2. CASE Run
  <2>1. PICK in \in Inputs :
            /\ Multiplier(in) /\ Divider(in)
            /\ ins' = IF Doing(in) THEN Current(in) ELSE None
    BY <1>2 DEF Run
  <2>2. QED
    BY <1>1, <2>1, RunKeeps
<1>3. CASE RunStalled
  BY <1>1, <1>3, StalledKeeps DEF RunStalled
<1>4. CASE Flush
  <2>1. Init'
    BY <1>4 DEF Flush, Init
  <2>2. Pow2[2 * W] \in Nat /\ Pow2[2 * W] >= 1 /\ W \in Nat /\ ZeroStore \in Store
    BY WordRange, Widths DEF ZeroStore, Store
  <2>3. TypeOK'
    BY <2>1, <2>2, ResetTyped DEF Init, TypeOK
  <2>4. QED
    BY <2>1, <2>3 DEF Init, UnitInv, MulHolds, DivHolds
<1>5. CASE UNCHANGED vars
  BY <1>1, <1>5 DEF vars, mulVars, divVars, UnitInv, TypeOK, MulHolds, DivHolds
<1>6. QED
  BY <1>1, <1>2, <1>3, <1>4, <1>5 DEF Next

\* The registers of the multiplier and the divider keep their ranges, at every
\* width: no slice product needs more than its 41 bits, the partial remainder
\* and the quotient never more than the 128 of p.
THEOREM UnitTypes == Spec => []TypeOK
<1>1. UnitInv => TypeOK
  BY DEF UnitInv
<1>2. QED
  BY UnitInit, UnitStep, <1>1, PTL DEF Spec

\* What execute takes from the unit is the product, quotient or remainder the
\* instruction set defines, for all operands at every width, whatever reaches
\* the inputs after the first cycle, with flushes and stalls at any time.
THEOREM UnitIsRight == Spec => []ResultIsRight
BY UnitInit, UnitStep, InvIsRight, PTL DEF Spec
=============================================================================
