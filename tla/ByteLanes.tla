----------------------------- MODULE ByteLanes -----------------------------
(***************************************************************************)
(* The bytes of a 64-bit word: how the core places a store on the data bus *)
(* and picks a load from it (writedata.sv, readdata.sv), and how the test  *)
(* bench does the same in C++ (LoadOp of bus.h).  The other modules move   *)
(* whole words; this one says what their words stand for.                  *)
(*                                                                         *)
(* A word is a function from lanes to bytes, lane 0 the lowest.  A strobe, *)
(* or a bit mask, is the set of the lanes it selects.  Of an address only  *)
(* the low three bits matter.                                              *)
(***************************************************************************)
EXTENDS Integers

Byte   == 0 .. 255
Lanes  == 0 .. 7
Word   == [Lanes -> Byte]
Widths == {1, 2, 4, 8}

Aligned(w, a) == a % w = 0

\* The lanes an access of w bytes at a covers.
Covered(w, a) == {i \in Lanes : a <= i /\ i < a + w}

\* What memory holds when the lanes of m are written with d: BlockMemory::store
\* and the byte write enables of data_ram.
Merge(old, d, m) == [i \in Lanes |-> IF i \in m THEN d[i] ELSE old[i]]

-----------------------------------------------------------------------------
(* The core.                                                               *)

StoreMisaligned(w, a) == ~Aligned(w, a)

\* A misaligned store has an empty strobe and no data.
StoreStrobe(w, a) == IF Aligned(w, a) THEN Covered(w, a) ELSE {}

StoreData(w, a, d) ==
    [i \in Lanes |-> IF Aligned(w, a) /\ i \in Covered(w, a) THEN d[i - a] ELSE 0]

LoadMisaligned(w, a) == ~Aligned(w, a)

\* The copies of the sign bit above the bytes loaded.
Fill(top, unsigned) == IF ~unsigned /\ top >= 128 THEN 255 ELSE 0

\* Of an aligned load; the result of a misaligned one is undefined.
LoadData(w, a, unsigned, d) ==
    [i \in Lanes |-> IF i < w THEN d[i + a] ELSE Fill(d[a + w - 1], unsigned)]

-----------------------------------------------------------------------------
(* The bench.                                                              *)

\* LoadOp::parse drops the bits of the address below the width.
LoadOp(w, a) == [width |-> w, shift |-> (a \div w) * w]

Strobe(op) == {i \in Lanes : op.shift <= i /\ i < op.shift + op.width}

\* data << shift and data >> shift.
Place(op, d) == [i \in Lanes |-> IF op.shift <= i THEN d[i - op.shift] ELSE 0]
Apply(op, d) == [i \in Lanes |-> IF i + op.shift <= 7 THEN d[i + op.shift] ELSE 0]

\* A table of four bits, looked up for either half of the strobe.
HalfMask(st) == {i \in 0 .. 3 : i \in st}
LaneMask(st) == HalfMask(st)
                \union {i \in 4 .. 7 : i - 4 \in HalfMask({j \in 0 .. 3 : j + 4 \in st})}

\* The bits of an expected word that apply_assert compares.
Mask(op) == Strobe(op)

ApplyAssert(op, expected, value) == \A i \in Mask(op) : expected[i] = value[i]

\* *dest = v through a pointer to n bytes.
Assign(dest, v, n) == [i \in Lanes |-> IF i < n THEN v[i] ELSE dest[i]]

\* apply(data, dest): no case of the switch has a break, so every case falls
\* through the narrower ones.
ApplyTo(op, d, dest) ==
    LET v  == Apply(op, d)
        d8 == IF op.width = 8 THEN Assign(dest, v, 8) ELSE dest
        d4 == IF op.width >= 4 THEN Assign(d8, v, 4) ELSE d8
        d2 == IF op.width >= 2 THEN Assign(d4, v, 2) ELSE d4
    IN  Assign(d2, v, 1)

-----------------------------------------------------------------------------
(* What they promise of words and widths; ByteLanesProofs proves it.       *)

\* The byte at address i after a store of w bytes of d at a into old.
ByteAfterStore(old, w, a, d, i) ==
    IF a <= i /\ i < a + w THEN d[i - a] ELSE old[i]

\* A load of any width at any place sees exactly the bytes an earlier store of
\* any width at any place left: its own, its neighbour's, part of it.
LoadSeesStore(old, d, w, a, v, b, unsigned) ==
    LET seen(i) == ByteAfterStore(old, w, a, d, i)
        now     == Merge(old, StoreData(w, a, d), StoreStrobe(w, a))
    IN  LoadData(v, b, unsigned, now)
          = [i \in Lanes |-> IF i < v THEN seen(b + i)
                                      ELSE Fill(seen(b + v - 1), unsigned)]

\* The bench and the core put the same bytes on the same lanes, although the
\* bench shifts the whole word and the core clears the lanes beside it.
BenchStoresAlike(old, d, w, a) ==
    Merge(old, Place(LoadOp(w, a), d), LaneMask(Strobe(LoadOp(w, a))))
      = Merge(old, StoreData(w, a, d), StoreStrobe(w, a))

\* What apply_assert compares is what a load delivers.
AssertComparesLoad(x, y, w, a) ==
    LET op == LoadOp(w, a) IN
    ApplyAssert(op, x, y) <=> \A i \in 0 .. w - 1 : Apply(op, x)[i] = Apply(op, y)[i]

\* What falls through the cases of apply() is what was already written.
FallThroughIsHarmless(d, dest, w, a) ==
    ApplyTo(LoadOp(w, a), d, dest) = Assign(dest, Apply(LoadOp(w, a), d), w)
=============================================================================
