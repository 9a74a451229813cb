-------------------------- MODULE ByteLanesProofs --------------------------
(***************************************************************************)
(* Proofs about ByteLanes, for every word, width and address.  Everything  *)
(* is pointwise: an equation of words is proved lane by lane.              *)
(***************************************************************************)
EXTENDS ByteLanes, TLAPS

\* An aligned access stays in its word.
LEMMA CoveredFits ==
    ASSUME NEW w \in Widths, NEW a \in Lanes, Aligned(w, a)
    PROVE  /\ a + w <= 8
           /\ Covered(w, a) \subseteq Lanes
           /\ StoreStrobe(w, a) = Covered(w, a)
<1>1. a + w <= 8
    BY DEF Widths, Lanes, Aligned
<1> QED BY <1>1 DEF Covered, StoreStrobe

\* Shifting by the parsed operation is shifting to the address.
LEMMA ParseAligned ==
    ASSUME NEW w \in Widths, NEW a \in Lanes, Aligned(w, a)
    PROVE  LoadOp(w, a) = [width |-> w, shift |-> a]
<1>1. (a \div w) * w = a
    BY DEF Widths, Lanes, Aligned
<1> QED BY <1>1 DEF LoadOp

\* A store changes the bytes of its address range and no other.
THEOREM StoreWritesItsBytes ==
    ASSUME NEW old \in Word, NEW d \in Word, NEW w \in Widths, NEW a \in Lanes,
           Aligned(w, a), NEW i \in Lanes
    PROVE  Merge(old, StoreData(w, a, d), StoreStrobe(w, a))[i]
             = ByteAfterStore(old, w, a, d, i)
<1>1. StoreStrobe(w, a) = Covered(w, a)
    BY CoveredFits
<1>2. i \in Covered(w, a) <=> a <= i /\ i < a + w
    BY DEF Covered
<1> QED BY <1>1, <1>2 DEF Merge, StoreData, ByteAfterStore

\* A store that is not aligned changes nothing, though its request is sent.
THEOREM MisalignedStoreIsHarmless ==
    ASSUME NEW old \in Word, NEW d \in Word, NEW w \in Widths, NEW a \in Lanes,
           StoreMisaligned(w, a)
    PROVE  Merge(old, StoreData(w, a, d), StoreStrobe(w, a)) = old
BY DEF StoreMisaligned, StoreStrobe, Merge, Word

\* A load of any width sees the bytes a store of any width left.
THEOREM LoadSeesStoreAlways ==
    ASSUME NEW old \in Word, NEW d \in Word, NEW w \in Widths, NEW a \in Lanes,
           NEW v \in Widths, NEW b \in Lanes, NEW unsigned \in BOOLEAN,
           Aligned(w, a), Aligned(v, b)
    PROVE  LoadSeesStore(old, d, w, a, v, b, unsigned)
<1> DEFINE now == Merge(old, StoreData(w, a, d), StoreStrobe(w, a))
           seen(i) == ByteAfterStore(old, w, a, d, i)
<1>1. \A i \in Lanes : now[i] = seen(i)
    BY StoreWritesItsBytes
<1>2. b + v - 1 \in Lanes
    BY CoveredFits DEF Lanes, Widths
<1>3. \A i \in Lanes : i < v => i + b \in Lanes /\ i + b = b + i
    BY CoveredFits DEF Lanes, Widths
<1> HIDE DEF now, seen
<1>4. \A i \in Lanes : i < v => now[i + b] = seen(b + i)
    BY <1>1, <1>3
<1>5. Fill(now[b + v - 1], unsigned) = Fill(seen(b + v - 1), unsigned)
    BY <1>1, <1>2
<1>6. LoadData(v, b, unsigned, now)
        = [i \in Lanes |-> IF i < v THEN seen(b + i)
                                    ELSE Fill(seen(b + v - 1), unsigned)]
    BY <1>4, <1>5 DEF LoadData
<1> QED BY <1>6 DEF LoadSeesStore, now, seen

\* The halves of a strobe make the mask of the whole.
LEMMA MaskIsStrobe ==
    ASSUME NEW st \in SUBSET Lanes
    PROVE  LaneMask(st) = st
<1>1. \A i \in 0 .. 3 : i \in LaneMask(st) <=> i \in st
    BY DEF LaneMask, HalfMask
<1>2. \A i \in 4 .. 7 : i - 4 \in 0 .. 3 /\ i - 4 + 4 = i
    OBVIOUS
<1>3. \A i \in 4 .. 7 : i \in LaneMask(st) <=> i \in st
    BY <1>2 DEF LaneMask, HalfMask
<1>4. \A i \in Lanes : i \in 0 .. 3 \/ i \in 4 .. 7
    BY DEF Lanes
<1>5. LaneMask(st) \subseteq Lanes
    <2>1. HalfMask(st) \subseteq 0 .. 3
        BY DEF HalfMask
    <2>2. LaneMask(st) \subseteq (0 .. 3) \union (4 .. 7)
        BY <2>1 DEF LaneMask
    <2> QED BY <2>2 DEF Lanes
<1> QED BY <1>1, <1>3, <1>4, <1>5

\* The bench stores as the core does.
THEOREM BenchStoresAsCore ==
    ASSUME NEW old \in Word, NEW d \in Word, NEW w \in Widths, NEW a \in Lanes,
           Aligned(w, a)
    PROVE  BenchStoresAlike(old, d, w, a)
<1>1. LoadOp(w, a).shift = a /\ LoadOp(w, a).width = w
    BY ParseAligned
<1>2. Strobe(LoadOp(w, a)) = Covered(w, a)
    BY <1>1 DEF Strobe, Covered
<1>3. LaneMask(Strobe(LoadOp(w, a))) = Covered(w, a)
    BY <1>2, MaskIsStrobe, CoveredFits
<1>4. \A i \in Covered(w, a) :
        Place(LoadOp(w, a), d)[i] = StoreData(w, a, d)[i]
    BY <1>1 DEF Place, StoreData, Covered
<1> QED BY <1>3, <1>4, CoveredFits DEF BenchStoresAlike, Merge

\* The masked comparison of apply_assert is a comparison of what is loaded.
THEOREM AssertSeesLoad ==
    ASSUME NEW x \in Word, NEW y \in Word, NEW w \in Widths, NEW a \in Lanes
    PROVE  AssertComparesLoad(x, y, w, a)
<1> DEFINE s == (a \div w) * w
<1>1. s \in Lanes /\ s + w <= 8 /\ w \in 1 .. 8
    BY DEF Widths, Lanes
<1>2. LoadOp(w, a).shift = s /\ LoadOp(w, a).width = w
    BY DEF LoadOp
<1> HIDE DEF s
<1>3. \A i \in Lanes : i \in Mask(LoadOp(w, a)) <=> s <= i /\ i < s + w
    BY <1>2 DEF Mask, Strobe
<1>4. \A i \in 0 .. w - 1 : i \in Lanes /\ i + s \in Lanes /\ i + s < s + w /\ s <= i + s
    BY <1>1 DEF Lanes
<1>5. \A i \in 0 .. w - 1 : Apply(LoadOp(w, a), x)[i] = x[i + s]
                           /\ Apply(LoadOp(w, a), y)[i] = y[i + s]
    BY <1>2, <1>4 DEF Apply, Lanes
<1>6. \A i \in Lanes : s <= i /\ i < s + w => i - s \in 0 .. w - 1 /\ i - s + s = i
    BY <1>1 DEF Lanes
<1>7. Mask(LoadOp(w, a)) \subseteq Lanes
    BY DEF Mask, Strobe
<1>8. (\A i \in Mask(LoadOp(w, a)) : x[i] = y[i]) <=> \A i \in 0 .. w - 1 : x[i + s] = y[i + s]
    BY <1>3, <1>4, <1>6, <1>7
<1> QED BY <1>5, <1>8 DEF AssertComparesLoad, ApplyAssert

\* The missing breaks of apply() change nothing.
THEOREM ApplyFallsThrough ==
    ASSUME NEW d \in Word, NEW dest \in Word, NEW w \in Widths, NEW a \in Lanes
    PROVE  FallThroughIsHarmless(d, dest, w, a)
<1>1. LoadOp(w, a).width = w
    BY DEF LoadOp
<1>2. PICK v : v = Apply(LoadOp(w, a), d)
    OBVIOUS
<1>3. CASE w = 1
    BY <1>1, <1>2, <1>3 DEF FallThroughIsHarmless, ApplyTo, Assign, Lanes, Word
<1>4. CASE w = 2
    BY <1>1, <1>2, <1>4 DEF FallThroughIsHarmless, ApplyTo, Assign, Lanes, Word
<1>5. CASE w = 4
    BY <1>1, <1>2, <1>5 DEF FallThroughIsHarmless, ApplyTo, Assign, Lanes, Word
<1>6. CASE w = 8
    BY <1>1, <1>2, <1>6 DEF FallThroughIsHarmless, ApplyTo, Assign, Lanes, Word
<1> QED BY <1>3, <1>4, <1>5, <1>6 DEF Widths
=============================================================================
