-------------------------------- MODULE PLRU --------------------------------
(***************************************************************************)
(* The replacement choice of the caches for one set of eight ways: the     *)
(* select bits of vsrc/cache/DCache.sv (ICache.sv has the same lines),     *)
(* updated by every hit and read by every miss.                            *)
(*                                                                         *)
(* The memory stage holds its request until it is served, so the first     *)
(* hit after a miss in a set is on the way just filled.                    *)
(***************************************************************************)
EXTENDS Integers, FiniteSets, Sequences

\* The encoder and the decoder of DCache.sv "can only be used in 8-way".
Ways == 0 .. 7

NoWay == 8

CONSTANT Remembered  \* how many ways `recent` keeps, for the property

ASSUME RememberedAssumption == Remembered \in 1 .. 7

VARIABLES
    valid,    \* the ways that hold a line
    selects,  \* the seven select bits of the set
    filling,  \* the way whose line was missed, until its first hit
    recent,   \* history: the last Remembered distinct ways hit, newest first
    scan      \* history: the ways taken by misses since the last other hit

vars == <<valid, selects, filling, recent, scan>>

TypeOK ==
    /\ valid \subseteq Ways
    /\ selects \in [0 .. 6 -> {0, 1}]
    /\ filling \in Ways \union {NoWay}
    /\ recent \in Seq(Ways) /\ Len(recent) <= Remembered
    /\ scan \subseteq Ways

-----------------------------------------------------------------------------
\* The three bits of a way: idx[2] the half, idx[1] the pair, idx[0] the way.
Half(w) == w \div 4
Pair(w) == (w \div 2) % 2
Side(w) == w % 2

\* The bit of a pair: selects[3] for ways 0 and 1 down to selects[0] for 6, 7.
PairBit(half, pair) == 3 - (2 * half + pair)

\* Mutant: the bit of a pair keeps the side not used.
TouchInverted(sel, w) ==
    [sel EXCEPT ![6] = Half(w),
                ![5] = IF Half(w) = 1 THEN sel[5] ELSE Pair(w),
                ![4] = IF Half(w) = 1 THEN Pair(w) ELSE sel[5],
                ![PairBit(Half(w), Pair(w))] = 1 - Side(w)]

\* A hit records the path to its way.  For a way of the lower half selects[4]
\* takes selects[5], not its own value.
Touch(sel, w) ==
    [sel EXCEPT ![6] = Half(w),
                ![5] = IF Half(w) = 1 THEN sel[5] ELSE Pair(w),
                ![4] = IF Half(w) = 1 THEN Pair(w) ELSE sel[5],
                ![PairBit(Half(w), Pair(w))] = Side(w)]

\* A miss leaves the recorded path at every level.  The pair of the upper
\* half is taken from selects[5], that of the lower half from selects[4].
SelectedWay(sel) ==
    LET half == 1 - sel[6]
        pair == IF half = 1 THEN 1 - sel[5] ELSE 1 - sel[4]
        side == 1 - sel[PairBit(half, pair)]
    IN  4 * half + 2 * pair + side

\* Mutant: the way behind the last invalid one.
MissWayOffByOne(sel, ways) ==
    IF ways = Ways THEN SelectedWay(sel)
    ELSE 1 + CHOOSE w \in Ways \ ways : \A v \in Ways \ ways : v <= w

\* miss_idx: the last invalid way, else the one the select bits name.
MissWay(sel, ways) ==
    IF ways = Ways THEN SelectedWay(sel)
    ELSE CHOOSE w \in Ways \ ways : \A v \in Ways \ ways : v <= w

-----------------------------------------------------------------------------
Init == /\ valid = {}
        /\ selects = [b \in 0 .. 6 |-> 0]
        /\ filling = NoWay
        /\ recent = <<>>
        /\ scan = {}

Push(w) == LET s == <<w>> \o SelectSeq(recent, LAMBDA v : v # w) IN
           IF Len(s) > Remembered THEN SubSeq(s, 1, Remembered) ELSE s

\* A request hits way w: the one being filled, or any when none is.
Hit(w) == /\ w \in valid
          /\ filling \in {NoWay, w}
          /\ selects' = Touch(selects, w)
          /\ recent' = Push(w)
          /\ scan' = IF filling = w THEN scan ELSE {}
          /\ filling' = NoWay
          /\ UNCHANGED valid

\* A request misses and takes a way; in a full set it extends the
\* scan, which ends when it has used all eight.
Miss == /\ filling = NoWay
        /\ LET w == MissWay(selects, valid) IN
             /\ valid' = valid \union {w}
             /\ filling' = w
             /\ scan' = IF valid # Ways THEN {}
                        ELSE IF scan = Ways \/ w \in scan THEN {w}
                        ELSE scan \union {w}
        /\ UNCHANGED <<selects, recent>>

Next == Miss \/ \E w \in Ways : Hit(w)

Spec == Init /\ [][Next]_vars

-----------------------------------------------------------------------------
\* A miss never evicts one of the Remembered ways hit last.
RecentSurvive ==
    filling = NoWay => \A i \in DOMAIN recent : MissWay(selects, valid) # recent[i]

\* Eight misses in a row of a full set, with no hit between them on another
\* way, replace eight different lines: pseudo-LRU over a binary tree of ways,
\* which the select RAM is said to be for, reaches every way.
ScanUsesAllWays ==
    filling = NoWay /\ valid = Ways /\ scan # Ways
        => MissWay(selects, valid) \notin scan
=============================================================================
