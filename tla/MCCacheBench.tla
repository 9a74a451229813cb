---------------------------- MODULE MCCacheBench ----------------------------
(***************************************************************************)
(* An instance of CacheBench for TLC: one word is written, with any value, *)
(* and read; another line of its set is written and read, which evicts it, *)
(* and a line of the other set is read.                                    *)
(*                                                                         *)
(* The bytes of a word are looked at apart: the promises of ByteLanes for  *)
(* two words whose bytes all differ, signs included, before the proofs.    *)
(***************************************************************************)
EXTENDS CacheBench, ByteLanes

Task(w, t, s, o, v) == [valid |-> TRUE, we |-> w, tag |-> t, index |-> s,
                        offset |-> o, data |-> v]

Loads  == {Task(FALSE, 1, 0, 1, InitValue), Task(FALSE, 2, 0, 0, InitValue),
           Task(FALSE, 1, NumSets - 1, 1, InitValue)}
Stores == {Task(TRUE, 1, 0, 1, v) : v \in Values}
              \union {Task(TRUE, 2, 0, 0, InitValue)}

Program == Loads \union Stores

OldWord  == [i \in Lanes |-> 10 + i]
NewWord  == [i \in Lanes |-> 120 + 3 * i]
Accesses == {<<w, a>> \in Widths \X Lanes : Aligned(w, a)}

ASSUME LanesAssumption ==
    \A x, y \in Accesses, unsigned \in BOOLEAN :
        /\ LoadSeesStore(OldWord, NewWord, x[1], x[2], y[1], y[2], unsigned)
        /\ BenchStoresAlike(OldWord, NewWord, x[1], x[2])
        /\ AssertComparesLoad([NewWord EXCEPT ![5] = 0], NewWord, x[1], x[2])
        /\ FallThroughIsHarmless(NewWord, OldWord, x[1], x[2])
=============================================================================
