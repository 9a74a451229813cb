----------------------------- MODULE CBusProofs -----------------------------
(***************************************************************************)
(* The bus between the caches and the memory, for every length and number  *)
(* of lines and every delay.                                               *)
(*                                                                         *)
(* The arbiter, the memory and the caches count the same transaction       *)
(* independently: the arbiter only remembers whose it is, the memory       *)
(* counts its beats down and wraps its address at the line, the cache      *)
(* counts what it still expects and wraps its offset.  The invariant ties  *)
(* the three together.                                                     *)
(***************************************************************************)
EXTENDS CBus, TLAPS

\* The words that a cache moves in each state of its FSM.
Length(st) == IF st \in {"LOAD", "WRITEBACK"} THEN NumWords ELSE 1

\* The arbiter is locked to an input that asks, and the memory works for it.
Owned == /\ busy => cache[index].st # "IDLE"
         /\ state # "NONE" => busy

\* A transaction that sees no beats stands at its first word.
Fresh == \A i \in Inputs : cache[i].st # "IDLE" /\ ~ReadyTo(i) =>
            /\ cache[i].next = cache[i].first
            /\ cache[i].left = Length(cache[i].st)

\* The memory and the cache it serves stand at the same word.
InStep == Ready =>
            /\ cache[index].next = addr
            /\ cache[index].left = count_down + 1
            /\ state = "WRITE" <=> cache[index].st \in {"WRITEBACK", "STORE"}

\* A burst with beats to come wraps at the line that the cache fills.
WrapsAtLine == Ready /\ ~Last =>
            /\ wrap1 = LineOf(addr)
            /\ wrap2 = LineOf(addr) + NumWords

BusInv == TypeOK /\ Owned /\ Fresh /\ InStep /\ WrapsAtLine /\ RequestUnmodified

-----------------------------------------------------------------------------
(* Lines and words.                                                        *)

LEMMA DivMul ==
    ASSUME NEW q \in Nat, NEW n \in Nat \ {0}, NEW o \in 0 .. n - 1
    PROVE  (q * n + o) \div n = q
BY SMT

LEMMA DivOfWord ==
    ASSUME NEW a \in Nat, NEW n \in Nat \ {0}
    PROVE  \E q \in Nat, o \in 0 .. n - 1 : a = q * n + o
<1>1. /\ a \div n \in Nat /\ a % n \in 0 .. n - 1
      /\ a = (a \div n) * n + (a % n)
    BY SMT
<1> QED BY <1>1

\* A line lies within the memory, and its words have its first word in common.
LEMMA WordsOfLine ==
    ASSUME NEW a \in Words
    PROVE  /\ LineOf(a) \in Words
           /\ LineOf(a) <= a /\ a < LineOf(a) + NumWords
           /\ LineOf(a) + NumWords <= NumLines * NumWords
           /\ \A o \in 0 .. NumWords - 1 : LineOf(LineOf(a) + o) = LineOf(a)
<1>1. NumWords \in Nat \ {0} /\ NumLines \in Nat /\ a \in Nat
    BY CBusAssumption DEF Words
<1>2. PICK q \in Nat, o \in 0 .. NumWords - 1 : a = q * NumWords + o
    BY <1>1, DivOfWord
<1>3. \A p \in 0 .. NumWords - 1 : LineOf(q * NumWords + p) = q * NumWords
    BY <1>1, DivMul DEF LineOf
<1>4. q * NumWords \in Nat
    BY <1>1, SMT
<1>5. q < NumLines
    <2>1. q * NumWords < NumLines * NumWords
        BY <1>1, <1>2, <1>4 DEF Words
    <2> QED BY <2>1, <1>1, SMT
<1>6. q * NumWords + NumWords <= NumLines * NumWords
    BY <1>1, <1>5, SMT
<1>7. NumLines * NumWords \in Nat
    BY <1>1, SMT
<1>8. LineOf(a) = q * NumWords
    BY <1>2, <1>3
<1>9. LineOf(a) \in Words
    BY <1>1, <1>4, <1>6, <1>7, <1>8 DEF Words
<1> QED BY <1>1, <1>2, <1>3, <1>4, <1>6, <1>8, <1>9

\* The next word of a burst is a word of the same line.
LEMMA NextWordOfLine ==
    ASSUME NEW a \in Words
    PROVE  NextWord(a) \in Words /\ LineOf(NextWord(a)) = LineOf(a)
<1>1. /\ NumWords \in Nat \ {0, 1} /\ a \in Nat /\ LineOf(a) \in Nat
      /\ NumLines * NumWords \in Nat
    BY CBusAssumption, WordsOfLine, SMT DEF Words
<1>2. /\ LineOf(a) <= a /\ a < LineOf(a) + NumWords
      /\ LineOf(a) + NumWords <= NumLines * NumWords
    BY WordsOfLine
<1>3. PICK o \in 0 .. NumWords - 1 : NextWord(a) = LineOf(a) + o
    <2>1. CASE a + 1 = LineOf(a) + NumWords
        <3>1. NextWord(a) = LineOf(a) + 0 /\ 0 \in 0 .. NumWords - 1
            BY <1>1, <2>1 DEF NextWord
        <3> QED BY <3>1
    <2>2. CASE a + 1 # LineOf(a) + NumWords
        <3>1. /\ NextWord(a) = LineOf(a) + (a + 1 - LineOf(a))
              /\ a + 1 - LineOf(a) \in 0 .. NumWords - 1
            BY <1>1, <1>2, <2>2 DEF NextWord
        <3> QED BY <3>1
    <2> QED BY <2>1, <2>2
<1>4. NextWord(a) \in Words
    BY <1>1, <1>2, <1>3 DEF Words
<1> QED BY <1>3, <1>4, WordsOfLine

LEMMA Sizes ==
    /\ NumWords \in Nat \ {0, 1} /\ MaxDelay \in Nat
    /\ NumLines * NumWords \in Nat
    /\ Words \subseteq Nat /\ 0 \in Words
    /\ Cached \subseteq Words /\ Uncached \subseteq Words
<1>1. NumWords \in Nat \ {0, 1} /\ MaxDelay \in Nat /\ NumLines \in Nat \ {0, 1}
    BY CBusAssumption
<1>2. NumLines * NumWords \in Nat /\ NumWords <= NumLines * NumWords
    BY <1>1, SMT
<1> QED BY <1>1, <1>2 DEF Words, Cached, Uncached

-----------------------------------------------------------------------------
(* The caches.                                                             *)

States == {"IDLE", "LOAD", "WRITEBACK", "FETCH", "STORE"}
CacheStates == [st : States, first : Words, next : Words, left : 0 .. NumWords]

\* What a cache that begins something new looks like.
Begun(c) == \/ c = Idle
            \/ \E st \in States \ {"IDLE"}, a \in Words : c = Transaction(st, a)

\* Beyond its last beat a cache begins something new; at an earlier beat it
\* moves by a word; else it holds still.
Begins(i)  == (cache[i].st = "IDLE" \/ LastTo(i)) /\ Begun(cache'[i])
MovesOn(i) == /\ cache[i].st # "IDLE" /\ ReadyTo(i) /\ ~LastTo(i)
              /\ cache'[i] = [cache[i] EXCEPT !.next = NextWord(@), !.left = @ - 1]
Holds(i)   == cache[i].st # "IDLE" /\ ~ReadyTo(i) /\ cache'[i] = cache[i]

LEMMA BegunType ==
    ASSUME NEW c, Begun(c)
    PROVE  /\ c \in CacheStates
           /\ c.st # "IDLE" => c.next = c.first /\ c.left = Length(c.st)
BY Sizes DEF Begun, Idle, Transaction, Length, CacheStates, States

LEMMA CacheStep ==
    ASSUME NEW i \in Inputs, NEW asking, Owned, cache'[i] \in NextOf(i, asking)
    PROVE  Begins(i) \/ MovesOn(i) \/ Holds(i)
<1>1. CASE Free(i)
    <2>1. cache'[i] \in Misses \union Skips(i) \union Writebacks(i)
        BY <1>1 DEF NextOf
    <2>2. \A c \in Misses \union Skips(i) \union Writebacks(i) : Begun(c)
        BY Sizes DEF Begun, Misses, Skips, Writebacks, States
    <2> QED BY <1>1, <2>1, <2>2 DEF Begins, Free
<1>2. CASE ~Free(i) /\ ReadyTo(i)
    BY <1>2 DEF NextOf, MovesOn, Free
<1>3. CASE ~Free(i) /\ ~ReadyTo(i)
    BY <1>3 DEF NextOf, Holds, Free
<1> QED BY <1>1, <1>2, <1>3

LEMMA CacheSteps ==
    ASSUME Owned, Next
    PROVE  /\ DOMAIN cache' = Inputs /\ cache' = [i \in Inputs |-> cache'[i]]
           /\ \A i \in Inputs : Begins(i) \/ MovesOn(i) \/ Holds(i)
<1>1. PICK asking \in {Inputs, {D}} : Caches(asking)
    BY DEF Next
<1>2. PICK d \in NextOf(D, asking), f \in NextOf(I, asking) : cache' = Pair(d, f)
    BY <1>1 DEF Caches
<1>3. \A i \in Inputs : cache'[i] \in NextOf(i, asking)
    BY <1>2 DEF Pair, Inputs, D, I
<1>4. DOMAIN cache' = Inputs /\ cache' = [i \in Inputs |-> cache'[i]]
    BY <1>2 DEF Pair
<1> QED BY <1>3, <1>4, CacheStep

-----------------------------------------------------------------------------
(* One transaction at a time.                                              *)

\* What is on the bus is the transaction of the input that owns it.
LEMMA Request ==
    ASSUME TypeOK, Owned
    PROVE  /\ index \in Inputs
           /\ oreq.valid <=> busy
           /\ busy => /\ oreq.addr = cache[index].first
                      /\ oreq.is_write <=> cache[index].st \in {"WRITEBACK", "STORE"}
                      /\ oreq.len = Length(cache[index].st)
           /\ \A i \in Inputs : cache[i] \in CacheStates
BY DEF TypeOK, Owned, oreq, Ireq, NoReq, Length, CacheStates, States

\* Until the last beat the bus keeps its owner, and the owner its transaction;
\* the other cache holds still.
LEMMA OwnerStays ==
    ASSUME TypeOK, Owned, Next, busy, ~Last
    PROVE  /\ busy' /\ index' = index
           /\ IF Ready THEN MovesOn(index) ELSE Holds(index)
           /\ cache'[index].st = cache[index].st
           /\ cache'[index].first = cache[index].first
           /\ oreq' = oreq
<1>1. busy' /\ index' = index
    BY DEF Next, Arbiter
<1>2. index \in Inputs /\ cache[index].st # "IDLE" /\ cache[index] \in CacheStates
    BY Request DEF Owned
<1>3. ~LastTo(index) /\ (ReadyTo(index) <=> Ready)
    BY DEF LastTo, ReadyTo
<1>4. IF Ready THEN MovesOn(index) ELSE Holds(index)
    BY <1>2, <1>3, CacheSteps DEF Begins, MovesOn, Holds
<1>5. /\ cache'[index].st = cache[index].st
      /\ cache'[index].first = cache[index].first
    BY <1>2, <1>4 DEF MovesOn, Holds, CacheStates
<1>6. Ireq(index)' = Ireq(index)
    BY <1>1, <1>5 DEF Ireq, NoReq
<1>7. oreq' = oreq
    BY <1>1, <1>6 DEF oreq
<1> QED BY <1>1, <1>4, <1>5, <1>7

\* The memory works while the bus is owned, and lets go with the last beat.
LEMMA MemoryWorks ==
    ASSUME TypeOK, Owned, Next, state' # "NONE"
    PROVE  busy /\ ~Last
<1>1. CASE Latch
    BY <1>1, Request DEF Latch, Last, Ready
<1>2. CASE CountDelay \/ StartBurst
    BY <1>2 DEF CountDelay, StartBurst, Owned, Last, Ready
<1>3. CASE RamBeat
    BY <1>3 DEF RamBeat, Owned, Ready
<1>4. CASE RamIdle
    BY <1>4 DEF RamIdle
<1> QED BY <1>1, <1>2, <1>3, <1>4 DEF Next, Ram

-----------------------------------------------------------------------------
(* Every step keeps the invariant.                                         *)

LEMMA BusInit == Init => BusInv
<1> SUFFICES ASSUME Init PROVE BusInv
    OBVIOUS
<1>1. TypeOK
    <2>1. /\ 0 \in 0 .. NumWords /\ 0 \in 0 .. MaxDelay
          /\ 0 \in 0 .. NumLines * NumWords
        BY Sizes
    <2>2. D \in Inputs
        BY DEF Inputs
    <2> QED BY <2>1, <2>2, Sizes DEF Init, TypeOK
<1> QED
    BY <1>1 DEF Init, BusInv, Owned, Fresh, InStep, WrapsAtLine, RequestUnmodified,
                Ready, ReadyTo, Last

LEMMA CachesType ==
    ASSUME BusInv, Next
    PROVE  cache' \in [Inputs -> CacheStates]
<1> USE DEF BusInv
<1>1. SUFFICES ASSUME NEW i \in Inputs PROVE cache'[i] \in CacheStates
    BY CacheSteps
<1>2. cache[i] \in CacheStates
    BY Request
<1>3. CASE Begins(i)
    BY <1>3, BegunType DEF Begins
<1>4. CASE MovesOn(i)
    <2>1. /\ NextWord(cache[i].next) \in Words
          /\ cache[i].left \in 0 .. NumWords
        BY <1>2, NextWordOfLine DEF CacheStates
    <2>2. cache[i].left # 0
        <3>1. Ready /\ index = i /\ count_down # 0
            BY <1>4 DEF MovesOn, ReadyTo, LastTo, Last
        <3>2. cache[i].left = count_down + 1 /\ count_down \in Nat
            BY <3>1, Sizes DEF InStep, TypeOK
        <3> QED BY <3>2
    <2>3. cache[i].left - 1 \in 0 .. NumWords
        BY <2>1, <2>2, Sizes
    <2> QED BY <1>2, <1>4, <2>1, <2>3 DEF MovesOn, CacheStates
<1>5. CASE Holds(i)
    BY <1>2, <1>5 DEF Holds
<1> QED BY <1>1, <1>3, <1>4, <1>5, CacheSteps

\* RAMHelper2 counts no further than a delay or a burst, and its address and
\* its bounds stay in the memory.
LEMMA MemoryType ==
    ASSUME BusInv, Next
    PROVE  /\ state' \in {"NONE", "WAIT", "READ", "WRITE"}
           /\ count_down' \in 0 .. MaxDelay \union 0 .. NumWords - 1
           /\ addr' \in Words
           /\ wrap1' \in Words /\ wrap2' \in 0 .. NumLines * NumWords
<1> USE DEF BusInv
<1>1. CASE Latch \/ RamIdle
    BY <1>1 DEF Latch, RamIdle, TypeOK
<1>2. CASE CountDelay
    BY <1>2, Sizes DEF CountDelay, TypeOK
<1>3. CASE StartBurst
    <2>1. busy /\ oreq.addr \in Words /\ oreq.len \in {1, NumWords}
        <3>1. busy
            BY <1>3 DEF StartBurst, Owned
        <3> QED BY <3>1, Request DEF CacheStates, Length
    <2>2. /\ oreq.addr + 1 \in 0 .. NumLines * NumWords
          /\ oreq.len - 1 \in 0 .. NumWords - 1
        BY <2>1, Sizes DEF Words
    <2>3. /\ LineOf(oreq.addr) \in Words
          /\ LineOf(oreq.addr) + NumWords \in 0 .. NumLines * NumWords
        <3>1. PICK a \in Words : a = oreq.addr
            BY <2>1
        <3>2. LineOf(a) \in Words /\ LineOf(a) \in Nat /\ LineOf(a) + NumWords <= NumLines * NumWords
            BY WordsOfLine, Sizes
        <3> QED BY <3>1, <3>2, Sizes
    <2> QED BY <1>3, <2>1, <2>2, <2>3 DEF StartBurst
<1>4. CASE RamBeat
    <2>1. CASE Last
        BY <1>4, <2>1 DEF RamBeat, TypeOK
    <2>2. CASE ~Last
        <3>1. count_down # 0 /\ Ready
            BY <1>4, <2>2 DEF RamBeat, Last
        <3>2. count_down - 1 \in 0 .. MaxDelay \union 0 .. NumWords - 1
            BY <3>1, Sizes DEF TypeOK
        <3>3. addr' = NextWord(addr)
            BY <1>4, <2>2, <3>1 DEF RamBeat, WrapsAtLine, NextWord
        <3>4. addr' \in Words
            BY <3>3, NextWordOfLine DEF TypeOK
        <3> QED BY <1>4, <2>2, <3>2, <3>4 DEF RamBeat, TypeOK
    <2> QED BY <2>1, <2>2
<1> QED BY <1>1, <1>2, <1>3, <1>4 DEF Next, Ram

\* What a request needs of the bus is one of the four things it may need.
LEMMA NeedsType ==
    ASSUME BusInv, Next
    PROVE  /\ need' \in [Inputs -> {"none", "miss", "fill", "uncached"}]
           /\ pipe' \in {"empty", "access", "other"}
<1> DEFINE Needs == {"none", "miss", "fill", "uncached"}
<1>1. \A d, f \in Needs : Pair(d, f) \in [Inputs -> Needs]
    BY DEF Pair
<1>2. \A i \in Inputs : Requests(i) \subseteq Needs
    BY DEF Requests
<1>3. \A i \in Inputs : Waits(i) \subseteq Needs
    BY DEF Waits, BusInv, TypeOK
<1>4. D \in Inputs /\ I \in Inputs
    BY DEF Inputs
<1>5. CASE Move
    <2>1. PICK f \in Requests(I) : need' = Pair("none", f)
        BY <1>5 DEF Move
    <2>2. f \in Needs
        BY <1>2, <1>4, <2>1
    <2> QED BY <1>1, <1>5, <2>1, <2>2 DEF Move
<1>6. CASE Arrive
    <2>1. PICK d \in Requests(D), f \in Waits(I) : need' = Pair(d, f)
        BY <1>6 DEF Arrive
    <2>2. d \in Needs /\ f \in Needs
        BY <1>2, <1>3, <1>4, <2>1
    <2> QED BY <1>1, <1>6, <2>1, <2>2 DEF Arrive
<1>7. CASE Stall
    <2>1. PICK d \in Waits(D), f \in Waits(I) : need' = Pair(d, f)
        BY <1>7 DEF Stall
    <2>2. d \in Needs /\ f \in Needs
        BY <1>3, <1>4, <2>1
    <2>3. pipe' \in {"empty", "access", "other"}
        BY <1>7 DEF Stall, BusInv, TypeOK
    <2> QED BY <1>1, <2>1, <2>2, <2>3
<1>8. CASE Redirect
    <2>1. PICK f \in Requests(I) : need' = Pair("none", f)
        BY <1>8 DEF Redirect
    <2>2. f \in Needs
        BY <1>2, <1>4, <2>1
    <2> QED BY <1>1, <1>8, <2>1, <2>2 DEF Redirect
<1> QED BY <1>5, <1>6, <1>7, <1>8 DEF Next

LEMMA TypeNext ==
    ASSUME BusInv, Next
    PROVE  TypeOK'
<1>1. busy' \in BOOLEAN /\ index' \in Inputs
    BY DEF BusInv, TypeOK, Next, Arbiter, Select, Ireq, NoReq, Inputs, Last, Ready
<1> QED BY <1>1, CachesType, MemoryType, NeedsType DEF TypeOK, CacheStates, States

LEMMA OwnedNext ==
    ASSUME BusInv, Next
    PROVE  Owned'
<1> USE DEF BusInv
<1>1. ASSUME busy' PROVE cache'[index'].st # "IDLE"
    <2>1. CASE busy
        <3>1. ~Last
            BY <1>1, <2>1 DEF Next, Arbiter
        <3> QED BY <2>1, <3>1, OwnerStays DEF Owned
    <2>2. CASE ~busy
        <3>1. index' = Select /\ Ireq(Select).valid
            BY <1>1, <2>2 DEF Next, Arbiter
        <3>2. Select \in Inputs /\ cache[Select].st # "IDLE"
            BY <3>1 DEF Select, Inputs, Ireq, NoReq
        <3>3. Holds(Select)
            BY <2>2, <3>2, CacheSteps DEF Begins, MovesOn, Holds, ReadyTo, LastTo
        <3> QED BY <3>1, <3>2, <3>3 DEF Holds
    <2> QED BY <2>1, <2>2
<1>2. state' # "NONE" => busy'
    BY MemoryWorks, OwnerStays
<1> QED BY <1>1, <1>2 DEF Owned

LEMMA FreshNext ==
    ASSUME BusInv, Next
    PROVE  Fresh'
<1> USE DEF BusInv
<1>1. SUFFICES ASSUME NEW i \in Inputs, cache'[i].st # "IDLE", ~ReadyTo(i)'
               PROVE  /\ cache'[i].next = cache'[i].first
                      /\ cache'[i].left = Length(cache'[i].st)
    BY DEF Fresh
<1>2. CASE Begins(i)
    BY <1>1, <1>2, BegunType DEF Begins
<1>3. CASE MovesOn(i)
    <2>1. busy /\ index = i /\ Ready /\ ~Last
        BY <1>3 DEF MovesOn, ReadyTo, LastTo
    <2>2. busy' /\ index' = i
        BY <2>1, OwnerStays
    <2>3. state' = state
        BY <2>1 DEF Next, Ram, Latch, CountDelay, StartBurst, RamBeat, RamIdle, Ready
    <2> QED BY <1>1, <2>1, <2>2, <2>3 DEF ReadyTo, Ready
<1>4. CASE Holds(i)
    BY <1>4 DEF Holds, Fresh
<1> QED BY <1>2, <1>3, <1>4, CacheSteps

\* The first beat: the burst starts where the cache does.
LEMMA FirstBeat ==
    ASSUME BusInv, Next, StartBurst
    PROVE  InStep' /\ WrapsAtLine'
<1> USE DEF BusInv
<1>1. busy /\ ~Last /\ ~Ready
    BY DEF StartBurst, Owned, Last, Ready
<1>2. /\ index' = index /\ cache'[index] = cache[index]
      /\ cache[index].st # "IDLE"
    BY <1>1, OwnerStays DEF Holds
<1>3. /\ cache[index].next = cache[index].first
      /\ cache[index].left = Length(cache[index].st)
    BY <1>1, <1>2, Request DEF Fresh, ReadyTo
<1>4. PICK n \in {1, NumWords} : n = Length(cache[index].st)
    BY DEF Length
<1>5. /\ addr' = cache[index].first /\ count_down' = n - 1
      /\ state' = IF cache[index].st \in {"WRITEBACK", "STORE"} THEN "WRITE" ELSE "READ"
    BY <1>1, <1>4, Request DEF StartBurst
<1>6. n - 1 + 1 = n
    BY Sizes
<1>7. InStep'
    BY <1>2, <1>3, <1>4, <1>5, <1>6 DEF InStep
<1>8. ASSUME n # 1
      PROVE  wrap1' = LineOf(addr') /\ wrap2' = LineOf(addr') + NumWords
    BY <1>1, <1>4, <1>5, <1>8, Request DEF StartBurst
<1>9. n = 1 => Last'
    BY <1>5, Sizes DEF Last, Ready
<1>10. WrapsAtLine'
    BY <1>8, <1>9 DEF WrapsAtLine, LineOf
<1> QED BY <1>7, <1>10

\* A beat that is not the last: memory and cache both go on, around the line.
LEMMA NextBeat ==
    ASSUME BusInv, Next, RamBeat, ~Last
    PROVE  InStep' /\ WrapsAtLine'
<1> USE DEF BusInv
<1>1. busy /\ Ready /\ count_down # 0
    BY DEF RamBeat, Owned, Last, Ready
<1>2. MovesOn(index) /\ index' = index /\ cache[index] \in CacheStates
    BY <1>1, OwnerStays, Request
<1>3. /\ cache'[index].next = NextWord(cache[index].next)
      /\ cache'[index].left = cache[index].left - 1
      /\ cache'[index].st = cache[index].st
    BY <1>2 DEF MovesOn, CacheStates
<1>4. /\ addr' = NextWord(addr) /\ count_down' = count_down - 1
      /\ UNCHANGED <<state, wrap1, wrap2>>
    BY <1>1 DEF RamBeat, WrapsAtLine, NextWord
<1>5. InStep'
    <2>1. count_down \in Nat
        BY Sizes DEF TypeOK
    <2>2. cache[index].left - 1 = count_down - 1 + 1
        BY <1>1, <2>1 DEF InStep
    <2> QED BY <1>1, <1>2, <1>3, <1>4, <2>2 DEF InStep
<1>6. LineOf(NextWord(addr)) = LineOf(addr)
    BY NextWordOfLine DEF TypeOK
<1>7. WrapsAtLine'
    BY <1>1, <1>4, <1>6 DEF WrapsAtLine, LineOf
<1> QED BY <1>5, <1>7

LEMMA BeatsNext ==
    ASSUME BusInv, Next
    PROVE  InStep' /\ WrapsAtLine'
<1>1. CASE StartBurst
    BY <1>1, FirstBeat
<1>2. CASE RamBeat /\ ~Last
    BY <1>2, NextBeat
<1>3. CASE Latch \/ CountDelay \/ RamIdle \/ (RamBeat /\ Last)
    <2>1. ~Ready'
        BY <1>3 DEF Latch, CountDelay, RamIdle, RamBeat, Ready
    <2> QED BY <2>1 DEF InStep, WrapsAtLine
<1> QED BY <1>1, <1>2, <1>3 DEF Next, Ram

LEMMA UnmodifiedNext ==
    ASSUME BusInv, Next
    PROVE  RequestUnmodified'
<1>1. SUFFICES ASSUME state' # "NONE" PROVE oreq' = saved_oreq'
    BY DEF RequestUnmodified
<1>2. oreq' = oreq
    BY <1>1, MemoryWorks, OwnerStays DEF BusInv
<1>3. CASE Latch
    BY <1>2, <1>3 DEF Latch
<1>4. CASE ~Latch
    <2>1. state # "NONE" /\ saved_oreq' = saved_oreq
        BY <1>1, <1>4 DEF Next, Ram, CountDelay, StartBurst, RamBeat, RamIdle, Ready
    <2> QED BY <1>2, <2>1 DEF BusInv, RequestUnmodified
<1> QED BY <1>3, <1>4

LEMMA BusNext == BusInv /\ [Next]_vars => BusInv'
<1> SUFFICES ASSUME BusInv, [Next]_vars PROVE BusInv'
    OBVIOUS
<1>1. CASE Next
    BY <1>1, TypeNext, OwnedNext, FreshNext, BeatsNext, UnmodifiedNext DEF BusInv
<1>2. CASE UNCHANGED vars
    <2>1. oreq' = oreq
        BY <1>2 DEF vars, oreq, Ireq, NoReq
    <2> QED BY <1>2, <2>1 DEF vars, BusInv, TypeOK, Owned, Fresh, InStep, WrapsAtLine,
                RequestUnmodified, Ready, ReadyTo, Last, LineOf, Length
<1> QED BY <1>1, <1>2

-----------------------------------------------------------------------------
(* The results.                                                            *)

\* The arbiter, the memory and the caches agree about the transaction under
\* way in every state of the program.
THEOREM BusCorrect == Spec => []BusInv
BY BusInit, BusNext, PTL DEF Spec

\* No counter or address of the arbiter, of RAMHelper2 or of the miss FSMs
\* leaves its range.
THEOREM BusTypes == Spec => []TypeOK
BY BusCorrect, PTL DEF BusInv

\* Every beat reaches the cache that waits for exactly that word, in the
\* direction it expects, and the last beat is the last for both.
THEOREM BeatsReachTheirCache == Spec => []BeatIsExpected
<1>1. BusInv => BeatIsExpected
    <2> SUFFICES ASSUME BusInv, Ready PROVE BeatIsExpected
        BY DEF BeatIsExpected
    <2>1. busy /\ index \in Inputs /\ cache[index].st # "IDLE" /\ ReadyTo(index)
        BY Request DEF BusInv, Owned, Ready, ReadyTo
    <2>2. count_down \in Nat
        BY Sizes DEF BusInv, TypeOK
    <2>3. Last <=> cache[index].left = 1
        BY <2>2 DEF BusInv, InStep, Last
    <2> QED BY <2>1, <2>3 DEF BusInv, InStep, BeatIsExpected
<1> QED BY <1>1, BusCorrect, PTL

\* RAMHelper2 never stops the simulation because of a request that changed
\* before its last beat, whatever its delay.
THEOREM RequestStays == Spec => []RequestUnmodified
BY BusCorrect, PTL DEF BusInv
=============================================================================
