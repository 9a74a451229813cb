-------------------------------- MODULE CBus --------------------------------
(***************************************************************************)
(* The cache bus: the miss FSMs of the two caches seen from the bus, the   *)
(* arbiter between them (vsrc/util/CBusArbiter.sv, data cache at input 0)  *)
(* and the memory of the simulation (RAMHelper2 of                         *)
(* difftest/src/test/vsrc/common/ram.sv).  One step is one clock edge.     *)
(*                                                                         *)
(* What a beat carries is its address: the question is whether every beat  *)
(* reaches the cache that waits for exactly that word.                     *)
(***************************************************************************)
EXTENDS Integers

CONSTANTS
    NumWords,  \* words of a line: MLEN16 in the code
    NumLines,  \* lines of memory; line 0 is the uncached one
    MaxDelay   \* the longest delay RAMHelper2 draws

ASSUME CBusAssumption ==
    /\ NumWords \in Nat \ {0, 1}
    /\ NumLines \in Nat \ {0, 1}
    /\ MaxDelay \in Nat

D == 0
I == 1
Inputs == {D, I}

Words    == 0 .. NumLines * NumWords - 1
Uncached == 0 .. NumWords - 1
Cached   == Words \ Uncached

LineOf(a) == (a \div NumWords) * NumWords

VARIABLES
    cache,     \* per input: state of the miss FSM, the address on the bus,
               \* the address of the beat it expects, the beats still to come
    need,      \* per input: what the request in front of the cache still
               \* needs of the bus (nothing when there is none, or a hit)
    pipe,      \* what is behind the memory stage: an access in D/E, nothing
               \* since a redirect, or other instructions
    busy, index,                                 \* the arbiter
    state, count_down, addr, wrap1, wrap2, saved_oreq  \* RAMHelper2

vars == <<cache, need, pipe, busy, index,
          state, count_down, addr, wrap1, wrap2, saved_oreq>>

NoReq == [valid |-> FALSE]

\* ireqs: what each cache puts on its bus port.
Ireq(i) ==
    IF cache[i].st = "IDLE" THEN NoReq
    ELSE [valid |-> TRUE, addr |-> cache[i].first,
          is_write |-> cache[i].st \in {"WRITEBACK", "STORE"},
          len |-> IF cache[i].st \in {"LOAD", "WRITEBACK"} THEN NumWords ELSE 1]

TypeOK ==
    /\ cache \in [Inputs -> [st : {"IDLE", "LOAD", "WRITEBACK", "FETCH", "STORE"},
                             first : Words, next : Words, left : 0 .. NumWords]]
    /\ need \in [Inputs -> {"none", "miss", "fill", "uncached"}]
    /\ pipe \in {"empty", "access", "other"}
    /\ busy \in BOOLEAN /\ index \in Inputs
    /\ state \in {"NONE", "WAIT", "READ", "WRITE"}
    /\ count_down \in 0 .. MaxDelay \union 0 .. NumWords - 1
    /\ addr \in Words
    /\ wrap1 \in Words /\ wrap2 \in 0 .. NumLines * NumWords

Init ==
    /\ cache = [i \in Inputs |-> [st |-> "IDLE", first |-> 0, next |-> 0, left |-> 0]]
    /\ need = [i \in Inputs |-> IF i = D THEN "none" ELSE "miss"] \* the reset vector
    /\ pipe = "empty"
    /\ busy = FALSE /\ index = D
    /\ state = "NONE" /\ count_down = 0
    /\ addr = 0 /\ wrap1 = 0 /\ wrap2 = 0 /\ saved_oreq = NoReq

-----------------------------------------------------------------------------
(* The arbiter.                                                            *)

oreq == IF busy THEN Ireq(index) ELSE NoReq

\* oresp: comes from the state of the memory.
Ready == state \in {"READ", "WRITE"}
Last  == Ready /\ count_down = 0

\* Mutant: every response goes to the data cache while it asks.
ReadyToUnrouted(i) == busy /\ i = (IF Ireq(D).valid THEN D ELSE index) /\ Ready

\* iresps: the input that was selected, and no other, sees the response.
ReadyTo(i) == busy /\ index = i /\ Ready
LastTo(i)  == busy /\ index = i /\ Last

\* The first input with a request, 0 when there is none.
Select == IF ~Ireq(D).valid /\ Ireq(I).valid THEN I ELSE D

\* Mutant: the arbiter follows the requests while a transfer is under way.
ArbiterUnlocked == /\ busy' = IF busy THEN ~Last ELSE Ireq(Select).valid
                   /\ index' = Select

Arbiter ==
    IF busy THEN busy' = ~Last /\ UNCHANGED index
            ELSE busy' = Ireq(Select).valid /\ index' = Select

-----------------------------------------------------------------------------
(* The memory.                                                             *)

Latch == /\ state = "NONE" /\ oreq.valid
         /\ state' = "WAIT" /\ saved_oreq' = oreq
         /\ count_down' \in 0 .. MaxDelay
         /\ UNCHANGED <<addr, wrap1, wrap2>>

CountDelay == /\ state = "WAIT" /\ count_down # 0
              /\ count_down' = count_down - 1
              /\ UNCHANGED <<state, addr, wrap1, wrap2, saved_oreq>>

\* Mutant: the burst wraps at its own length counted from its first word.
StartBurstUnaligned ==
    /\ state = "WAIT" /\ count_down = 0
    /\ state' = IF oreq.is_write THEN "WRITE" ELSE "READ"
    /\ addr' = oreq.addr
    /\ count_down' = oreq.len - 1
    /\ wrap1' = oreq.addr /\ wrap2' = oreq.addr + oreq.len
    /\ UNCHANGED saved_oreq

StartBurst ==
    /\ state = "WAIT" /\ count_down = 0
    /\ state' = IF oreq.is_write THEN "WRITE" ELSE "READ"
    /\ addr' = oreq.addr
    /\ count_down' = oreq.len - 1
    /\ IF oreq.len = 1 THEN wrap1' = oreq.addr /\ wrap2' = oreq.addr + 1
       ELSE wrap1' = LineOf(oreq.addr) /\ wrap2' = LineOf(oreq.addr) + oreq.len
    /\ UNCHANGED saved_oreq

RamBeat ==
    /\ Ready
    /\ IF Last THEN state' = "NONE" /\ UNCHANGED <<count_down, addr>>
       ELSE /\ count_down' = count_down - 1
            /\ addr' = IF addr + 1 = wrap2 THEN wrap1 ELSE addr + 1
            /\ UNCHANGED state
    /\ UNCHANGED <<wrap1, wrap2, saved_oreq>>

RamIdle == /\ state = "NONE" /\ ~oreq.valid
           /\ UNCHANGED <<state, count_down, addr, wrap1, wrap2, saved_oreq>>

Ram == Latch \/ CountDelay \/ StartBurst \/ RamBeat \/ RamIdle

-----------------------------------------------------------------------------
(* The requests in front of the caches.                                    *)

Pair(d, f) == [i \in Inputs |-> IF i = D THEN d ELSE f]

\* fsm_to_miss: a miss starts its fill from IDLE, or with the last beat of a
\* write-back.  One that waits for another fill to end starts after it.
Starts(i) == /\ need[i] = "miss"
             /\ cache[i].st = "IDLE" \/ (cache[i].st = "WRITEBACK" /\ LastTo(i))

\* A request from now on: it hits (or asks for nothing), misses, asks for a
\* word of the line being filled that is still to come, or, on the data side,
\* goes past the cache.
Requests(i) ==
    {"none", "miss"}
    \union {n \in {"uncached"} : i = D}
    \union {n \in {"fill"} : cache[i].st = "LOAD" /\ ~LastTo(i)}

\* A request that stays: a miss becomes one for a word of the line being
\* filled, which comes with some beat, and with the last at the latest; an
\* uncached one is answered in the cycle of its own last beat.
UncachedDone == need[D] = "uncached" /\ cache[D].st \in {"FETCH", "STORE"} /\ LastTo(D)

Waits(i) ==
    CASE need[i] = "none"     -> {"none"}
      [] need[i] = "miss"     -> {IF Starts(i) THEN "fill" ELSE "miss"}
      [] need[i] = "fill"     -> {n \in {"fill"} : ~LastTo(i)} \union {n \in {"none"} : ReadyTo(i)}
      [] need[i] = "uncached" -> {IF UncachedDone THEN "none" ELSE "uncached"}

-----------------------------------------------------------------------------
(* The pipeline, as far as it decides when a request may come.             *)

\* Mutant: hazard.sv without the stall of a fetch.
MoveUnstalled ==
    /\ pipe # "access"
    /\ need[D] = "none" \/ UncachedDone
    /\ pipe' \in {"other"} \union {p \in {"access"} : pipe # "empty"}
    /\ \E f \in IF need[I] = "none" THEN Requests(I) ELSE Waits(I) : need' = Pair("none", f)

\* The pc goes on, and what was fetched moves up to D/E: no stage waits for
\* memory (regstall_en.pc).  When D/E holds an access this cannot happen: the
\* word behind it is still to be fetched.
Move ==
    /\ pipe # "access" /\ need[I] = "none"
    /\ need[D] = "none" \/ UncachedDone
    /\ pipe' \in {"other"} \union {p \in {"access"} : pipe # "empty"}
    /\ \E f \in Requests(I) : need' = Pair("none", f)

\* The access in D/E enters the memory stage, which has none of its own, at
\* the first edge at which the fetch behind it can start its fill.
Arrive ==
    /\ pipe = "access" /\ need[D] = "none"
    /\ pipe' = "other"
    /\ \E d \in Requests(D), f \in Waits(I) : need' = Pair(d, f)

\* A CSR write, a trap or a return in writeback empties the pipeline and
\* fetches from elsewhere; the memory stage is not waiting (MEMORY10 has a
\* bubble in writeback).
Redirect ==
    /\ pipe # "empty" /\ need[D] = "none"
    /\ pipe' = "empty"
    /\ \E f \in Requests(I) : need' = Pair("none", f)

\* A stall of any kind.
Stall ==
    /\ pipe # "access" /\ UNCHANGED pipe
    /\ \E d \in Waits(D), f \in Waits(I) : need' = Pair(d, f)

-----------------------------------------------------------------------------
(* The miss FSMs, from DCache.sv 207-307 and ICache.sv.                    *)

Transaction(st, a) ==
    [st |-> st, first |-> a, next |-> a,
     left |-> IF st \in {"LOAD", "WRITEBACK"} THEN NumWords ELSE 1]

Idle == [st |-> "IDLE", first |-> 0, next |-> 0, left |-> 0]

Misses == {Transaction("LOAD", a) : a \in Cached}

\* The fill of a dirty victim's way is followed by its write-back, which
\* starts at the same offset.
Writebacks(i) ==
    {Transaction("WRITEBACK", a) :
        a \in {b \in Cached : /\ i = D /\ cache[i].st = "LOAD"
                              /\ b % NumWords = cache[i].first % NumWords}}

\* What is on the bus when the FSM is in IDLE: skip is combinational, so an
\* uncached request is there in the very cycle it finds the FSM at rest.
Skips(i) ==
    IF need'[i] = "uncached" THEN {Transaction(st, a) : st \in {"FETCH", "STORE"}, a \in Uncached}
                             ELSE {Idle}

NextWord(a) == IF a + 1 = LineOf(a) + NumWords THEN LineOf(a) ELSE a + 1

\* Nothing of cache i is on the bus, or the last beat is passing.
Free(i) == cache[i].st = "IDLE" \/ LastTo(i)

\* The next state of a cache whose port is among the asking ones or not.
NextOf(i, asking) ==
    CASE Free(i) /\ Starts(i) /\ i \in asking    -> Misses
      [] Free(i) /\ ~(Starts(i) /\ i \in asking) -> Skips(i) \union Writebacks(i)
      [] ~Free(i) /\ ReadyTo(i) -> {[cache[i] EXCEPT !.next = NextWord(@), !.left = @ - 1]}
      [] ~Free(i) /\ ~ReadyTo(i) -> {cache[i]}

Caches(asking) ==
    \E d \in NextOf(D, asking), f \in NextOf(I, asking) : cache' = Pair(d, f)

\* ireq is withdrawn in the cycle of a redirect: a fetch that missed does not
\* start its fill then.
Next ==
    /\ Arbiter
    /\ Ram
    /\ \/ (Move \/ Arrive \/ Stall) /\ Caches(Inputs)
       \/ Redirect /\ Caches({D})

\* The clock ticks.
Spec == Init /\ [][Next]_vars /\ WF_vars(Next)

-----------------------------------------------------------------------------
\* A beat goes to the cache that expects the word at its address, the last
\* beat of a transaction is the last the cache expects, and nothing is
\* transferred while nobody listens.
BeatIsExpected ==
    Ready => \E i \in Inputs :
                /\ ReadyTo(i) /\ cache[i].st # "IDLE"
                /\ cache[i].next = addr
                /\ Last <=> cache[i].left = 1
                /\ state = "WRITE" <=> cache[i].st \in {"WRITEBACK", "STORE"}

\* RAMHelper2 stops the simulation when a request changes before its last
\* beat ("ERROR: Unexpected CBus request modification.").
RequestUnmodified == state # "NONE" => oreq = saved_oreq

\* Whoever waits for the bus is served.  A fetch is, although the data cache
\* has priority and may go on ahead of it for several transactions (a fill,
\* its write-back, and the fill or the uncached access of the one instruction
\* that was in D/E): while the fetch waits no further access comes.  An access
\* is, whichever transfers of its own cache and of the other come before.
RequestsAreServed == \A i \in Inputs : need[i] # "none" ~> need[i] = "none"
=============================================================================
