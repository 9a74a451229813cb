----------------------------- MODULE DCacheMem ------------------------------
(***************************************************************************)
(* The data side of the hierarchy: the memory stage of the pipeline        *)
(* (vsrc/pipeline/memory/memory.sv) in front of the data cache, and the    *)
(* memory behind it (RAMHelper2 of difftest/src/test/vsrc/common/ram.sv    *)
(* behind CBusArbiter).  One step is one clock edge of all three.          *)
(*                                                                         *)
(* The memory is slow in any way: a transaction is granted, and a beat is  *)
(* transferred, after any number of cycles.                                *)
(***************************************************************************)
EXTENDS DCache

CONSTANT Issued  \* the requests the instruction stream may make

VARIABLES
    mem,        \* the memory behind the bus
    bus,        \* the transaction the memory is serving
    mstate,     \* state of the memory stage: IDLE, MEMORY01, MEMORY10
    dataE_o,    \* the request of the instruction in the E/M register
    dataM1,     \* the request of the instruction in the M1/M2 register
    memr_data   \* dataM1.memr_data: what an uncached load returned

vars == <<cacheVars, mem, bus, mstate, dataE_o, dataM1, memr_data>>

BusFree == [busy |-> FALSE]

\* A transaction, the address of its next beat, and the beats after that one.
Transactions == [busy : {TRUE}, is_write : BOOLEAN, tag : AllTags, index : Sets,
                 offset : Offsets, left : 0 .. NumWords - 1]

\* A bubble: an instruction that does not access memory.
NoReq == [valid |-> FALSE, we |-> FALSE, tag |-> IOTag, index |-> 0,
          offset |-> 0, data |-> InitValue]

\* A load carries no data on dreq.
ASSUME IssuedAssumption ==
    Issued \subseteq {r \in Requests : r.valid /\ (~r.we => r.data = InitValue)}

TypeOK ==
    /\ CacheTypeOK
    /\ mem \in [Addrs -> Values]
    /\ bus \in {BusFree} \union Transactions
    /\ mstate \in {"IDLE", "MEMORY01", "MEMORY10"}
    /\ dataE_o \in Issued \union {NoReq}
    /\ dataM1 \in Issued \union {NoReq}
    /\ memr_data \in Values

\* The request is re-sent in MEMORY01, the cycle its answer is taken.
dreq == IF mstate = "MEMORY01" THEN dataM1 ELSE dataE_o

creq == CReq(dreq)

Init == /\ CacheInit
        /\ mem = [a \in Addrs |-> InitValue]
        /\ bus = BusFree
        /\ mstate = "IDLE"
        /\ dataE_o = NoReq /\ dataM1 = NoReq
        /\ memr_data = InitValue

-----------------------------------------------------------------------------
(* The memory stage.  fetch leaves at least one bubble between two         *)
(* instructions (ICache answers every second cycle at best), so a bubble   *)
(* follows every request.                                                  *)

Advance == IF dataE_o.valid THEN dataE_o' = NoReq
                            ELSE dataE_o' \in Issued \union {NoReq}

\* dataM1 <= dataMtmp: the instruction moves on; its memr_data is not driven.
MoveToM1 == /\ dataM1' = dataE_o
            /\ Advance

\* Mutant: an uncached answer is taken for a cached one.
AcceptAny(c) ==
    /\ mstate # "MEMORY01" /\ dataE_o.valid
    /\ AddrOk(dreq, c)
    /\ mstate' = "MEMORY01"
    /\ MoveToM1 /\ memr_data' = InitValue

Accept(c) ==
    /\ mstate # "MEMORY01" /\ dataE_o.valid
    /\ AddrOk(dreq, c)
    /\ mstate = "MEMORY10" => ~Uncached(dreq)
    /\ mstate' = "MEMORY01"
    /\ MoveToM1 /\ memr_data' = InitValue

AcceptUncached(c) ==
    /\ mstate = "MEMORY10"
    /\ AddrOk(dreq, c) /\ Uncached(dreq)
    /\ mstate' = "IDLE"
    /\ MoveToM1 /\ memr_data' = RespData(dreq, c)

Stall(c) ==
    /\ mstate # "MEMORY01" /\ dataE_o.valid
    /\ ~AddrOk(dreq, c)
    /\ mstate' = "MEMORY10"
    /\ UNCHANGED <<dataE_o, dataM1, memr_data>>

\* No request to wait for: in MEMORY01 the answer is taken, and a request
\* behind it would be taken for a stalled one.
Pass ==
    /\ mstate = "MEMORY01" \/ ~dataE_o.valid
    /\ mstate' = IF dataE_o.valid THEN "MEMORY10" ELSE "IDLE"
    /\ MoveToM1 /\ memr_data' = InitValue

StageEdge(c) == Accept(c) \/ AcceptUncached(c) \/ Stall(c) \/ Pass

-----------------------------------------------------------------------------
(* The memory.  The arbiter and the memory latch a request in a cycle of   *)
(* their own; each beat then reads or writes the word at the wrapped       *)
(* address.                                                                *)

BusAddr == <<bus.tag, bus.index, bus.offset>>

Beat == [ready |-> TRUE, last |-> bus.left = 0, data |-> mem[BusAddr]]

\* A clock edge without a beat: the memory is idle or waits.
Quiet == /\ Edge(dreq, NoResp) /\ StageEdge(NoResp)
         /\ UNCHANGED <<mem, bus>>

\* The memory takes the request on the bus.
Grant == /\ ~bus.busy /\ creq.valid
         /\ bus' = [busy |-> TRUE, is_write |-> creq.is_write, tag |-> creq.tag,
                    index |-> creq.index, offset |-> creq.offset, left |-> creq.len - 1]
         /\ Edge(dreq, NoResp) /\ StageEdge(NoResp)
         /\ UNCHANGED mem

\* One word of the transaction, written with the data then on the bus.
Transfer == /\ bus.busy
            /\ mem' = IF bus.is_write THEN [mem EXCEPT ![BusAddr] = CReqData(dreq)] ELSE mem
            /\ bus' = IF bus.left = 0 THEN BusFree
                      ELSE [bus EXCEPT !.left = @ - 1, !.offset = NextOffset(@)]
            /\ Edge(dreq, Beat) /\ StageEdge(Beat)

Next == Quiet \/ Grant \/ Transfer

\* The clock ticks; the memory takes a request that stays on the bus and
\* transfers its beats.  RAMHelper2 counts down a bounded random delay.
Fairness == WF_vars(Next) /\ WF_vars(Grant) /\ WF_vars(Transfer)

Spec == Init /\ [][Next]_vars
FairSpec == Spec /\ Fairness

-----------------------------------------------------------------------------
(* Correctness.                                                            *)

\* The word of address <<t, s, o>> the hierarchy stands for.
CurrentWord(a) == WordOver(mem, a)

\* A request stays on the bus unchanged until its last beat: RAMHelper2 and
\* CBusDevice assert it ("Unexpected CBus request modification."), and the
\* address of every beat is computed from the first cycle's.
RequestIsHeld ==
    [][creq.valid /\ ~(bus.busy /\ ~bus'.busy) => creq' = creq]_vars

\* The memory and the miss FSM count the beats of a transaction apart: they
\* always mean the same word.
BusAgrees ==
    bus.busy =>
        /\ creq.valid /\ creq.is_write = bus.is_write
        /\ creq.tag = bus.tag /\ creq.index = bus.index
        /\ bus.offset = IF Skip(dreq) THEN creq.offset ELSE miss_addr.offset

\* The memory stage takes dresp.data in the cycle after addr_ok without
\* looking at data_ok: data_ok is high in that cycle.
AcceptedIsAnswered == mstate = "MEMORY01" => DataOk(dreq, NoResp)

\* An uncached request is not accepted in its first cycle, which would send
\* it to the device a second time from MEMORY01.
UncachedIsNotResent == mstate = "MEMORY01" => dataM1.tag # IOTag

\* A clean cached line equals memory, so dropping it at a miss loses nothing.
CleanLineMatchesMemory ==
    \A s \in Sets, w \in Ways, o \in Offsets :
        LET r == [valid |-> TRUE, tag |-> tags[s][w], index |-> s, offset |-> o] IN
        metadata[s][w].valid /\ ~metadata[s][w].dirty /\ IsLoaded(r)
            => data[s][w][o] = mem[<<tags[s][w], s, o>>]

(***************************************************************************)
(* The hierarchy implements an atomic memory.                              *)
(***************************************************************************)
ToRequest(r) == [we |-> r.we, addr |-> <<r.tag, r.index, r.offset>>, data |-> r.data]

port == CASE mstate = "MEMORY01" ->
                [st |-> "served", req |-> ToRequest(dataM1), data |-> RespData(dreq, NoResp)]
          [] mstate = "IDLE" /\ dataM1.valid ->
                [st |-> "served", req |-> ToRequest(dataM1), data |-> memr_data]
          [] dataE_o.valid -> [st |-> "asked", req |-> ToRequest(dataE_o)]
          [] OTHER -> [st |-> "free"]

Memory == INSTANCE AtomicMemory WITH memory <- [a \in Addrs |-> CurrentWord(a)]

\* Every load of the memory stage returns the last value stored, through
\* misses, evictions and hits under the miss; every request is served.
ImplementsMemory == Memory!Spec
=============================================================================
