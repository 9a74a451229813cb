----------------------------- MODULE CacheBench -----------------------------
(***************************************************************************)
(* The simulation that tests the data cache (verilate/vsrc/VCacheTop): a   *)
(* queue of loads and stores (DBusPipelineGen of bus.h), the cache, the    *)
(* memory device of the C++ side (CBusDevice with its AXITransaction), and *)
(* the reference model the answers are compared with.                      *)
(*                                                                         *)
(* One tick is one call of MyCache::_tick, a full clock cycle, with what   *)
(* the queue does around it.  The synchronous load() and store() of        *)
(* DBusGen, which await their answer, are a queue of one.                  *)
(*                                                                         *)
(* Abstractions: those of DCache; an address is the number of its word, so *)
(* Number_Bytes is 1 and every address is aligned.  async_load and         *)
(* async_store set bit 31 of the address, which the device masks out: no   *)
(* request of the bench is uncached.                                       *)
(***************************************************************************)
EXTENDS DCache, Sequences

CONSTANTS
    Issued,    \* the loads and stores a test may submit
    MaxQueue   \* the queue of tasks is not bounded in the code

ASSUME BenchAssumption ==
    /\ MaxQueue \in Nat \ {0}
    /\ IOTag \in Nat /\ Tags \subseteq Nat
    /\ Issued \subseteq {r \in Requests : r.valid /\ r.tag # IOTag}

VARIABLES
    dreq,     \* the request port of the cache
    ongoing,  \* tasks submitted and not answered; a load has the value expected
    tx,       \* the transaction of the device
    mem,      \* its memory
    enable,   \* the device works in the coming cycle
    ref       \* the memory of the reference model

vars == <<cacheVars, dreq, ongoing, tx, mem, enable, ref>>

WordOf(tag, index, offset) == (tag * NumSets + index) * NumWords + offset

Words == {WordOf(t, s, o) : t \in AllTags, s \in Sets, o \in Offsets}

NoTx == [busy |-> FALSE, is_write |-> FALSE, start |-> 0, addr |-> 0, n |-> 0, len |-> 0]

Transactions == [busy : BOOLEAN, is_write : BOOLEAN, start : Words \union {0},
                 addr : Words \union {0}, n : 0 .. NumWords, len : 0 .. NumWords]

\* A store has the data to write, a load the value to compare with.
Tasks == {r \in Requests : r.valid /\ r.tag # IOTag}

TypeOK ==
    /\ CacheTypeOK
    /\ dreq \in Requests
    /\ ongoing \in Seq(Tasks)
    /\ Len(ongoing) <= MaxQueue
    /\ tx \in Transactions
    /\ mem \in [Words -> Values]
    /\ enable \in BOOLEAN
    /\ ref \in [Words -> Values]

NoReq == [valid |-> FALSE, we |-> FALSE, tag |-> IOTag, index |-> 0,
          offset |-> 0, data |-> InitValue]

ZeroMemory == [w \in Words |-> InitValue]

Init == /\ CacheInit
        /\ dreq = NoReq
        /\ ongoing = <<>>
        /\ tx = NoTx
        /\ mem = ZeroMemory
        /\ enable = TRUE
        /\ ref = ZeroMemory

-----------------------------------------------------------------------------
(* The device.                                                             *)

\* Mutant: the burst runs on into the next line.
NextAddrNoWrap(t) == IF t.addr + 1 \in Words THEN t.addr + 1 ELSE 0

\* AXITransaction::sync: the next address, wrapped at the end of the line.
NextAddr(t) ==
    LET lower == (t.start \div t.len) * t.len IN
    IF t.addr + 1 >= lower + t.len THEN lower ELSE t.addr + 1

Sync(t) == [t EXCEPT !.addr = NextAddr(t), !.n = @ + 1]

\* Mutant: the beats counted from zero.
LastBeatLate(t) == t.n = t.len + 1

LastBeat(t) == t.n = t.len

\* eval_resp, before the clock edge.
Resp ==
    IF enable /\ tx.busy
    THEN [ready |-> TRUE, last |-> LastBeat(tx),
          data |-> IF tx.is_write THEN InitValue ELSE mem[tx.addr]]
    ELSE NoResp

creq == CReq(dreq)

CReqWord == WordOf(creq.tag, creq.index, creq.offset)

\* AXITransaction::init with the request on the bus.
NewTx == [busy |-> TRUE, is_write |-> creq.is_write, start |-> CReqWord,
          addr |-> CReqWord, n |-> 1, len |-> creq.len]

\* eval_req and sync: nothing of the transaction moves while the device is
\* off; whether it is on in the next cycle is drawn with p_disable.
DeviceEdge ==
    /\ \/ ~enable /\ tx' = tx
       \/ enable /\ tx.busy  /\ LastBeat(tx)  /\ tx' = NoTx
       \/ enable /\ tx.busy  /\ ~LastBeat(tx) /\ tx' = Sync(tx)
       \/ enable /\ ~tx.busy /\ creq.valid    /\ tx' = NewTx
       \/ enable /\ ~tx.busy /\ ~creq.valid   /\ tx' = tx
    /\ mem' = IF enable /\ tx.busy /\ tx.is_write
              THEN [mem EXCEPT ![tx.addr] = CReqData(dreq)] ELSE mem
    /\ enable' \in BOOLEAN

-----------------------------------------------------------------------------
(* The queue and the reference model.                                      *)

\* A load leaves the data of the request as it was.
AsyncLoad(t)  == [t EXCEPT !.data = dreq.data]
AsyncStore(t) == t

Issue(t) == IF t.we THEN AsyncStore(t) ELSE AsyncLoad(t)

Clear(r) == [r EXCEPT !.valid = FALSE]

TaskWord(t) == WordOf(t.tag, t.index, t.offset)

\* CacheRefModel: what a load returns, and the memory after a store.
RefLoad(t)  == ref[TaskWord(t)]
RefStore(t) == [ref EXCEPT ![TaskWord(t)] = t.data]

\* A test runs its tasks on the reference model in the order it submits them:
\* a load to know the value to expect.
Submit(t) ==
    /\ Len(ongoing) < MaxQueue
    /\ ongoing' = Append(ongoing, IF t.we THEN t ELSE [t EXCEPT !.data = RefLoad(t)])
    /\ dreq' = IF dreq.valid THEN dreq ELSE Issue(t)
    /\ ref' = IF t.we THEN RefStore(t) ELSE ref
    /\ UNCHANGED <<cacheVars, tx, mem, enable>>

\* The answer on the port, read before the tick.
Answered == dreq.valid /\ DataOk(dreq, NoResp)

\* Mutant: the task behind an answered one is not put on the port.
TickNoReissue ==
    /\ Edge(dreq, Resp)
    /\ DeviceEdge
    /\ ongoing' = IF Answered THEN Tail(ongoing) ELSE ongoing
    /\ dreq' = IF Answered THEN Clear(dreq) ELSE dreq
    /\ UNCHANGED ref

\* The cycle runs with the request still on the port; then an answered task
\* leaves the queue, and the one at its head is put on the port again.
Tick ==
    /\ Edge(dreq, Resp)
    /\ DeviceEdge
    /\ ongoing' = IF Answered THEN Tail(ongoing) ELSE ongoing
    /\ dreq' = IF ongoing' = <<>> THEN Clear(dreq) ELSE Issue(Head(ongoing'))
    /\ UNCHANGED ref

\* Mutant: the reset leaves the transaction of the device alone.
ResetCacheOnly ==
    /\ ongoing = <<>>
    /\ metadata' = [s \in Sets |-> [w \in Ways |-> [valid |-> FALSE, dirty |-> FALSE]]]
    /\ miss_state' = "IDLE"
    /\ miss_addr' = [idx |-> 0, index |-> 0, offset |-> 0]
    /\ miss_data_loaded' = {}
    /\ wb' = [tag |-> IOTag, meta |-> [valid |-> FALSE, dirty |-> FALSE],
              wen |-> FALSE, offset |-> 0]
    /\ dresp_data_ok' = FALSE
    /\ hit_rdata' = data[0][0][0] /\ miss_rdata' = data[0][0][0]
    /\ dreq' = NoReq
    /\ tx' = tx /\ mem' = ZeroMemory /\ ref' = ZeroMemory
    /\ UNCHANGED <<tags, data, creq_addr, writebuffer, ongoing, enable>>

\* Between two tests, whatever the last one left under way: the cache forgets
\* its lines but not its RAMs, the device its transaction, and both memories
\* are as at the start.
Reset ==
    /\ ongoing = <<>>
    /\ metadata' = [s \in Sets |-> [w \in Ways |-> [valid |-> FALSE, dirty |-> FALSE]]]
    /\ miss_state' = "IDLE"
    /\ miss_addr' = [idx |-> 0, index |-> 0, offset |-> 0]
    /\ miss_data_loaded' = {}
    /\ wb' = [tag |-> IOTag, meta |-> [valid |-> FALSE, dirty |-> FALSE],
              wen |-> FALSE, offset |-> 0]
    /\ dresp_data_ok' = FALSE
    /\ hit_rdata' = data[0][0][0] /\ miss_rdata' = data[0][0][0]
    /\ dreq' = NoReq
    /\ tx' = NoTx /\ mem' = ZeroMemory /\ ref' = ZeroMemory
    /\ UNCHANGED <<tags, data, creq_addr, writebuffer, ongoing, enable>>

Next == Tick \/ Reset \/ \E t \in Issued : Submit(t)

Spec == Init /\ [][Next]_vars

\* fence() and await() tick until the queue is empty; the device is off for a
\* while with probability one when p_disable is below one.
Fairness == /\ WF_vars(ongoing # <<>> /\ Tick)
            /\ []<>enable

FairSpec == Spec /\ Fairness

-----------------------------------------------------------------------------
(* Correctness.                                                            *)

\* apply_assert, and the wrapper of testbench.h: the answer read off the port
\* belongs to the task at the head of the queue and is what the reference
\* model holds, although it is sampled before a clock edge in which the
\* request is still there and a later one takes its place after it.
ReadsMatchReference ==
    Answered => /\ ongoing # <<>>
                /\ ~Head(ongoing).we => hit_rdata = Head(ongoing).data

\* The five assertions of CBusDevice::eval_req: a transaction finds its
\* request on the bus unchanged, also after the device was off in between.
TransactionIsHeld ==
    tx.busy => /\ creq.valid
               /\ creq.is_write = tx.is_write
               /\ CReqWord = tx.start
               /\ creq.len = tx.len

\* The device computes the address of a beat as the AXI specification writes
\* it, the cache counts an offset of its own: they mean the same word.
BeatsAgree ==
    tx.busy => tx.addr = WordOf(creq.tag, creq.index, miss_addr.offset)

\* fence() comes to an end: tasks are answered as long as there are any.
TasksAreAnswered ==
    []<>(ongoing = <<>>) \/ []<><<Len(ongoing') < Len(ongoing)>>_ongoing
=============================================================================
