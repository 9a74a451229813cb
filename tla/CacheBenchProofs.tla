-------------------------- MODULE CacheBenchProofs --------------------------
(***************************************************************************)
(* Proofs about CacheBench, for every geometry of the cache, every         *)
(* sequence of queued tasks and every pattern of pauses of the device.     *)
(***************************************************************************)
EXTENDS CacheBench, DCacheProofs

BenchTypes ==
    /\ dreq \in Requests
    /\ ongoing \in Seq(Tasks) /\ Len(ongoing) <= MaxQueue
    /\ tx \in Transactions
    /\ mem \in [Words -> Values]
    /\ enable \in BOOLEAN
    /\ ref \in [Words -> Values]

\* The request on the port is that of the task at the head of the queue.
PortIsHead ==
    /\ dreq.valid <=> ongoing # <<>>
    /\ dreq.valid => /\ dreq.tag = Head(ongoing).tag
                     /\ dreq.index = Head(ongoing).index
                     /\ dreq.offset = Head(ongoing).offset
                     /\ dreq.we = Head(ongoing).we

\* The offset k words behind o.
Wrapped(o, k) == IF o + k < NumWords THEN o + k ELSE o + k - NumWords

\* The transaction on the device is that of the miss, and the offset of the
\* miss FSM is as far from the first word as the device has counted.
TxIsMiss ==
    tx.busy => /\ miss_state # "IDLE"
               /\ tx.is_write = (miss_state = "WRITEBACK")
               /\ tx.start = WordOf(creq_addr.tag, creq_addr.index, creq_addr.offset)
               /\ tx.addr = WordOf(creq_addr.tag, creq_addr.index, miss_addr.offset)
               /\ tx.len = NumWords
               /\ tx.n \in 1 .. NumWords
               /\ miss_addr.offset = Wrapped(creq_addr.offset, tx.n - 1)

\* Before its transaction has begun a miss stands at its first word.
MissAtStart ==
    ~tx.busy /\ miss_state # "IDLE" => miss_addr.offset = creq_addr.offset

BenchInv == CacheInv /\ BenchTypes /\ PortIsHead /\ TxIsMiss /\ MissAtStart

-----------------------------------------------------------------------------
(* Operators.                                                              *)

LEMMA DivMul ==
    ASSUME NEW q \in Nat, NEW n \in Nat \ {0}, NEW o \in 0 .. n - 1
    PROVE  (q * n + o) \div n = q
BY SMT

LEMMA AllTagsNat == AllTags \subseteq Nat
BY BenchAssumption DEF AllTags

\* The number of a word is that of the first word of its line and the offset.
LEMMA WordOfLine ==
    ASSUME NEW t \in AllTags, NEW s \in Sets, NEW o \in Offsets
    PROVE  /\ WordOf(t, s, o) \in Words
           /\ WordOf(t, s, o) \in Nat
           /\ 0 \in Offsets
           /\ WordOf(t, s, o) = WordOf(t, s, 0) + o
           /\ (WordOf(t, s, o) \div NumWords) * NumWords = WordOf(t, s, 0)
<1>1. /\ t \in Nat /\ s \in Nat /\ o \in 0 .. NumWords - 1
      /\ NumSets \in Nat /\ NumWords \in Nat \ {0}
    BY AllTagsNat, DCacheAssumption DEF Sets, Offsets
<1>2. WordOf(t, s, o) \in Words
    BY DEF Words
<1>3. PICK line \in Nat : line = t * NumSets + s
    BY <1>1, SMT
<1>4. WordOf(t, s, o) = line * NumWords + o /\ WordOf(t, s, 0) = line * NumWords + 0
    BY <1>3 DEF WordOf
<1>5. line * NumWords \in Nat
    BY <1>1, <1>3, SMT
<1>6. WordOf(t, s, o) \div NumWords = line
    BY <1>1, <1>3, <1>4, DivMul
<1> QED BY <1>1, <1>2, <1>4, <1>5, <1>6 DEF Offsets

LEMMA WrappedNext ==
    ASSUME NEW o \in Offsets, NEW k \in 0 .. NumWords - 1
    PROVE  /\ Wrapped(o, k) \in Offsets
           /\ NextOffset(Wrapped(o, k)) = Wrapped(o, k + 1)
           /\ Wrapped(o, 0) = o
           /\ Wrapped(o, NumWords) = o
BY DCacheAssumption DEF Wrapped, NextOffset, Offsets

\* Bursts of the device end at the end of the line, as the FSM's do.
LEMMA SyncWraps ==
    ASSUME NEW a \in AllTags, NEW s \in Sets, NEW first \in Offsets, NEW o \in Offsets,
           tx \in Transactions, tx.len = NumWords,
           tx.start = WordOf(a, s, first), tx.addr = WordOf(a, s, o)
    PROVE  NextAddr(tx) = WordOf(a, s, NextOffset(o))
<1>1. NextOffset(o) \in Offsets
    BY NextOffsetType
<1>2. (tx.start \div tx.len) * tx.len = WordOf(a, s, 0)
    BY WordOfLine
<1>3. tx.addr = WordOf(a, s, 0) + o /\ WordOf(a, s, 0) \in Nat
    BY WordOfLine
<1>4. WordOf(a, s, NextOffset(o)) = WordOf(a, s, 0) + NextOffset(o)
    BY <1>1, WordOfLine
<1>5. NextAddr(tx) = IF tx.addr + 1 >= WordOf(a, s, 0) + NumWords
                     THEN WordOf(a, s, 0) ELSE tx.addr + 1
    BY <1>2 DEF NextAddr
<1>6. o \in 0 .. NumWords - 1 /\ NumWords \in Nat
    BY DCacheAssumption DEF Offsets
<1> QED BY <1>3, <1>4, <1>5, <1>6 DEF NextOffset

\* No request of the bench is uncached, so the bus carries the miss alone.
LEMMA PortCached ==
    ASSUME BenchTypes, PortIsHead
    PROVE  /\ dreq.valid => dreq.tag # IOTag
           /\ ~Skip(dreq)
<1>1. dreq.valid => Head(ongoing) \in Tasks
    BY DEF BenchTypes, PortIsHead
<1> QED BY <1>1 DEF PortIsHead, Tasks, Skip, Uncached

LEMMA BusIsMiss ==
    ASSUME BenchTypes, PortIsHead
    PROVE  /\ creq.valid = (miss_state # "IDLE")
           /\ creq.is_write = (miss_state = "WRITEBACK")
           /\ creq.tag = creq_addr.tag /\ creq.index = creq_addr.index
           /\ creq.offset = creq_addr.offset /\ creq.len = NumWords
           /\ CReqData(dreq) = writebuffer[miss_addr.offset]
BY PortCached DEF creq, CReq, CReqData

\* A transaction is at a word of the memory.
LEMMA TxAddress ==
    ASSUME BenchInv, tx.busy
    PROVE  tx.addr \in Words
<1>1. /\ creq_addr.tag \in AllTags /\ creq_addr.index \in Sets
      /\ miss_addr.offset \in Offsets
    BY DEF BenchInv, CacheInv, CacheTypeOK
<1> QED BY <1>1, WordOfLine DEF BenchInv, TxIsMiss

\* The device answers only while it is on and busy.
LEMMA RespFacts ==
    ASSUME BenchInv
    PROVE  /\ Resp \in Responses
           /\ Resp.ready <=> enable /\ tx.busy
           /\ Resp.last <=> enable /\ tx.busy /\ tx.n = tx.len
<1>1. InitValue \in Values
    BY DCacheAssumption
<1>2. CASE enable /\ tx.busy
    <2>1. mem[tx.addr] \in Values
        BY <1>2, TxAddress DEF BenchInv, BenchTypes
    <2>2. Resp = [ready |-> TRUE, last |-> tx.n = tx.len,
                  data |-> IF tx.is_write THEN InitValue ELSE mem[tx.addr]]
        BY <1>2 DEF Resp, LastBeat
    <2> QED BY <1>1, <1>2, <2>1, <2>2 DEF Responses
<1>3. CASE ~(enable /\ tx.busy)
    BY <1>1, <1>3 DEF Resp, NoResp, Responses
<1> QED BY <1>2, <1>3

-----------------------------------------------------------------------------
(* The initial state.                                                      *)

LEMMA ZeroMemoryType == ZeroMemory \in [Words -> Values]
BY DCacheAssumption DEF ZeroMemory

LEMMA IdlePort == NoReq \in Requests /\ NoTx \in Transactions
<1>1. /\ IOTag \in AllTags /\ 0 \in Sets /\ 0 \in Offsets /\ 0 \in 0 .. NumWords
      /\ InitValue \in Values
    BY DCacheAssumption DEF AllTags, Sets, Offsets
<1>2. NoReq \in Requests
    BY <1>1 DEF NoReq, Requests
<1>3. NoTx \in Transactions
    BY <1>1 DEF NoTx, Transactions
<1> QED BY <1>2, <1>3

LEMMA BenchInit == Init => BenchInv
<1> SUFFICES ASSUME Init PROVE BenchInv
    OBVIOUS
<1>1. CacheInv
    BY CacheInitInv DEF Init
<1>2. ongoing \in Seq(Tasks) /\ Len(ongoing) <= MaxQueue
    BY BenchAssumption DEF Init
<1>3. BenchTypes
    BY <1>2, ZeroMemoryType, IdlePort DEF Init, BenchTypes
<1>4. PortIsHead /\ TxIsMiss /\ MissAtStart
    BY DEF Init, PortIsHead, TxIsMiss, MissAtStart, NoReq, NoTx, CacheInit
<1> QED BY <1>1, <1>3, <1>4 DEF BenchInv

-----------------------------------------------------------------------------
(* The queue and the port.                                                 *)

\* What a task puts on the port is its request.
LEMMA IssueType ==
    ASSUME NEW t \in Tasks, dreq \in Requests
    PROVE  /\ Issue(t) \in Requests
           /\ Issue(t).valid
           /\ Issue(t).tag = t.tag /\ Issue(t).index = t.index
           /\ Issue(t).offset = t.offset /\ Issue(t).we = t.we
           /\ Clear(dreq) \in Requests /\ ~Clear(dreq).valid
<1>1. dreq.data \in Values /\ t \in Requests /\ t.valid
    BY DEF Tasks, Requests
<1>2. CASE t.we
    BY <1>1, <1>2 DEF Issue, AsyncStore, Clear, Requests
<1>3. CASE ~t.we
    BY <1>1, <1>3 DEF Issue, AsyncLoad, Clear, Requests
<1> QED BY <1>2, <1>3

LEMMA TickPort ==
    ASSUME BenchInv, Tick
    PROVE  /\ dreq' \in Requests
           /\ ongoing' \in Seq(Tasks) /\ Len(ongoing') <= MaxQueue
           /\ PortIsHead'
<1>1. /\ dreq \in Requests /\ ongoing \in Seq(Tasks) /\ Len(ongoing) <= MaxQueue
      /\ MaxQueue \in Nat
    BY BenchAssumption DEF BenchInv, BenchTypes
<1>2. ongoing' = IF Answered THEN Tail(ongoing) ELSE ongoing
    BY DEF Tick
<1>3. dreq' = IF ongoing' = <<>> THEN Clear(dreq) ELSE Issue(Head(ongoing'))
    BY DEF Tick
<1>4. Answered => ongoing # <<>>
    BY DEF BenchInv, PortIsHead, Answered
<1>5. ongoing' \in Seq(Tasks) /\ Len(ongoing') <= MaxQueue
    BY <1>1, <1>2, <1>4
<1>6. CASE ongoing' = <<>>
    BY <1>1, <1>3, <1>5, <1>6 DEF PortIsHead, Clear, Requests
<1>7. CASE ongoing' # <<>>
    <2>1. Head(ongoing') \in Tasks
        BY <1>5, <1>7
    <2>2. dreq' = Issue(Head(ongoing'))
        BY <1>3, <1>7
    <2> QED BY <1>1, <1>5, <1>7, <2>1, <2>2, IssueType DEF PortIsHead
<1> QED BY <1>5, <1>6, <1>7

\* A task submitted to an empty queue goes to the port, others wait.
LEMMA SubmitPort ==
    ASSUME BenchInv, NEW t \in Tasks, Submit(t)
    PROVE  BenchTypes' /\ PortIsHead'
<1>1. /\ dreq \in Requests /\ ongoing \in Seq(Tasks) /\ MaxQueue \in Nat
      /\ t \in Requests
    BY BenchAssumption DEF BenchInv, BenchTypes, Tasks
<1>2. TaskWord(t) \in Words
    BY <1>1, WordOfLine DEF TaskWord, Requests
<1>3. ref[TaskWord(t)] \in Values
    BY <1>2 DEF BenchInv, BenchTypes
<1>4. [t EXCEPT !.data = RefLoad(t)] \in Tasks
    BY <1>1, <1>3 DEF RefLoad, Tasks, Requests
<1>5. PICK q \in Tasks :
        /\ q = IF t.we THEN t ELSE [t EXCEPT !.data = RefLoad(t)]
        /\ ongoing' = Append(ongoing, q)
    BY <1>4 DEF Submit
<1>6. /\ q.tag = t.tag /\ q.index = t.index /\ q.offset = t.offset /\ q.we = t.we
    BY <1>1, <1>5 DEF Requests
<1>7. ongoing' \in Seq(Tasks) /\ Len(ongoing') <= MaxQueue /\ ongoing' # <<>>
    BY <1>1, <1>5 DEF Submit
<1>8. dreq' = IF dreq.valid THEN dreq ELSE Issue(t)
    BY DEF Submit
<1>9. dreq' \in Requests
    BY <1>1, <1>8, IssueType
<1>10. PortIsHead'
    <2>1. CASE dreq.valid
        <3>1. Head(ongoing') = Head(ongoing)
            BY <1>1, <1>5, <2>1 DEF BenchInv, PortIsHead
        <3> QED BY <1>7, <1>8, <2>1, <3>1 DEF BenchInv, PortIsHead
    <2>2. CASE ~dreq.valid
        <3>1. Head(ongoing') = q
            BY <1>1, <1>5, <2>2 DEF BenchInv, PortIsHead
        <3> QED BY <1>1, <1>6, <1>7, <1>8, <2>2, <3>1, IssueType DEF PortIsHead
    <2> QED BY <2>1, <2>2
<1>11. ref' \in [Words -> Values]
    <2>1. t.data \in Values
        BY <1>1 DEF Requests
    <2> QED BY <1>2, <2>1 DEF Submit, RefStore, BenchInv, BenchTypes
<1>12. tx' \in Transactions /\ mem' \in [Words -> Values] /\ enable' \in BOOLEAN
    BY DEF Submit, BenchInv, BenchTypes
<1> QED BY <1>7, <1>9, <1>10, <1>11, <1>12 DEF BenchTypes

-----------------------------------------------------------------------------
(* The device and the miss FSM.                                            *)

LEMMA DeviceTypes ==
    ASSUME BenchInv, DeviceEdge
    PROVE  /\ mem' \in [Words -> Values]
           /\ enable' \in BOOLEAN
<1>1. mem \in [Words -> Values] /\ writebuffer \in [Offsets -> Values]
      /\ miss_addr.offset \in Offsets
    BY DEF BenchInv, BenchTypes, CacheInv, CacheTypeOK
<1>2. CReqData(dreq) \in Values
    BY <1>1, BusIsMiss DEF BenchInv
<1>3. mem' \in [Words -> Values]
    BY <1>1, <1>2, TxAddress DEF DeviceEdge
<1> QED BY <1>3 DEF DeviceEdge

\* The four things the edge does to the transaction.
LEMMA DeviceCases ==
    ASSUME BenchInv, DeviceEdge
    PROVE  /\ ~enable => tx' = tx
           /\ enable /\ tx.busy /\ tx.n = tx.len => tx' = NoTx
           /\ enable /\ tx.busy /\ tx.n # tx.len => tx' = Sync(tx)
           /\ enable /\ ~tx.busy /\ miss_state # "IDLE" => tx' = NewTx
           /\ ~tx.busy /\ miss_state = "IDLE" => tx' = tx
BY BusIsMiss DEF BenchInv, DeviceEdge, LastBeat

\* A transaction that begins is for the line of the miss, at its first word.
LEMMA NewTxFacts ==
    ASSUME BenchInv, ~tx.busy, miss_state # "IDLE"
    PROVE  /\ NewTx \in Transactions
           /\ NewTx.busy
           /\ NewTx.is_write = (miss_state = "WRITEBACK")
           /\ NewTx.start = WordOf(creq_addr.tag, creq_addr.index, creq_addr.offset)
           /\ NewTx.addr = NewTx.start
           /\ NewTx.len = NumWords /\ NewTx.n = 1
<1>1. /\ creq_addr.tag \in AllTags /\ creq_addr.index \in Sets
      /\ creq_addr.offset \in Offsets
    BY DEF BenchInv, CacheInv, CacheTypeOK
<1>2. CReqWord = WordOf(creq_addr.tag, creq_addr.index, creq_addr.offset)
    BY BusIsMiss DEF BenchInv, CReqWord
<1>3. CReqWord \in Words
    BY <1>1, <1>2, WordOfLine
<1>4. 1 \in 0 .. NumWords /\ NumWords \in 0 .. NumWords
    BY DCacheAssumption
<1>5. NewTx = [busy |-> TRUE, is_write |-> (miss_state = "WRITEBACK"),
               start |-> CReqWord, addr |-> CReqWord, n |-> 1, len |-> NumWords]
    BY BusIsMiss DEF BenchInv, NewTx
<1> QED BY <1>2, <1>3, <1>4, <1>5 DEF Transactions

\* A beat that is not the last moves the device to the FSM's next word.
LEMMA SyncFacts ==
    ASSUME BenchInv, tx.busy, tx.n # tx.len
    PROVE  /\ Sync(tx) \in Transactions
           /\ Sync(tx).busy /\ Sync(tx).is_write = tx.is_write
           /\ Sync(tx).start = tx.start /\ Sync(tx).len = tx.len
           /\ Sync(tx).n = tx.n + 1 /\ Sync(tx).n \in 1 .. NumWords
           /\ Sync(tx).addr = WordOf(creq_addr.tag, creq_addr.index,
                                     NextOffset(miss_addr.offset))
           /\ NextOffset(miss_addr.offset) = Wrapped(creq_addr.offset, Sync(tx).n - 1)
<1>1. /\ creq_addr.tag \in AllTags /\ creq_addr.index \in Sets
      /\ creq_addr.offset \in Offsets /\ miss_addr.offset \in Offsets
      /\ NextOffset(miss_addr.offset) \in Offsets
    BY NextOffsetType DEF BenchInv, CacheInv, CacheTypeOK
<1>2. tx \in Transactions
    BY DEF BenchInv, BenchTypes
<1>3. NextAddr(tx) = WordOf(creq_addr.tag, creq_addr.index,
                           NextOffset(miss_addr.offset))
    BY <1>1, <1>2, SyncWraps DEF BenchInv, TxIsMiss
<1>4. NextAddr(tx) \in Words
    BY <1>1, <1>3, WordOfLine
<1>5. tx.n \in 1 .. NumWords /\ tx.len = NumWords /\ NumWords \in Nat
    BY DCacheAssumption DEF BenchInv, TxIsMiss
<1>6. Sync(tx) = [busy |-> tx.busy, is_write |-> tx.is_write, start |-> tx.start,
                  addr |-> NextAddr(tx), n |-> tx.n + 1, len |-> tx.len]
    <2>1. PICK next : next = NextAddr(tx)
        OBVIOUS
    <2>2. PICK n \in Nat : n = tx.n + 1
        BY <1>5
    <2>3. Sync(tx) = [tx EXCEPT !.addr = next, !.n = n]
        BY <2>1, <2>2 DEF Sync
    <2> QED BY <1>2, <2>1, <2>2, <2>3 DEF Transactions
<1>7. tx.n + 1 \in 1 .. NumWords /\ tx.n + 1 \in 0 .. NumWords
    BY <1>5
<1>8. Sync(tx) \in Transactions
    BY <1>2, <1>4, <1>6, <1>7 DEF Transactions
<1>9. NextOffset(miss_addr.offset) = Wrapped(creq_addr.offset, tx.n)
    <2>1. PICK k \in 0 .. NumWords - 1 : k = tx.n - 1
        BY <1>5
    <2>2. miss_addr.offset = Wrapped(creq_addr.offset, k)
        BY <2>1 DEF BenchInv, TxIsMiss
    <2>3. k + 1 = tx.n
        BY <1>5, <2>1
    <2> QED BY <1>1, <2>2, <2>3, WrappedNext
<1>10. PICK u \in Transactions : u = Sync(tx)
    BY <1>8
<1>11. /\ u.busy = tx.busy /\ u.is_write = tx.is_write
       /\ u.start = tx.start /\ u.len = tx.len
       /\ u.n = tx.n + 1 /\ u.addr = NextAddr(tx)
    BY <1>6, <1>10
<1>12. u.busy
    BY <1>11
<1>13. u.n - 1 = tx.n
    BY <1>5, <1>11
<1>14. NextOffset(miss_addr.offset) = Wrapped(creq_addr.offset, u.n - 1)
    BY <1>9, <1>13
<1>15. u.n \in 1 .. NumWords
    BY <1>7, <1>11
<1> QED BY <1>3, <1>10, <1>11, <1>12, <1>14, <1>15

\* After the last beat the FSM stands at the first word again.
LEMMA LastWraps ==
    ASSUME BenchInv, tx.busy, tx.n = tx.len
    PROVE  NextOffset(miss_addr.offset) = creq_addr.offset
<1>1. tx.n = NumWords /\ NumWords \in Nat \ {0} /\ creq_addr.offset \in Offsets
    BY DCacheAssumption DEF BenchInv, TxIsMiss, CacheInv, CacheTypeOK
<1>2. miss_addr.offset = Wrapped(creq_addr.offset, NumWords - 1)
    BY <1>1 DEF BenchInv, TxIsMiss
<1>3. PICK k \in 0 .. NumWords - 1 : k = NumWords - 1 /\ k + 1 = NumWords
    BY <1>1
<1> QED BY <1>1, <1>2, <1>3, WrappedNext

\* Every edge moves the transaction and the FSM together.
LEMMA EdgeTx ==
    ASSUME BenchInv, Edge(dreq, Resp), DeviceEdge
    PROVE  tx' \in Transactions /\ TxIsMiss' /\ MissAtStart'
<1> DEFINE r == dreq
           c == Resp
<1>1. tx \in Transactions /\ NoTx \in Transactions
    BY IdlePort DEF BenchInv, BenchTypes
<1>2. /\ c.ready <=> enable /\ tx.busy
      /\ c.last <=> enable /\ tx.busy /\ tx.n = tx.len
    BY RespFacts
<1>3. /\ creq_addr \in [tag : AllTags, index : Sets, offset : Offsets]
      /\ miss_addr \in [idx : Ways, index : Sets, offset : Offsets]
    BY DEF BenchInv, CacheInv, CacheTypeOK
<1>4. ~NoTx.busy
    BY DEF NoTx
<1>5. tx.busy => miss_state # "IDLE"
    BY DEF BenchInv, TxIsMiss
<1>6. CASE StartMiss(r, c)
    <2>1. /\ miss_addr'.offset = r.offset
          /\ creq_addr'.offset = r.offset
        BY <1>6 DEF StartMiss
    <2>2. tx' \in Transactions /\ ~tx'.busy
        <3>1. CASE miss_state = "IDLE"
            BY <1>1, <1>5, <3>1, DeviceCases
        <3>2. CASE miss_state # "IDLE"
            BY <1>1, <1>2, <1>4, <1>6, <3>2, DeviceCases DEF StartMiss, ToMiss
        <3> QED BY <3>1, <3>2
    <2> QED BY <2>1, <2>2 DEF TxIsMiss, MissAtStart
<1>7. CASE IdleEdge(r, c)
    <2>1. tx' = tx /\ ~tx.busy /\ miss_state' = "IDLE"
        BY <1>5, <1>7, DeviceCases DEF IdleEdge
    <2> QED BY <1>1, <2>1 DEF TxIsMiss, MissAtStart
<1>8. CASE LoadWait(r, c) \/ (WritebackEdge(r, c) /\ ~c.ready)
    <2>1. /\ miss_state \in {"LOAD", "WRITEBACK"} /\ ~c.ready
          /\ UNCHANGED <<miss_state, miss_addr, creq_addr>>
        <3>1. c.last => c.ready
            BY <1>2
        <3> QED BY <1>8, <3>1 DEF LoadWait, WritebackEdge
    <2>2. CASE ~enable
        BY <1>1, <2>1, <2>2, DeviceCases DEF BenchInv, TxIsMiss, MissAtStart
    <2>3. CASE enable
        <3>1. ~tx.busy /\ tx' = NewTx
            BY <1>2, <2>1, <2>3, DeviceCases
        <3>2. creq_addr.offset = miss_addr.offset
            BY <2>1, <3>1 DEF BenchInv, MissAtStart
        <3>3. Wrapped(creq_addr.offset, 1 - 1) = creq_addr.offset /\ 1 \in 1 .. NumWords
            BY <1>3, DCacheAssumption DEF Wrapped, Offsets
        <3> QED BY <2>1, <3>1, <3>2, <3>3, NewTxFacts DEF TxIsMiss, MissAtStart
    <2> QED BY <2>2, <2>3
<1>9. CASE (LoadBeat(r, c) \/ WritebackEdge(r, c)) /\ c.ready /\ ~c.last
    <2>1. /\ miss_state' = miss_state /\ miss_state # "IDLE"
          /\ miss_addr'.offset = NextOffset(miss_addr.offset)
          /\ creq_addr' = creq_addr
        BY <1>3, <1>9 DEF LoadBeat, WritebackEdge
    <2>2. tx.busy /\ tx.n # tx.len /\ tx' = Sync(tx)
        BY <1>2, <1>9, DeviceCases
    <2>3. /\ tx' \in Transactions /\ tx'.busy
          /\ tx'.is_write = tx.is_write /\ tx'.start = tx.start /\ tx'.len = tx.len
          /\ tx'.n \in 1 .. NumWords
          /\ tx'.addr = WordOf(creq_addr.tag, creq_addr.index, miss_addr'.offset)
          /\ miss_addr'.offset = Wrapped(creq_addr.offset, tx'.n - 1)
        BY <2>1, <2>2, SyncFacts
    <2>4. MissAtStart'
        BY <2>3 DEF MissAtStart
    <2>5. TxIsMiss'
        BY <2>1, <2>2, <2>3 DEF BenchInv, TxIsMiss
    <2> QED BY <2>3, <2>4, <2>5
<1>10. CASE (LoadBeat(r, c) \/ WritebackEdge(r, c)) /\ c.last
    <2>1. tx.busy /\ tx.n = tx.len /\ tx' = NoTx /\ c.ready
        BY <1>2, <1>10, DeviceCases
    <2>2. /\ miss_addr'.offset = NextOffset(miss_addr.offset)
          /\ creq_addr'.offset = creq_addr.offset
        BY <1>3, <1>10, <2>1 DEF LoadBeat, WritebackEdge
    <2>3. NextOffset(miss_addr.offset) = creq_addr.offset
        BY <2>1, LastWraps
    <2> QED BY <1>1, <1>4, <2>1, <2>2, <2>3 DEF TxIsMiss, MissAtStart
<1>11. c.last => c.ready
    BY <1>2
<1> QED BY <1>6, <1>7, <1>8, <1>9, <1>10, <1>11 DEF Edge, LoadBeat

-----------------------------------------------------------------------------
(* The invariant.                                                          *)

LEMMA TickInv == BenchInv /\ Tick => BenchInv'
<1> SUFFICES ASSUME BenchInv, Tick PROVE BenchInv'
    OBVIOUS
<1>1. dreq \in Requests /\ Resp \in Responses
    BY RespFacts DEF BenchInv, BenchTypes
<1>2. CacheInv'
    BY <1>1, EdgeInv DEF BenchInv, Tick
<1>3. tx' \in Transactions /\ TxIsMiss' /\ MissAtStart'
    BY EdgeTx DEF Tick
<1>4. BenchTypes'
    BY <1>3, TickPort, DeviceTypes DEF Tick, BenchInv, BenchTypes
<1> QED BY <1>2, <1>3, <1>4, TickPort DEF BenchInv

LEMMA SubmitInv == ASSUME BenchInv, NEW t \in Issued, Submit(t) PROVE BenchInv'
<1>1. t \in Tasks
    BY BenchAssumption DEF Tasks
<1>2. CacheInv'
    BY StutterInv DEF BenchInv, Submit
<1>3. TxIsMiss' /\ MissAtStart'
    BY DEF Submit, cacheVars, BenchInv, TxIsMiss, MissAtStart
<1> QED BY <1>1, <1>2, <1>3, SubmitPort DEF BenchInv

\* A reset leaves the tags of invalid lines behind.
LEMMA ResetInv == BenchInv /\ Reset => BenchInv'
<1> SUFFICES ASSUME BenchInv, Reset PROVE BenchInv'
    OBVIOUS
<1>1. /\ 0 \in Ways /\ 0 \in Sets /\ 0 \in Offsets /\ IOTag \in AllTags
    BY DCacheAssumption DEF Ways, Sets, Offsets, AllTags
<1>2. CacheTypeOK
    BY DEF BenchInv, CacheInv
<1>3. data[0][0][0] \in Values
    BY <1>1, <1>2 DEF CacheTypeOK
<1>4. /\ metadata' \in [Sets -> [Ways -> Meta]]
      /\ \A s \in Sets, w \in Ways : ~metadata'[s][w].valid
      /\ ~wb'.meta.valid
      /\ wb' \in [tag : AllTags, meta : Meta, wen : BOOLEAN, offset : Offsets]
    BY <1>1 DEF Reset, Meta
<1>5. miss_addr' \in [idx : Ways, index : Sets, offset : Offsets]
    BY <1>1 DEF Reset
<1>6. CacheTypeOK'
    BY <1>2, <1>3, <1>4, <1>5 DEF Reset, CacheTypeOK
<1>7. HitIsOneHot' /\ EvictedIsNowhere' /\ NoUncachedLine' /\ FillOwnsItsWay'
    BY <1>4 DEF Reset, HitIsOneHot, EvictedIsNowhere, NoUncachedLine, FillOwnsItsWay
<1>8. BenchTypes'
    BY ZeroMemoryType, IdlePort DEF Reset, BenchInv, BenchTypes
<1>9. PortIsHead' /\ TxIsMiss' /\ MissAtStart'
    BY DEF Reset, PortIsHead, TxIsMiss, MissAtStart, NoReq, NoTx
<1> QED BY <1>6, <1>7, <1>8, <1>9 DEF BenchInv, CacheInv

LEMMA BenchStutter == BenchInv /\ UNCHANGED vars => BenchInv'
BY StutterInv DEF vars, BenchInv, BenchTypes, PortIsHead, TxIsMiss, MissAtStart, cacheVars

\* Types, the cache's own invariant, and what ties the port to the queue and
\* the device to the miss FSM, hold in every state of the simulation.
THEOREM BenchCorrect == Spec => []BenchInv
<1>1. BenchInv /\ Next => BenchInv'
    BY TickInv, SubmitInv, ResetInv DEF Next
<1>2. BenchInv /\ [Next]_vars => BenchInv'
    BY <1>1, BenchStutter
<1> QED BY BenchInit, <1>2, PTL DEF Spec

\* No assertion of CBusDevice::eval_req can fire, whatever the pauses.
THEOREM HeldTransaction == Spec => []TransactionIsHeld
<1>1. BenchInv => TransactionIsHeld
    BY BusIsMiss DEF BenchInv, TxIsMiss, TransactionIsHeld, CReqWord
<1> QED BY <1>1, BenchCorrect, PTL

\* The address the device counts is the word the miss FSM counts, at every
\* beat of every burst and for every length of a line.
THEOREM AgreeingBeats == Spec => []BeatsAgree
<1>1. BenchInv => BeatsAgree
    BY BusIsMiss DEF BenchInv, TxIsMiss, BeatsAgree
<1> QED BY <1>1, BenchCorrect, PTL

\* Type correctness of the whole simulation.
THEOREM BenchTypeCorrect == Spec => []TypeOK
<1>1. BenchInv => TypeOK
    BY DEF BenchInv, CacheInv, BenchTypes, TypeOK
<1> QED BY <1>1, BenchCorrect, PTL

-----------------------------------------------------------------------------
(* The data.                                                               *)

\* The device's memory of numbered words, by the addresses of the cache.
AsAddrs(f) == [a \in Addrs |-> f[WordOf(a[1], a[2], a[3])]]

CurrentWord(a) == WordOver(AsAddrs(mem), a)

AddrOf(t) == <<t.tag, t.index, t.offset>>

StoresTo(i, a) == ongoing[i].we /\ AddrOf(ongoing[i]) = a

\* v is what address a holds once the first k tasks of the queue are done:
\* what the last store to it among them leaves, or the word there is now.
Holds(a, k, v) ==
    \/ /\ \A i \in 1 .. k : ~StoresTo(i, a)
       /\ v = CurrentWord(a)
    \/ \E j \in 1 .. k :
         /\ StoresTo(j, a) /\ ongoing[j].data = v
         /\ \A i \in 1 .. k : i > j => ~StoresTo(i, a)

CachedAddrs == Tags \X Sets \X Offsets

\* The reference model is ahead of the cache by the queue, and a load in the
\* queue expects what the tasks before it leave.
RefIsAhead ==
    \A a \in CachedAddrs : Holds(a, Len(ongoing), ref[WordOf(a[1], a[2], a[3])])

LoadsExpect ==
    \A k \in 1 .. Len(ongoing) :
        ~ongoing[k].we => Holds(AddrOf(ongoing[k]), k - 1, ongoing[k].data)

\* A hit is flagged for the task at the head of the queue; its store has then
\* been made, its load has read the word expected.
HitIsDone ==
    /\ dreq.valid /\ dreq.we => dreq.data = Head(ongoing).data
    /\ dresp_data_ok =>
         /\ dreq.valid
         /\ IF dreq.we THEN CurrentWord(AddrOf(dreq)) = dreq.data
                       ELSE hit_rdata = Head(ongoing).data

WordInv ==
    /\ BenchInv /\ DataInv(AsAddrs(mem))
    /\ RefIsAhead /\ LoadsExpect /\ HitIsDone

\* No two addresses have the same number.
LEMMA WordInjective ==
    ASSUME NEW t \in AllTags, NEW s \in Sets, NEW o \in Offsets,
           NEW b \in AllTags, NEW u \in Sets, NEW j \in Offsets,
           WordOf(t, s, o) = WordOf(b, u, j)
    PROVE  t = b /\ s = u /\ o = j
<1>1. /\ t \in Nat /\ b \in Nat
      /\ s \in 0 .. NumSets - 1 /\ u \in 0 .. NumSets - 1
      /\ o \in 0 .. NumWords - 1 /\ j \in 0 .. NumWords - 1
      /\ NumSets \in Nat \ {0} /\ NumWords \in Nat \ {0}
    BY AllTagsNat, DCacheAssumption DEF Sets, Offsets
<1>2. PICK p \in Nat : p = t * NumSets + s
    BY <1>1, SMT
<1>3. PICK q \in Nat : q = b * NumSets + u
    BY <1>1, SMT
<1>4. WordOf(t, s, o) = p * NumWords + o /\ WordOf(b, u, j) = q * NumWords + j
    BY <1>2, <1>3 DEF WordOf
<1>5. p * NumWords + o = q * NumWords + j
    BY <1>4
<1>6. (p * NumWords + o) \div NumWords = p /\ (q * NumWords + j) \div NumWords = q
    BY <1>1, DivMul
<1>7. p = q
    BY <1>5, <1>6
<1>8. p * NumWords \in Int
    BY <1>1, SMT
<1>9. o = j
    BY <1>1, <1>5, <1>7, <1>8
<1>10. t * NumSets + s = b * NumSets + u
    BY <1>2, <1>3, <1>7
<1>11. (t * NumSets + s) \div NumSets = t /\ (b * NumSets + u) \div NumSets = b
    BY <1>1, DivMul
<1>12. t = b
    BY <1>10, <1>11
<1>13. t * NumSets \in Int
    BY <1>1, SMT
<1>14. s = u
    BY <1>1, <1>10, <1>12, <1>13
<1> QED BY <1>9, <1>12, <1>14

LEMMA AsAddrsType ==
    ASSUME NEW f \in [Words -> Values]
    PROVE  /\ AsAddrs(f) \in [Addrs -> Values]
           /\ \A t \in AllTags, s \in Sets, o \in Offsets :
                AsAddrs(f)[<<t, s, o>>] = f[WordOf(t, s, o)]
BY WordOfLine DEF AsAddrs, Addrs

\* Writing the word of a number is writing that of its address.
LEMMA AsAddrsStore ==
    ASSUME NEW f \in [Words -> Values], NEW v \in Values,
           NEW t \in AllTags, NEW s \in Sets, NEW o \in Offsets,
           NEW g \in [Words -> Values],
           \A w \in Words : g[w] = IF w = WordOf(t, s, o) THEN v ELSE f[w],
           NEW a \in Addrs
    PROVE  AsAddrs(g)[a] = IF a = <<t, s, o>> THEN v ELSE AsAddrs(f)[a]
<1>1. PICK b \in AllTags, u \in Sets, j \in Offsets : a = <<b, u, j>>
    BY DEF Addrs
<1>2. WordOf(b, u, j) \in Words /\ WordOf(t, s, o) \in Words
    BY WordOfLine
<1>3. AsAddrs(g)[a] = g[WordOf(b, u, j)] /\ AsAddrs(f)[a] = f[WordOf(b, u, j)]
    BY <1>1, AsAddrsType
<1>4. WordOf(b, u, j) = WordOf(t, s, o) <=> b = t /\ u = s /\ j = o
    BY WordInjective
<1> QED BY <1>1, <1>2, <1>3, <1>4

\* The device as the cache expects it.
LEMMA BenchMoves ==
    ASSUME BenchInv, DeviceEdge
    PROVE  /\ mem' \in [Words -> Values]
           /\ BusMoves(AsAddrs(mem), AsAddrs(mem'), Resp)
<1>1. /\ mem \in [Words -> Values] /\ CacheTypeOK /\ writebuffer \in [Offsets -> Values]
    BY DEF BenchInv, BenchTypes, CacheInv, CacheTypeOK
<1>2. /\ Resp.ready <=> enable /\ tx.busy
      /\ Resp.last <=> enable /\ tx.busy /\ tx.n = tx.len
    BY RespFacts
<1>3. PICK t \in AllTags, s \in Sets, o \in Offsets :
        t = creq_addr.tag /\ s = creq_addr.index /\ o = miss_addr.offset
    BY <1>1 DEF CacheTypeOK
<1>4. PICK v \in Values : v = writebuffer[miss_addr.offset]
    BY <1>1, <1>3
<1>5. tx.busy => /\ miss_state # "IDLE" /\ tx.addr = WordOf(t, s, o)
                 /\ tx.is_write = (miss_state = "WRITEBACK")
    BY <1>3 DEF BenchInv, TxIsMiss
<1>6. mem' = IF Resp.ready /\ miss_state = "WRITEBACK"
             THEN [mem EXCEPT ![WordOf(t, s, o)] = v] ELSE mem
    BY <1>2, <1>4, <1>5, BusIsMiss DEF DeviceEdge, BenchInv
<1>7. mem' \in [Words -> Values]
    BY DeviceTypes
<1>8. miss_state = "LOAD" /\ Resp.ready => Resp.data = AsAddrs(mem)[<<t, s, o>>]
    <2>1. miss_state = "LOAD" /\ Resp.ready => Resp.data = mem[WordOf(t, s, o)]
        BY <1>2, <1>5 DEF Resp
    <2> QED BY <1>1, <2>1, AsAddrsType
<1>9. miss_state = "WRITEBACK" /\ Resp.ready =>
        AsAddrs(mem') = [AsAddrs(mem) EXCEPT ![<<t, s, o>>] = v]
    <2> SUFFICES ASSUME miss_state = "WRITEBACK", Resp.ready
                 PROVE  AsAddrs(mem') = [AsAddrs(mem) EXCEPT ![<<t, s, o>>] = v]
        OBVIOUS
    <2>1. mem' = [mem EXCEPT ![WordOf(t, s, o)] = v]
        BY <1>6
    <2>2. PICK f \in [Words -> Values], g \in [Words -> Values] : f = mem /\ g = mem'
        BY <1>1, <1>7
    <2>3. PICK m \in [Addrs -> Values] : m = AsAddrs(f)
        BY AsAddrsType
    <2>4. PICK n \in [Addrs -> Values] : n = AsAddrs(g)
        BY AsAddrsType
    <2>5. \A a \in Addrs : n[a] = IF a = <<t, s, o>> THEN v ELSE m[a]
        <3>1. \A w \in Words : g[w] = IF w = WordOf(t, s, o) THEN v ELSE f[w]
            BY <2>1, <2>2
        <3> QED BY <2>3, <2>4, <3>1, AsAddrsStore
    <2>6. n = [m EXCEPT ![<<t, s, o>>] = v]
        BY <2>5
    <2> QED BY <2>2, <2>3, <2>4, <2>6
<1>10. miss_state # "WRITEBACK" \/ ~Resp.ready => AsAddrs(mem') = AsAddrs(mem)
    BY <1>6
<1>11. ASSUME Resp.ready
       PROVE  Resp.last <=> NextOffset(miss_addr.offset) = creq_addr.offset
    <2>1. CASE tx.n = tx.len
        BY <1>2, <1>11, <2>1, LastWraps
    <2>2. CASE tx.n # tx.len
        <3>1. /\ Sync(tx).n = tx.n + 1 /\ tx.n \in 1 .. NumWords /\ tx.len = NumWords
              /\ NextOffset(miss_addr.offset) = Wrapped(creq_addr.offset, Sync(tx).n - 1)
            BY <1>2, <1>11, <2>2, SyncFacts DEF BenchInv, TxIsMiss
        <3>2. NextOffset(miss_addr.offset) = Wrapped(creq_addr.offset, tx.n)
            BY <3>1
        <3>3. creq_addr.offset \in Offsets
            BY <1>1 DEF CacheTypeOK
        <3>4. Wrapped(creq_addr.offset, tx.n) # creq_addr.offset
            BY <2>2, <3>1, <3>3, DCacheAssumption DEF Wrapped, Offsets
        <3> QED BY <1>2, <2>2, <3>2, <3>4
    <2> QED BY <2>1, <2>2
<1> QED BY <1>3, <1>4, <1>7, <1>8, <1>9, <1>10, <1>11 DEF BusMoves

\* What a cycle makes of the words: those of the cache over the device stay,
\* but for the one the request on the port stores.
LEMMA TickData ==
    ASSUME BenchInv, DataInv(AsAddrs(mem)), Tick
    PROVE  /\ DataInv(AsAddrs(mem))'
           /\ \A t \in Tags, s \in Sets, o \in Offsets :
                CurrentWord(<<t, s, o>>)' =
                   IF ToHit(dreq) /\ dreq.we /\ <<t, s, o>> = AddrOf(dreq)
                   THEN dreq.data ELSE CurrentWord(<<t, s, o>>)
<1>1. /\ CacheInv /\ mem \in [Words -> Values] /\ mem' \in [Words -> Values]
      /\ BusMoves(AsAddrs(mem), AsAddrs(mem'), Resp)
    BY BenchMoves DEF BenchInv, BenchTypes, Tick
<1>2. PICK m \in [Addrs -> Values] : m = AsAddrs(mem)
    BY <1>1, AsAddrsType
<1>3. PICK n \in [Addrs -> Values] : n = AsAddrs(mem')
    BY <1>1, AsAddrsType
<1>4. PICK r \in Requests : r = dreq
    BY DEF BenchInv, BenchTypes
<1>5. PICK c \in Responses : c = Resp
    BY RespFacts
<1>6. Edge(r, c) /\ DataInv(m) /\ BusMoves(m, n, c)
    BY <1>1, <1>2, <1>3, <1>4, <1>5 DEF Tick
<1>7. DataInv(n)' /\ Kept(r, m, n)
    BY <1>1, <1>6, EdgeData
<1>8. DataInv(AsAddrs(mem))'
    BY <1>3, <1>7 DEF DataInv, CleanOver, WrittenTo
<1>9. \A t, s, o : /\ CurrentWord(<<t, s, o>>) = WordOver(m, <<t, s, o>>)
                   /\ CurrentWord(<<t, s, o>>)' = WordOver(n, <<t, s, o>>)'
    BY <1>2, <1>3 DEF CurrentWord, WordOver, AsAddrs
<1> QED BY <1>4, <1>7, <1>8, <1>9 DEF Kept, Stores, AddrOf

LEMMA TaskAddr ==
    ASSUME NEW t \in Tasks
    PROVE  /\ AddrOf(t) \in CachedAddrs /\ t.tag \in Tags
           /\ t.index \in Sets /\ t.offset \in Offsets
BY DEF Tasks, Requests, AllTags, AddrOf, CachedAddrs

\* The request on the port is the task at the head of the queue.
LEMMA PortTask ==
    ASSUME WordInv, dreq.valid
    PROVE  /\ ongoing # <<>> /\ Head(ongoing) = ongoing[1] /\ 1 \in 1 .. Len(ongoing)
           /\ ongoing[1] \in Tasks
           /\ AddrOf(dreq) = AddrOf(ongoing[1]) /\ AddrOf(dreq) \in CachedAddrs
           /\ dreq.we = ongoing[1].we
           /\ dreq.we => dreq.data = ongoing[1].data
<1>1. ongoing \in Seq(Tasks) /\ PortIsHead /\ HitIsDone
    BY DEF WordInv, BenchInv, BenchTypes
<1>2. ongoing # <<>> /\ Len(ongoing) \in Nat
    BY <1>1 DEF PortIsHead
<1>3. Len(ongoing) # 0 /\ Head(ongoing) = ongoing[1]
    BY <1>1, <1>2
<1>4. 1 \in 1 .. Len(ongoing)
    BY <1>2, <1>3
<1>5. ongoing[1] \in Tasks
    BY <1>1, <1>4
<1> QED BY <1>1, <1>2, <1>3, <1>4, <1>5, TaskAddr DEF PortIsHead, AddrOf, HitIsDone

\* A hit reads the word the cache stands for.
LEMMA HitReads ==
    ASSUME BenchInv, DataInv(AsAddrs(mem)), Tick, ToHit(dreq)
    PROVE  hit_rdata' = CurrentWord(AddrOf(dreq))
<1>1. CacheInv /\ mem \in [Words -> Values]
    BY DEF BenchInv, BenchTypes
<1>2. PICK r \in Requests : r = dreq
    BY DEF BenchInv, BenchTypes
<1>3. ToHit(r)
    BY <1>2
<1>4. /\ r.index \in Sets /\ r.offset \in Offsets /\ r.tag \in Tags
      /\ HitWay(r) \in Ways
      /\ metadata[r.index][HitWay(r)].valid
      /\ tags[r.index][HitWay(r)] = r.tag
      /\ Present(r.tag, r.index, r.offset)
    BY <1>1, <1>3, HitFacts
<1>5. PICK m \in [Addrs -> Values] : m = AsAddrs(mem)
    BY <1>1, AsAddrsType
<1>6. WordOver(m, AddrOf(r)) = data[r.index][HitWay(r)][r.offset]
    BY <1>1, <1>4, WordCases DEF WordsAre, AddrOf, AllTags
<1>7. hit_rdata' = data[r.index][HitWay(r)][r.offset]
    BY <1>2 DEF Tick, Edge, StartMiss, IdleEdge, LoadWait, LoadBeat, WritebackEdge, NoMiss, Datapath
<1> QED BY <1>2, <1>5, <1>6, <1>7 DEF CurrentWord, WordOver

\* What a cycle makes of a cached word, said of the queue.
LEMMA TickWord ==
    ASSUME WordInv, Tick, NEW a \in CachedAddrs
    PROVE  \/ CurrentWord(a)' = CurrentWord(a)
           \/ /\ ToHit(dreq) /\ dreq.valid /\ StoresTo(1, a) /\ a = AddrOf(dreq)
              /\ CurrentWord(a)' = dreq.data
<1>1. PICK t \in Tags, s \in Sets, o \in Offsets : a = <<t, s, o>>
    BY DEF CachedAddrs
<1>2. ToHit(dreq) /\ dreq.we /\ a = AddrOf(dreq) => dreq.valid /\ StoresTo(1, a)
    BY PortTask DEF ToHit, StoresTo
<1> QED BY <1>1, <1>2, TickData DEF WordInv

\* A task that is not answered yet leaves what later ones find.
LEMMA HoldsWaiting ==
    ASSUME WordInv, Tick, ongoing' = ongoing,
           NEW a \in CachedAddrs, NEW k \in Nat, NEW v, Holds(a, k, v),
           k = 0 => ~(dreq.valid /\ StoresTo(1, a))
    PROVE  Holds(a, k, v)'
<1>1. \A i : StoresTo(i, a)' <=> StoresTo(i, a)
    BY DEF StoresTo
<1>2. CASE /\ \A i \in 1 .. k : ~StoresTo(i, a)
           /\ v = CurrentWord(a)
    <2>1. ~(dreq.valid /\ StoresTo(1, a))
        BY <1>2
    <2> QED BY <1>1, <1>2, <2>1, TickWord DEF Holds
<1>3. CASE \E j \in 1 .. k :
             /\ StoresTo(j, a) /\ ongoing[j].data = v
             /\ \A i \in 1 .. k : i > j => ~StoresTo(i, a)
    BY <1>1, <1>3 DEF Holds
<1> QED BY <1>2, <1>3 DEF Holds

\* A task that leaves the queue has been done.
LEMMA HoldsAnswered ==
    ASSUME WordInv, Tick, Answered,
           NEW a \in CachedAddrs, NEW k \in 1 .. Len(ongoing), NEW v, Holds(a, k, v)
    PROVE  Holds(a, k - 1, v)'
<1>1. /\ ongoing \in Seq(Tasks) /\ ongoing # <<>> /\ ongoing' = Tail(ongoing)
      /\ Len(ongoing) \in Nat /\ k \in Nat
    BY PortTask DEF WordInv, BenchInv, BenchTypes, Tick, Answered
<1>2. \A i \in 1 .. k - 1 : ongoing'[i] = ongoing[i + 1]
    BY <1>1
<1>3. \A i \in 1 .. k - 1 : StoresTo(i, a)' <=> StoresTo(i + 1, a)
    BY <1>2 DEF StoresTo
<1>4. CASE \A i \in 2 .. k : ~StoresTo(i, a)
    <2>1. \A i \in 1 .. k - 1 : ~(StoresTo(i, a)')
        BY <1>1, <1>3, <1>4
    <2>2. StoresTo(1, a) => v = ongoing[1].data /\ CurrentWord(a) = v
        <3> SUFFICES ASSUME StoresTo(1, a)
                     PROVE  v = ongoing[1].data /\ CurrentWord(a) = v
            OBVIOUS
        <3>1. v = ongoing[1].data
            BY <1>1, <1>4 DEF Holds
        <3>2. CurrentWord(AddrOf(dreq)) = dreq.data /\ dreq.we
            <4>1. ~Skip(dreq)
                BY PortCached DEF WordInv, BenchInv
            <4>2. dreq.valid /\ dresp_data_ok
                BY <4>1 DEF Answered, DataOk
            <4>3. dreq.we
                BY <4>2, PortTask DEF StoresTo
            <4> QED BY <4>2, <4>3 DEF WordInv, HitIsDone
        <3> QED BY <3>1, <3>2, PortTask DEF StoresTo, Answered
    <2>3. ~StoresTo(1, a) => CurrentWord(a) = v
        BY <1>1, <1>4 DEF Holds
    <2>4. CurrentWord(a)' = v
        BY <2>2, <2>3, TickWord, PortTask DEF StoresTo
    <2> QED BY <2>1, <2>4 DEF Holds
<1>5. CASE \E i \in 2 .. k : StoresTo(i, a)
    <2>1. PICK j \in 1 .. k : /\ StoresTo(j, a) /\ ongoing[j].data = v
                              /\ \A i \in 1 .. k : i > j => ~StoresTo(i, a)
        BY <1>1, <1>5 DEF Holds
    <2>2. j # 1
        BY <1>1, <1>5, <2>1
    <2>3. j - 1 \in 1 .. k - 1
        BY <1>1, <2>2
    <2>4. StoresTo(j - 1, a)' /\ ongoing'[j - 1].data = v
        BY <1>1, <1>2, <1>3, <2>1, <2>3
    <2>5. \A i \in 1 .. k - 1 : i > j - 1 => ~(StoresTo(i, a)')
        BY <1>1, <1>3, <2>1
    <2> QED BY <2>3, <2>4, <2>5 DEF Holds
<1> QED BY <1>4, <1>5

\* The primed address of a request is that of the next state.
LEMMA WordAt ==
    ASSUME NEW a \in CachedAddrs, a = AddrOf(dreq)'
    PROVE  CurrentWord(AddrOf(dreq))' = CurrentWord(a)'
<1>1. PICK t, s, o : a = <<t, s, o>> /\ t = dreq'.tag /\ s = dreq'.index /\ o = dreq'.offset
    BY DEF AddrOf
<1> QED BY <1>1 DEF AddrOf, CurrentWord, WordOver, IsHit, HitWay, HitWays, IsLoaded, InMiss,
                    Evicting, EvictedWord, AsAddrs

LEMMA TickWordInv ==
    ASSUME WordInv, Tick
    PROVE  RefIsAhead' /\ LoadsExpect' /\ HitIsDone'
<1>1. /\ ongoing \in Seq(Tasks) /\ Len(ongoing) \in Nat
      /\ ongoing' = IF Answered THEN Tail(ongoing) ELSE ongoing
      /\ ref' = ref /\ PortIsHead /\ dreq \in Requests
    BY DEF WordInv, BenchInv, BenchTypes, Tick
<1>2. Answered => /\ ongoing # <<>> /\ Len(ongoing) \in 1 .. Len(ongoing)
                  /\ Len(ongoing') = Len(ongoing) - 1
                  /\ \A i \in 1 .. Len(ongoing') : ongoing'[i] = ongoing[i + 1]
    BY <1>1 DEF Answered, PortIsHead
<1>3. RefIsAhead'
    <2> SUFFICES ASSUME NEW a \in CachedAddrs
                 PROVE  Holds(a, Len(ongoing), ref[WordOf(a[1], a[2], a[3])])'
        BY DEF RefIsAhead
    <2>1. PICK v : v = ref[WordOf(a[1], a[2], a[3])]
        OBVIOUS
    <2>2. PICK n \in Nat : n = Len(ongoing')
        BY <1>1, <1>2
    <2>3. Holds(a, Len(ongoing), v)
        BY <2>1 DEF WordInv, RefIsAhead
    <2>4. Holds(a, n, v)'
        <3>1. CASE Answered
            BY <1>2, <2>2, <2>3, <3>1, HoldsAnswered
        <3>2. CASE ~Answered
            <4>1. Holds(a, n, v) /\ ongoing' = ongoing
                BY <1>1, <2>2, <2>3, <3>2
            <4>2. n = 0 => ~dreq.valid
                BY <1>1, <2>2, <4>1 DEF PortIsHead
            <4> QED BY <4>1, <4>2, HoldsWaiting
        <3> QED BY <3>1, <3>2
    <2> QED BY <1>1, <2>1, <2>2, <2>4 DEF Holds, StoresTo
<1>4. LoadsExpect'
    <2> SUFFICES ASSUME NEW k \in 1 .. Len(ongoing'), ~ongoing'[k].we
                 PROVE  Holds(AddrOf(ongoing[k]), k - 1, ongoing[k].data)'
        BY DEF LoadsExpect
    <2>1. PICK v, j : v = ongoing'[k].data /\ j = IF Answered THEN k + 1 ELSE k
        OBVIOUS
    <2>2. /\ j \in 1 .. Len(ongoing) /\ ongoing'[k] = ongoing[j]
          /\ ongoing[j] \in Tasks /\ k - 1 \in Nat
        BY <1>1, <1>2, <2>1
    <2>3. PICK a \in CachedAddrs : a = AddrOf(ongoing[j])
        BY <2>2, TaskAddr
    <2>4. Holds(a, j - 1, v)
        BY <2>1, <2>2, <2>3 DEF WordInv, LoadsExpect
    <2>5. Holds(a, k - 1, v)'
        <3>1. CASE Answered
            <4>1. Holds(a, k, v) /\ k \in 1 .. Len(ongoing)
                BY <1>1, <1>2, <2>1, <2>4, <3>1
            <4> QED BY <3>1, <4>1, HoldsAnswered
        <3>2. CASE ~Answered
            <4>1. Holds(a, k - 1, v) /\ ongoing' = ongoing
                BY <1>1, <2>1, <2>4, <3>2
            <4>2. k - 1 = 0 => ~StoresTo(1, a)
                BY <4>1 DEF StoresTo
            <4> QED BY <2>2, <4>1, <4>2, HoldsWaiting
        <3> QED BY <3>1, <3>2
    <2>6. AddrOf(ongoing[k])' = a
        BY <2>2, <2>3 DEF AddrOf
    <2> QED BY <2>1, <2>5, <2>6 DEF Holds, StoresTo
<1>5. HitIsDone'
    <2>1. /\ ongoing' = <<>> => dreq' = Clear(dreq) /\ ~dreq'.valid
          /\ ongoing' # <<>> => Head(ongoing') \in Tasks /\ dreq' = Issue(Head(ongoing'))
        <3>1. ongoing' \in Seq(Tasks)
            BY TickPort DEF WordInv
        <3> QED BY <1>1, <3>1 DEF Tick, Clear, Requests
    <2>2. dreq'.valid /\ dreq'.we => dreq'.data = Head(ongoing').data
        <3> SUFFICES ASSUME dreq'.valid, dreq'.we PROVE dreq'.data = Head(ongoing').data
            OBVIOUS
        <3>1. PICK t \in Tasks : t = Head(ongoing') /\ dreq' = Issue(t)
            BY <2>1
        <3>2. t.we
            BY <1>1, <3>1, IssueType
        <3> QED BY <3>1, <3>2 DEF Issue, AsyncStore
    <2>3. ASSUME dresp_data_ok'
          PROVE  /\ dreq'.valid
                 /\ IF dreq'.we THEN CurrentWord(AddrOf(dreq))' = dreq'.data
                    ELSE hit_rdata' = Head(ongoing').data
        <3>1. ~dresp_data_ok /\ ToHit(dreq)
            BY <2>3 DEF Tick, Edge, StartMiss, IdleEdge, LoadWait, LoadBeat, WritebackEdge,
                        NoMiss, Datapath
        <3>2. dreq.valid /\ ~Answered /\ ongoing' = ongoing
            <4>1. ~Skip(dreq)
                BY PortCached DEF WordInv, BenchInv
            <4> QED BY <1>1, <3>1, <4>1 DEF ToHit, Answered, DataOk
        <3>3. PICK t \in Tasks : t = ongoing[1]
            BY <3>2, PortTask
        <3>4. /\ ongoing' # <<>> /\ Head(ongoing') = t /\ dreq' = Issue(t)
              /\ AddrOf(dreq) = AddrOf(t) /\ AddrOf(t) \in CachedAddrs
              /\ dreq.we = t.we /\ (dreq.we => dreq.data = t.data)
            BY <2>1, <3>2, <3>3, PortTask
        <3>5. dreq'.valid /\ dreq'.we = t.we /\ AddrOf(dreq)' = AddrOf(t)
            BY <1>1, <3>4, IssueType DEF AddrOf
        <3>6. PICK a \in CachedAddrs : a = AddrOf(t)
            BY <3>4
        <3>7. CASE t.we
            <4>1. dreq'.data = dreq.data
                BY <2>2, <3>4, <3>5, <3>7
            <4>2. PICK p \in Tags, s \in Sets, o \in Offsets : a = <<p, s, o>>
                BY DEF CachedAddrs
            <4>3. CurrentWord(a)' = dreq.data
                BY <3>1, <3>4, <3>6, <3>7, <4>2, TickData DEF WordInv
            <4>4. CurrentWord(AddrOf(dreq))' = CurrentWord(a)'
                BY <3>5, <3>6, WordAt
            <4> QED BY <3>5, <3>7, <4>1, <4>3, <4>4
        <3>8. CASE ~t.we
            <4>1. hit_rdata' = CurrentWord(a)
                BY <3>1, <3>4, <3>6, HitReads DEF WordInv
            <4>2. 1 \in 1 .. Len(ongoing) /\ ~ongoing[1].we
                BY <3>2, <3>3, <3>8, PortTask
            <4>3. Holds(AddrOf(ongoing[1]), 1 - 1, ongoing[1].data)
                BY <4>2 DEF WordInv, LoadsExpect
            <4>4. t.data = CurrentWord(a)
                BY <3>3, <3>6, <4>3 DEF Holds
            <4> QED BY <3>4, <3>5, <3>8, <4>1, <4>4
        <3> QED BY <3>7, <3>8
    <2> QED BY <2>2, <2>3 DEF HitIsDone
<1> QED BY <1>3, <1>4, <1>5

\* Registers and memory that stay make the words stay.
LEMMA WordsStay ==
    ASSUME UNCHANGED <<cacheVars, mem>>
    PROVE  /\ DataInv(AsAddrs(mem)) => DataInv(AsAddrs(mem))'
           /\ \A a : CurrentWord(a)' = CurrentWord(a)
<1>1. /\ metadata' = metadata /\ tags' = tags /\ data' = data
      /\ miss_state' = miss_state /\ miss_addr' = miss_addr /\ creq_addr' = creq_addr
      /\ miss_data_loaded' = miss_data_loaded /\ writebuffer' = writebuffer /\ wb' = wb
      /\ miss_rdata' = miss_rdata /\ mem' = mem
    BY DEF cacheVars
<1>2. /\ CleanOver(AsAddrs(mem)) => CleanOver(AsAddrs(mem))'
      /\ Filled => Filled'
      /\ OneSet => OneSet'
    BY <1>1 DEF CleanOver, Filled, OneSet, Present, Behind, AsAddrs
<1>3. WrittenTo(AsAddrs(mem)) => WrittenTo(AsAddrs(mem))'
    BY <1>1 DEF WrittenTo, Behind, EvictedWord, AsAddrs
<1>4. ASSUME NEW a PROVE CurrentWord(a)' = CurrentWord(a)
    BY <1>1 DEF CurrentWord, WordOver, IsHit, HitWay, HitWays, IsLoaded, InMiss,
                Evicting, EvictedWord, AsAddrs
<1>5. QED
    BY <1>2, <1>3, <1>4 DEF DataInv

\* A task that is added finds what those before it leave.
LEMMA SubmitWordInv ==
    ASSUME WordInv, NEW t \in Issued, Submit(t)
    PROVE  RefIsAhead' /\ LoadsExpect' /\ HitIsDone'
<1>1. /\ ongoing \in Seq(Tasks) /\ Len(ongoing) \in Nat /\ PortIsHead
      /\ t \in Tasks /\ dreq \in Requests
      /\ \A a : CurrentWord(a)' = CurrentWord(a)
    BY BenchAssumption, WordsStay DEF WordInv, BenchInv, BenchTypes, Submit, Tasks
<1>2. PICK q : q = IF t.we THEN t ELSE [t EXCEPT !.data = RefLoad(t)]
    OBVIOUS
<1>3. /\ q \in Tasks /\ q.we = t.we /\ AddrOf(q) = AddrOf(t)
      /\ q.data = IF t.we THEN t.data ELSE RefLoad(t)
    <2>1. TaskWord(t) \in Words
        BY <1>1, TaskAddr, WordOfLine DEF TaskWord, AllTags
    <2>2. RefLoad(t) \in Values
        BY <2>1 DEF RefLoad, WordInv, BenchInv, BenchTypes
    <2> QED BY <1>1, <1>2, <2>2 DEF Tasks, Requests, AddrOf
<1>4. PICK n \in Nat : n = Len(ongoing)
    BY <1>1
<1>5. /\ ongoing' = Append(ongoing, q) /\ Len(ongoing') = n + 1
      /\ ongoing'[n + 1] = q
      /\ \A i \in 1 .. n : ongoing'[i] = ongoing[i]
    BY <1>1, <1>2, <1>3, <1>4 DEF Submit
<1>6. \A i \in 1 .. n : \A a : StoresTo(i, a)' <=> StoresTo(i, a)
    BY <1>5 DEF StoresTo
<1>7. \A a : StoresTo(n + 1, a)' <=> t.we /\ a = AddrOf(t)
    BY <1>3, <1>5 DEF StoresTo
\* The tasks before it leave what they left.
<1>8. ASSUME NEW a, NEW k \in 0 .. n, NEW v, Holds(a, k, v)
      PROVE  Holds(a, k, v)'
    BY <1>1, <1>5, <1>4, <1>6, <1>8 DEF Holds
<1>9. RefIsAhead'
    <2> SUFFICES ASSUME NEW a \in CachedAddrs
                 PROVE  Holds(a, Len(ongoing), ref[WordOf(a[1], a[2], a[3])])'
        BY DEF RefIsAhead
    <2>1. PICK v, u : v = ref[WordOf(a[1], a[2], a[3])] /\ u = ref'[WordOf(a[1], a[2], a[3])]
        OBVIOUS
    <2>2. Holds(a, n, v)
        BY <1>4, <2>1 DEF WordInv, RefIsAhead
    <2>3. Holds(a, n + 1, u)'
        <3>1. CASE t.we /\ a = AddrOf(t)
            <4>1. a[1] = t.tag /\ a[2] = t.index /\ a[3] = t.offset
                BY <3>1 DEF AddrOf
            <4>2. WordOf(a[1], a[2], a[3]) = TaskWord(t) /\ TaskWord(t) \in Words
                BY <1>1, <4>1, TaskAddr, WordOfLine DEF TaskWord, AllTags
            <4>3. u = t.data
                BY <2>1, <3>1, <4>2 DEF Submit, RefStore, WordInv, BenchInv, BenchTypes
            <4>4. n + 1 \in 1 .. n + 1 /\ StoresTo(n + 1, a)' /\ ongoing'[n + 1].data = u
                BY <1>3, <1>5, <1>4, <1>7, <3>1, <4>3
            <4>5. \A i \in 1 .. n + 1 : ~(i > n + 1)
                BY <1>4
            <4> QED BY <4>4, <4>5 DEF Holds
        <3>2. CASE ~(t.we /\ a = AddrOf(t))
            <4>1. u = v
                <5>1. CASE ~t.we
                    BY <2>1, <5>1 DEF Submit
                <5>2. CASE t.we /\ a # AddrOf(t)
                    <6>1. PICK p \in Tags, s \in Sets, o \in Offsets : a = <<p, s, o>>
                        BY DEF CachedAddrs
                    <6>2. PICK b \in Tags, x \in Sets, j \in Offsets :
                            b = t.tag /\ x = t.index /\ j = t.offset
                        BY <1>1, TaskAddr
                    <6>3. ~(p = b /\ s = x /\ o = j) /\ p \in AllTags /\ b \in AllTags
                        BY <5>2, <6>1, <6>2 DEF AddrOf, AllTags
                    <6>4. WordOf(p, s, o) # WordOf(b, x, j)
                        BY <6>3, WordInjective
                    <6>5. WordOf(p, s, o) \in Words /\ TaskWord(t) = WordOf(b, x, j)
                        BY <6>2, <6>3, WordOfLine DEF TaskWord
                    <6>6. ref' = [ref EXCEPT ![TaskWord(t)] = t.data] /\ ref \in [Words -> Values]
                        BY <5>2 DEF Submit, RefStore, WordInv, BenchInv, BenchTypes
                    <6>7. ref'[WordOf(p, s, o)] = ref[WordOf(p, s, o)]
                        BY <6>4, <6>5, <6>6
                    <6> QED BY <2>1, <6>1, <6>7
                <5> QED BY <3>2, <5>1, <5>2
            <4>2. Holds(a, n, v)'
                BY <1>4, <1>8, <2>2
            <4>3. ~(StoresTo(n + 1, a)')
                BY <1>7, <3>2
            <4>4. \A i \in 1 .. n + 1 : i \in 1 .. n \/ i = n + 1
                BY <1>4
            <4>5. \A j \in 1 .. n : j \in 1 .. n + 1
                BY <1>4
            <4> QED BY <4>1, <4>2, <4>3, <4>4, <4>5 DEF Holds
        <3> QED BY <3>1, <3>2
    <2> QED BY <1>5, <2>1, <2>3 DEF Holds, StoresTo
<1>10. LoadsExpect'
    <2> SUFFICES ASSUME NEW k \in 1 .. Len(ongoing'), ~ongoing'[k].we
                 PROVE  Holds(AddrOf(ongoing[k]), k - 1, ongoing[k].data)'
        BY DEF LoadsExpect
    <2>1. PICK v, a : v = ongoing'[k].data /\ a = AddrOf(ongoing[k])'
        OBVIOUS
    <2>2. k - 1 \in 0 .. n /\ (k \in 1 .. n \/ k = n + 1)
        BY <1>5, <1>4
    <2>3. Holds(a, k - 1, v)
        <3>1. CASE k \in 1 .. n
            <4>1. ongoing'[k] = ongoing[k] /\ a = AddrOf(ongoing[k])
                BY <1>5, <2>1, <3>1 DEF AddrOf
            <4> QED BY <1>4, <2>1, <3>1, <4>1 DEF WordInv, LoadsExpect
        <3>2. CASE k = n + 1
            <4>1. a = AddrOf(t) /\ ~t.we /\ v = ref[TaskWord(t)]
                BY <1>3, <1>5, <2>1, <3>2 DEF AddrOf, RefLoad
            <4>2. a \in CachedAddrs /\ a[1] = t.tag /\ a[2] = t.index /\ a[3] = t.offset
                BY <1>1, <4>1, TaskAddr DEF AddrOf
            <4>3. Holds(a, n, v)
                BY <1>4, <4>1, <4>2 DEF WordInv, RefIsAhead, TaskWord
            <4>4. k - 1 = n
                BY <1>4, <3>2
            <4> QED BY <4>3, <4>4
        <3> QED BY <2>2, <3>1, <3>2
    <2>4. Holds(a, k - 1, v)'
        BY <1>8, <2>2, <2>3
    <2> QED BY <2>1, <2>4 DEF Holds, StoresTo
<1>11. HitIsDone'
    <2>1. dresp_data_ok' = dresp_data_ok /\ hit_rdata' = hit_rdata
        BY DEF Submit, cacheVars
    <2>2. CASE dreq.valid
        <3>1. dreq' = dreq /\ Head(ongoing') = Head(ongoing)
            <4>1. ongoing # <<>>
                BY <1>1, <2>2 DEF PortIsHead
            <4> QED BY <1>1, <1>3, <1>5, <2>2, <4>1 DEF Submit
        <3>2. AddrOf(dreq) \in CachedAddrs
            BY <2>2, PortTask
        <3>3. PICK a \in CachedAddrs : a = AddrOf(dreq) /\ a = AddrOf(dreq)'
            BY <3>1, <3>2 DEF AddrOf
        <3>4. CurrentWord(AddrOf(dreq))' = CurrentWord(AddrOf(dreq))
            BY <1>1, <3>3, WordAt
        <3> QED BY <2>1, <3>1, <3>4 DEF WordInv, HitIsDone
    <2>3. CASE ~dreq.valid
        <3>1. ongoing = <<>> /\ dreq' = Issue(t) /\ ~dresp_data_ok
            BY <1>1, <2>3 DEF PortIsHead, Submit, WordInv, HitIsDone
        <3>2. Head(ongoing') = q
            BY <1>1, <1>3, <1>5, <3>1
        <3>3. t.we => dreq'.data = q.data
            BY <1>2, <3>1 DEF Issue, AsyncStore
        <3>4. dreq'.we = t.we
            BY <1>1, <3>1, IssueType
        <3> QED BY <2>1, <3>1, <3>2, <3>3, <3>4 DEF HitIsDone
    <2> QED BY <2>2, <2>3
<1> QED BY <1>9, <1>10, <1>11

\* An empty cache over a zero memory is the zero memory.
LEMMA EmptyWords ==
    ASSUME \A s \in Sets, w \in Ways : ~metadata[s][w].valid,
           miss_state = "IDLE", mem = ZeroMemory, NEW a \in CachedAddrs
    PROVE  CurrentWord(a) = InitValue
<1>1. PICK t \in Tags, s \in Sets, o \in Offsets : a = <<t, s, o>>
    BY DEF CachedAddrs
<1>2. t \in AllTags /\ WordOf(t, s, o) \in Words /\ a \in Addrs
    BY <1>1, WordOfLine DEF AllTags, Addrs
<1>3. CurrentWord(a) = AsAddrs(mem)[a]
    BY <1>1 DEF CurrentWord, WordOver, IsHit, HitWays, Evicting
<1> QED BY <1>1, <1>2, <1>3 DEF AsAddrs, ZeroMemory

\* An empty queue over zero memories.
FreshStart ==
    /\ \A s \in Sets, w \in Ways : ~metadata[s][w].valid
    /\ miss_state = "IDLE" /\ mem = ZeroMemory /\ ref = ZeroMemory
    /\ ongoing = <<>> /\ dreq = NoReq /\ ~dresp_data_ok

LEMMA FreshWordInv == BenchInv /\ FreshStart => WordInv
<1> SUFFICES ASSUME BenchInv, FreshStart PROVE WordInv
    OBVIOUS
<1>1. DataInv(AsAddrs(mem))
    BY DEF FreshStart, DataInv, CleanOver, Filled, WrittenTo, OneSet
<1>2. Len(ongoing) = 0
    BY DEF FreshStart
<1>3. ASSUME NEW a \in CachedAddrs
      PROVE  Holds(a, Len(ongoing), ref[WordOf(a[1], a[2], a[3])])
    <2>1. PICK t \in Tags, s \in Sets, o \in Offsets : a = <<t, s, o>>
        BY DEF CachedAddrs
    <2>2. WordOf(a[1], a[2], a[3]) \in Words
        BY <2>1, WordOfLine DEF AllTags
    <2>3. ref[WordOf(a[1], a[2], a[3])] = InitValue
        BY <2>2 DEF FreshStart, ZeroMemory
    <2>4. CurrentWord(a) = InitValue
        BY EmptyWords DEF FreshStart
    <2> QED BY <1>2, <2>3, <2>4 DEF Holds
<1>4. LoadsExpect /\ HitIsDone
    BY <1>2 DEF FreshStart, LoadsExpect, HitIsDone, NoReq
<1> QED BY <1>1, <1>3, <1>4 DEF WordInv, RefIsAhead

LEMMA BenchWordInit == Init => WordInv
<1> SUFFICES ASSUME Init PROVE WordInv
    OBVIOUS
<1>1. FreshStart
    BY DEF Init, CacheInit, FreshStart
<1> QED BY <1>1, BenchInit, FreshWordInv

LEMMA BenchWordNext == WordInv /\ [Next]_vars => WordInv'
<1> SUFFICES ASSUME WordInv, [Next]_vars PROVE WordInv'
    OBVIOUS
<1>1. BenchInv'
    BY TickInv, SubmitInv, ResetInv, BenchStutter DEF WordInv, Next
<1>2. CASE Tick
    BY <1>1, <1>2, TickData, TickWordInv DEF WordInv
<1>3. CASE Reset
    <2>1. FreshStart'
        BY <1>3 DEF Reset, FreshStart
    <2> QED BY <1>1, <2>1, FreshWordInv, PTL
<1>4. ASSUME NEW t \in Issued, Submit(t) PROVE WordInv'
    <2>1. DataInv(AsAddrs(mem))'
        BY <1>4, WordsStay DEF Submit, WordInv
    <2> QED BY <1>1, <1>4, <2>1, SubmitWordInv DEF WordInv
<1>5. CASE UNCHANGED vars
    <2>1. /\ DataInv(AsAddrs(mem))' /\ \A a : CurrentWord(a)' = CurrentWord(a)
          /\ UNCHANGED <<ongoing, dreq, ref, dresp_data_ok, hit_rdata>>
        BY <1>5, WordsStay DEF vars, cacheVars, WordInv
    <2>2. RefIsAhead' /\ LoadsExpect'
        BY <2>1 DEF WordInv, RefIsAhead, LoadsExpect, Holds, StoresTo, AddrOf
    <2>3. HitIsDone'
        <3>1. CASE dreq.valid
            <4>1. PICK a \in CachedAddrs : a = AddrOf(dreq) /\ a = AddrOf(dreq)'
                BY <2>1, <3>1, PortTask DEF AddrOf
            <4>2. CurrentWord(AddrOf(dreq))' = CurrentWord(AddrOf(dreq))
                BY <2>1, <4>1, WordAt
            <4> QED BY <2>1, <4>2 DEF WordInv, HitIsDone
        <3>2. CASE ~dreq.valid
            BY <2>1, <3>2 DEF WordInv, HitIsDone
        <3> QED BY <3>1, <3>2
    <2> QED BY <1>1, <2>1, <2>2, <2>3 DEF WordInv
<1> QED BY <1>2, <1>3, <1>4, <1>5 DEF Next

\* The queue, the reference model and the words of the cache over the device
\* agree in every state of the simulation.
THEOREM BenchWords == Spec => []WordInv
BY BenchWordInit, BenchWordNext, PTL DEF Spec

\* The bench never reports a read that differs from its reference model: with
\* the cache as it is, every answer belongs to the head of the queue and has
\* the value the model computed when the load was submitted, however long the
\* queue, wherever it was reset and whenever the device pauses.
THEOREM BenchReadsMatch == Spec => []ReadsMatchReference
<1>1. WordInv => ReadsMatchReference
    <2> SUFFICES ASSUME WordInv, Answered PROVE ReadsMatchReference
        BY DEF ReadsMatchReference
    <2>1. ~Skip(dreq)
        BY PortCached DEF WordInv, BenchInv
    <2>2. dreq.valid /\ dresp_data_ok
        BY <2>1 DEF Answered, DataOk
    <2>3. ongoing # <<>> /\ dreq.we = Head(ongoing).we
        BY <2>2, PortTask
    <2> QED BY <2>2, <2>3 DEF WordInv, HitIsDone, ReadsMatchReference
<1> QED BY <1>1, BenchWords, PTL
=============================================================================
