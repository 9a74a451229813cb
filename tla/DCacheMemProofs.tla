-------------------------- MODULE DCacheMemProofs ---------------------------
(***************************************************************************)
(* Proofs about the data side of the hierarchy, for every geometry of the  *)
(* cache, every instruction stream (Issued) and every timing of the        *)
(* memory: the handshakes between the memory stage, the cache and the bus, *)
(* then the data: every step is a step of an atomic memory.                *)
(***************************************************************************)
EXTENDS DCacheMem, DCacheProofs

\* What is written back is the evicted line.
WritesBack ==
    miss_state = "WRITEBACK" => creq_addr.tag = wb.tag /\ wb.meta.valid

\* The memory stage and the cache agree on when a hit is answered, and an
\* uncached transaction is on the bus only for a stage that waits for it.
Handshake ==
    /\ dresp_data_ok <=> mstate = "MEMORY01"
    /\ mstate = "MEMORY10" => dataE_o.valid
    /\ mstate = "MEMORY01" => /\ ~dataE_o.valid
                              /\ IsHit(dataM1) /\ IsLoaded(dataM1) /\ ~Uncached(dataM1)
    /\ bus.busy /\ miss_state = "IDLE" =>
         /\ mstate = "MEMORY10" /\ Uncached(dataE_o)
         /\ bus.left = 0

\* The beats the memory has left bring the miss FSM back to the word it
\* started the line at, so that the write-back starts at the same word.
Countdown ==
    /\ miss_state # "IDLE" /\ bus.busy =>
         miss_addr.offset + bus.left + 1 \in {creq_addr.offset, creq_addr.offset + NumWords}
    /\ miss_state # "IDLE" /\ ~bus.busy => miss_addr.offset = creq_addr.offset

MemInv == /\ TypeOK /\ CacheInv
          /\ WritesBack
          /\ Handshake
          /\ Countdown
          /\ BusAgrees

-----------------------------------------------------------------------------
(* Types.                                                                  *)

LEMMA NoReqType == NoReq \in Requests
BY DCacheAssumption DEF NoReq, Requests, AllTags, Sets, Offsets

LEMMA DreqType ==
    ASSUME TypeOK
    PROVE  /\ dreq \in Requests /\ dataE_o \in Requests /\ dataM1 \in Requests
BY NoReqType, IssuedAssumption DEF TypeOK, dreq

LEMMA BusBusyType ==
    ASSUME TypeOK, bus.busy
    PROVE  bus \in Transactions
<1>1. bus # BusFree
    BY DEF BusFree
<1> QED BY <1>1 DEF TypeOK

LEMMA ResponseType ==
    ASSUME TypeOK
    PROVE  /\ NoResp \in Responses
           /\ bus.busy => Beat \in Responses /\ Beat.ready /\ (Beat.last <=> bus.left = 0)
<1>1. NoResp \in Responses
    BY DCacheAssumption DEF NoResp, Responses
<1>2. ASSUME bus.busy PROVE BusAddr \in Addrs
    <2>1. bus \in [busy : {TRUE}, is_write : BOOLEAN, tag : AllTags,
                   index : Sets, offset : Offsets, left : 0 .. NumWords - 1]
        BY <1>2, BusBusyType DEF Transactions
    <2>2. bus.tag \in AllTags /\ bus.index \in Sets /\ bus.offset \in Offsets
        BY <2>1
    <2> QED BY <2>2 DEF BusAddr, Addrs
<1>3. ASSUME bus.busy PROVE mem[BusAddr] \in Values
    BY <1>2, <1>3 DEF TypeOK
<1> QED BY <1>1, <1>3 DEF Beat, Responses

\* The response of a clock edge, and what the bus does at it.
BusStep(c) ==
    \/ /\ c = NoResp /\ UNCHANGED bus
    \/ /\ c = NoResp /\ ~bus.busy /\ creq.valid
       /\ bus' = [busy |-> TRUE, is_write |-> creq.is_write, tag |-> creq.tag,
                  index |-> creq.index, offset |-> creq.offset, left |-> creq.len - 1]
    \/ /\ c = Beat /\ bus.busy
       /\ bus' = IF bus.left = 0 THEN BusFree
                 ELSE [bus EXCEPT !.left = @ - 1, !.offset = NextOffset(@)]

LEMMA NextIsEdge ==
    ASSUME TypeOK, Next
    PROVE  \E c \in Responses : BusStep(c) /\ Edge(dreq, c) /\ StageEdge(c)
BY ResponseType DEF Next, Quiet, Grant, Transfer, BusStep

LEMMA CReqType ==
    ASSUME TypeOK
    PROVE  /\ creq.valid \in BOOLEAN /\ creq.is_write \in BOOLEAN
           /\ creq.tag \in AllTags /\ creq.index \in Sets /\ creq.offset \in Offsets
           /\ creq.len - 1 \in 0 .. NumWords - 1
<1>1. /\ dreq.we \in BOOLEAN /\ dreq.tag \in AllTags
      /\ dreq.index \in Sets /\ dreq.offset \in Offsets
    BY DreqType DEF Requests
<1>2. /\ creq_addr.tag \in AllTags /\ creq_addr.index \in Sets
      /\ creq_addr.offset \in Offsets
    BY DEF TypeOK, CacheTypeOK
<1>3. CASE Skip(dreq)
    BY <1>1, <1>3, DCacheAssumption DEF creq, CReq
<1>4. CASE ~Skip(dreq)
    BY <1>2, <1>4, DCacheAssumption DEF creq, CReq
<1> QED BY <1>3, <1>4

LEMMA StageType ==
    ASSUME TypeOK, NEW c \in Responses, StageEdge(c)
    PROVE  /\ mstate' \in {"IDLE", "MEMORY01", "MEMORY10"}
           /\ dataE_o' \in Issued \union {NoReq} /\ dataM1' \in Issued \union {NoReq}
           /\ memr_data' \in Values
<1>1. dreq \in Requests
    BY DreqType
<1>2. dataE_o' \in Issued \union {NoReq} /\ dataM1' \in Issued \union {NoReq}
    BY DEF TypeOK, StageEdge, Accept, AcceptUncached, Stall, Pass, MoveToM1, Advance
<1>3. RespData(dreq, c) \in Values
    BY DEF TypeOK, CacheTypeOK, RespData, Responses
<1>4. memr_data' \in Values /\ mstate' \in {"IDLE", "MEMORY01", "MEMORY10"}
    BY <1>3, DCacheAssumption
    DEF TypeOK, StageEdge, Accept, AcceptUncached, Stall, Pass
<1> QED BY <1>2, <1>4

LEMMA BusType ==
    ASSUME TypeOK, NEW c \in Responses, BusStep(c)
    PROVE  bus' \in {BusFree} \union Transactions
<1> USE DEF Transactions
<1>1. CASE UNCHANGED bus
    BY <1>1 DEF TypeOK
<1>2. CASE bus' = [busy |-> TRUE, is_write |-> creq.is_write, tag |-> creq.tag,
                   index |-> creq.index, offset |-> creq.offset, left |-> creq.len - 1]
    BY <1>2, CReqType
<1>3. CASE bus' = BusFree
    BY <1>3
<1>4. CASE /\ bus.busy /\ bus.left # 0
           /\ bus' = [bus EXCEPT !.left = @ - 1, !.offset = NextOffset(@)]
    <2>1. bus \in [busy : {TRUE}, is_write : BOOLEAN, tag : AllTags,
                   index : Sets, offset : Offsets, left : 0 .. NumWords - 1]
        BY <1>4, BusBusyType DEF Transactions
    <2>2. bus.left - 1 \in 0 .. NumWords - 1 /\ NextOffset(bus.offset) \in Offsets
        BY <1>4, <2>1, NextOffsetType, DCacheAssumption
    <2> QED BY <1>4, <2>1, <2>2
<1> QED BY <1>1, <1>2, <1>3, <1>4 DEF BusStep

LEMMA MemType ==
    ASSUME TypeOK, Next
    PROVE  mem' \in [Addrs -> Values]
<1>1. CReqData(dreq) \in Values
    <2>1. dreq.data \in Values
        BY DreqType DEF Requests
    <2>2. writebuffer[miss_addr.offset] \in Values
        BY DEF TypeOK, CacheTypeOK
    <2> QED BY <2>1, <2>2 DEF CReqData
<1>2. mem' = mem \/ mem' = [mem EXCEPT ![BusAddr] = CReqData(dreq)]
    BY DEF Next, Quiet, Grant, Transfer
<1> QED BY <1>1, <1>2 DEF TypeOK

-----------------------------------------------------------------------------
(* The handshakes.                                                         *)

\* A request that hits and may be served does not start a miss, and hits and
\* may be served in the next cycle too: the line it hits is not the one that
\* goes to the bus next.
LEMMA HitStays ==
    ASSUME CacheInv, WritesBack, NEW r \in Requests, NEW c \in Responses,
           Edge(r, c), ToHit(r)
    PROVE  IsHit(r)' /\ IsLoaded(r)'
<1>1. CacheTypeOK /\ NoMiss(r, c)
    BY DEF CacheInv, Edge, StartMiss, IdleEdge, LoadWait, LoadBeat, WritebackEdge,
           ToHit, ToMiss
<1>2. /\ tags' = tags
      /\ \A s \in Sets, w \in Ways : metadata'[s][w].valid = metadata[s][w].valid
    BY <1>1, NoMissKeepsLines
<1>3. r.index \in Sets
    BY DEF Requests
<1>4. PICK w \in Ways : metadata[r.index][w].valid /\ tags[r.index][w] = r.tag
    BY DEF ToHit, IsHit, HitWays
<1>5. IsHit(r)'
    BY <1>2, <1>3, <1>4 DEF IsHit, HitWays
<1> SUFFICES IsLoaded(r)'
    BY <1>5
<1>6. IsLoaded(r)
    BY DEF ToHit
<1>7. CASE IdleEdge(r, c)
    BY <1>7 DEF IdleEdge, IsLoaded, InMiss
<1>8. CASE LoadWait(r, c)
    BY <1>6, <1>8 DEF LoadWait, IsLoaded, InMiss
<1>9. CASE LoadBeat(r, c)
    <2>1. miss_addr'.index = miss_addr.index
        BY <1>1, <1>9 DEF LoadBeat, CacheTypeOK
    <2>2. CASE ~c.last
        BY <1>6, <1>9, <2>1, <2>2 DEF LoadBeat, IsLoaded, InMiss
    <2>3. CASE c.last /\ miss_state' = "WRITEBACK"
        <3>1. wb.meta.valid /\ creq_addr'.tag = wb.tag
            BY <1>1, <1>9, <2>3 DEF LoadBeat, CacheTypeOK
        <3>2. r.index = miss_addr.index => r.tag # wb.tag
            BY <1>4, <1>9, <3>1 DEF LoadBeat, CacheInv, EvictedIsNowhere
        <3> QED BY <2>1, <3>1, <3>2 DEF IsLoaded, InMiss
    <2>4. CASE c.last /\ miss_state' # "WRITEBACK"
        BY <1>9, <2>4 DEF LoadBeat, IsLoaded, InMiss
    <2> QED BY <2>2, <2>3, <2>4
<1>10. CASE WritebackEdge(r, c)
    <2>1. r.index = miss_addr.index => r.tag # creq_addr.tag
        BY <1>4, <1>10 DEF WritebackEdge, CacheInv, EvictedIsNowhere, WritesBack
    <2>2. miss_addr'.index = miss_addr.index
        BY <1>1, <1>10 DEF WritebackEdge, CacheTypeOK
    <2> QED BY <1>10, <2>1, <2>2 DEF WritebackEdge, IsLoaded, InMiss
<1> QED BY <1>1, <1>7, <1>8, <1>9, <1>10 DEF Edge, StartMiss, NoMiss

\* An uncached request never hits.
LEMMA UncachedMisses ==
    ASSUME NoUncachedLine, NEW r \in Requests, Uncached(r)
    PROVE  ~IsHit(r)
<1>1. r.index \in Sets
    BY DEF Requests
<1> QED BY <1>1 DEF NoUncachedLine, Uncached, IsHit, HitWays

\* An uncached request is on the bus only for a stage that waits for it.
LEMMA BusyWaits ==
    ASSUME MemInv, NEW c \in Responses, BusStep(c)
    PROVE  /\ c.ready => bus.busy
           /\ c.ready /\ Skip(dreq) => mstate = "MEMORY10" /\ Uncached(dataE_o)
           /\ c.last <=> bus.busy /\ ~bus'.busy
           /\ ~bus.busy => c = NoResp
<1>1. TypeOK
    BY DEF MemInv
<1>2. c.ready => bus.busy
    BY DEF BusStep, NoResp
<1>3. ~bus.busy => c = NoResp
    BY <1>2 DEF BusStep
<1>4. c.last <=> bus.busy /\ ~bus'.busy
    <2>1. CASE UNCHANGED bus /\ c = NoResp
        BY <2>1 DEF NoResp
    <2>2. CASE ~bus.busy /\ c = NoResp
        BY <2>2 DEF NoResp
    <2>3. CASE bus.busy /\ bus.left = 0 /\ c = Beat /\ bus' = BusFree
        BY <2>3 DEF BusFree, Beat
    <2>4. CASE /\ bus.busy /\ bus.left # 0 /\ c = Beat
               /\ bus' = [bus EXCEPT !.left = @ - 1, !.offset = NextOffset(@)]
        BY <1>1, <2>4, BusBusyType DEF Transactions, Beat
    <2> QED BY <2>1, <2>2, <2>3, <2>4 DEF BusStep
<1> QED BY <1>2, <1>3, <1>4 DEF MemInv, Handshake, Skip

\* Every clock edge preserves the handshakes.
LEMMA HandshakeInv ==
    ASSUME MemInv, NEW c \in Responses, BusStep(c), Edge(dreq, c), StageEdge(c)
    PROVE  Handshake'
<1>1. TypeOK /\ CacheInv /\ WritesBack /\ Handshake
    BY DEF MemInv
<1>2. dreq \in Requests
    BY <1>1, DreqType
<1>3. /\ c.ready /\ Skip(dreq) => mstate = "MEMORY10" /\ Uncached(dataE_o)
      /\ c.last <=> bus.busy /\ ~bus'.busy
      /\ ~bus.busy => c = NoResp
    BY BusyWaits
<1>4. dresp_data_ok' = (~dresp_data_ok /\ ToHit(dreq))
    BY DEF Edge, StartMiss, IdleEdge, LoadWait, LoadBeat, WritebackEdge, NoMiss, Datapath
<1>5. Uncached(dreq) => ~IsHit(dreq)
    BY <1>1, <1>2, UncachedMisses DEF CacheInv
<1>6. ~NoReq.valid
    BY DEF NoReq
<1>7. CASE Accept(c)
    <2>1. ~Skip(dreq) /\ IsHit(dreq) /\ IsLoaded(dreq) /\ dreq = dataE_o
        BY <1>3, <1>7 DEF Accept, AddrOk, dreq
    <2>2. ToHit(dreq) /\ ~Uncached(dreq)
        BY <1>5, <1>7, <2>1 DEF Accept, ToHit
    <2>3. PICK r \in Requests : r = dreq
        BY <1>2
    <2>4. Edge(r, c) /\ ToHit(r)
        BY <2>2, <2>3
    <2>5. IsHit(r)' /\ IsLoaded(r)'
        BY <1>1, <2>4, HitStays
    <2>6. dataM1' = r /\ mstate' = "MEMORY01" /\ ~dataE_o'.valid
        BY <1>6, <1>7, <2>1, <2>3 DEF Accept, MoveToM1, Advance
    <2>7. IsHit(dataM1)' /\ IsLoaded(dataM1)' /\ ~Uncached(dataM1)'
        BY <2>2, <2>3, <2>5, <2>6 DEF IsHit, HitWays, IsLoaded, InMiss, Uncached
    <2>8. dresp_data_ok'
        BY <1>1, <1>4, <1>7, <2>2 DEF Accept, Handshake
    <2>9. ~(bus'.busy /\ miss_state' = "IDLE")
        <3>1. CASE miss_state # "IDLE"
            BY <1>3, <3>1, <2>2
            DEF Edge, StartMiss, IdleEdge, LoadWait, LoadBeat, WritebackEdge
        <3>2. CASE miss_state = "IDLE"
            <4>1. ~bus.busy
                BY <1>1, <2>1, <2>2, <3>2 DEF Handshake
            <4>2. ~creq.valid
                BY <2>1, <3>2 DEF creq, CReq
            <4> QED BY <4>1, <4>2 DEF BusStep
        <3> QED BY <3>1, <3>2
    <2> QED BY <2>6, <2>7, <2>8, <2>9 DEF Handshake
<1>8. CASE AcceptUncached(c)
    <2>1. dreq = dataE_o /\ ~ToHit(dreq) /\ mstate' = "IDLE"
        BY <1>5, <1>8 DEF AcceptUncached, ToHit, dreq
    <2>2. Skip(dreq) /\ c.ready
        BY <1>5, <1>8 DEF AcceptUncached, AddrOk
    <2>3. c.last
        <3>1. c = Beat /\ bus.busy
            BY <2>2 DEF BusStep, NoResp
        <3>2. bus.left = 0
            BY <1>1, <2>2, <3>1 DEF Handshake, Skip
        <3> QED BY <3>1, <3>2 DEF Beat
    <2> QED BY <1>3, <1>4, <2>1, <2>3 DEF Handshake
<1>9. CASE Stall(c)
    <2>1. dreq = dataE_o /\ dreq.valid /\ ~ToHit(dreq)
        BY <1>9 DEF Stall, ToHit, AddrOk, dreq
    <2>2. mstate' = "MEMORY10" /\ dataE_o' = dataE_o
        BY <1>9 DEF Stall
    <2>3. ASSUME bus'.busy, miss_state' = "IDLE"
          PROVE  Uncached(dataE_o) /\ bus'.left = 0
        <3>1. miss_state = "IDLE"
            BY <1>3, <2>3
            DEF Edge, StartMiss, IdleEdge, LoadWait, LoadBeat, WritebackEdge
        <3>2. CASE bus.busy
            <4>1. bus' = bus
                BY <1>1, <2>3, <3>1, <3>2 DEF BusStep, BusFree, Handshake
            <4> QED BY <1>1, <3>1, <3>2, <4>1 DEF Handshake
        <3>3. CASE ~bus.busy
            <4>1. creq.valid /\ bus'.left = creq.len - 1
                BY <2>3, <3>3 DEF BusStep
            <4>2. Skip(dreq) /\ creq.len = 1
                BY <3>1, <4>1 DEF creq, CReq
            <4> QED BY <2>1, <4>1, <4>2 DEF Skip
        <3> QED BY <3>2, <3>3
    <2> QED BY <1>4, <2>1, <2>2, <2>3 DEF Handshake, Uncached
<1>10. CASE Pass
    <2>1. mstate = "MEMORY01" => ~dataE_o.valid /\ ~Skip(dreq)
        BY <1>1 DEF Handshake, Skip, dreq
    <2>2. ~dataE_o.valid /\ mstate' = "IDLE"
        BY <1>10, <2>1 DEF Pass
    <2>3. ~(dresp_data_ok')
        BY <1>1, <1>4, <2>2 DEF Handshake, ToHit, dreq
    <2>4. ~(bus'.busy /\ miss_state' = "IDLE")
        <3>1. CASE miss_state # "IDLE"
            BY <1>3, <3>1
            DEF Edge, StartMiss, IdleEdge, LoadWait, LoadBeat, WritebackEdge
        <3>2. CASE miss_state = "IDLE"
            <4>1. ~bus.busy
                BY <1>1, <2>2, <3>2 DEF Handshake
            <4>2. ~creq.valid
                BY <2>1, <2>2, <3>2 DEF creq, CReq, Skip, Uncached, dreq
            <4> QED BY <4>1, <4>2 DEF BusStep
        <3> QED BY <3>1, <3>2
    <2> QED BY <2>2, <2>3, <2>4 DEF Handshake
<1> QED BY <1>7, <1>8, <1>9, <1>10 DEF StageEdge

\* What RequestIsHeld says of one clock edge.
LEMMA RequestHeld ==
    ASSUME MemInv, NEW c \in Responses, BusStep(c), Edge(dreq, c), StageEdge(c),
           creq.valid, ~c.last
    PROVE  /\ creq' = creq
           /\ Skip(dreq)' <=> Skip(dreq)
           /\ miss_state' = miss_state
<1>1. TypeOK /\ CacheInv /\ Handshake
    BY DEF MemInv
<1>2. /\ c.ready /\ Skip(dreq) => mstate = "MEMORY10" /\ Uncached(dataE_o)
      /\ c.last <=> bus.busy /\ ~bus'.busy
      /\ c.ready => bus.busy
    BY BusyWaits
<1>3. CASE Skip(dreq)
    <2>1. mstate # "MEMORY01" /\ dreq = dataE_o /\ dreq.valid
        BY <1>1, <1>3 DEF Handshake, Skip, Uncached, dreq
    <2>2. ~c.ready
        <3>1. SUFFICES ASSUME c.ready PROVE FALSE
            OBVIOUS
        <3>2. c = Beat /\ bus.left = 0
            BY <1>1, <1>3, <3>1 DEF BusStep, NoResp, Handshake, Skip
        <3> QED BY <3>2 DEF Beat
    <2>3. Stall(c)
        BY <1>3, <2>1, <2>2 DEF StageEdge, Accept, AcceptUncached, Pass, AddrOk
    <2>4. dreq' = dreq
        BY <2>1, <2>3 DEF Stall, dreq
    <2>5. miss_state' = "IDLE"
        BY <1>3 DEF Skip, Edge, StartMiss, ToMiss, IdleEdge, LoadWait, LoadBeat, WritebackEdge
    <2>6. Skip(dreq)'
        BY <1>3, <2>4, <2>5 DEF Skip, Uncached
    <2> QED BY <1>3, <2>4, <2>5, <2>6 DEF creq, CReq, Skip
<1>4. CASE ~Skip(dreq)
    <2>1. miss_state # "IDLE"
        BY <1>4 DEF creq, CReq
    <2>2. miss_state' = miss_state /\ creq_addr' = creq_addr
        BY <2>1 DEF Edge, StartMiss, ToMiss, IdleEdge, LoadWait, LoadBeat, WritebackEdge
    <2>3. ~(Skip(dreq)')
        BY <2>1, <2>2 DEF Skip
    <2> QED BY <1>4, <2>2, <2>3 DEF creq, CReq
<1> QED BY <1>3, <1>4

\* The write-back starts when the fill has its last word, with its address.
LEMMA WritesBackInv ==
    ASSUME MemInv, NEW c \in Responses, Edge(dreq, c)
    PROVE  WritesBack'
<1>1. CacheTypeOK /\ WritesBack
    BY DEF MemInv, TypeOK
<1>2. CASE StartMiss(dreq, c)
    BY <1>2 DEF StartMiss, WritesBack
<1>3. CASE IdleEdge(dreq, c) \/ LoadWait(dreq, c)
    BY <1>3 DEF IdleEdge, LoadWait, WritesBack
<1>4. CASE LoadBeat(dreq, c)
    BY <1>1, <1>4 DEF CacheTypeOK, LoadBeat, WritesBack
<1>5. CASE WritebackEdge(dreq, c)
    BY <1>1, <1>5 DEF CacheTypeOK, WritebackEdge, WritesBack
<1> QED BY <1>2, <1>3, <1>4, <1>5 DEF Edge

\* A beat moves the memory and the miss FSM to the same next word.
LEMMA CountdownInv ==
    ASSUME MemInv, NEW c \in Responses, BusStep(c), Edge(dreq, c), StageEdge(c)
    PROVE  Countdown'
<1>1. /\ TypeOK /\ CacheTypeOK /\ Handshake /\ Countdown
    BY DEF MemInv, TypeOK
<1>2. /\ c.last <=> bus.busy /\ ~bus'.busy
      /\ ~bus.busy => c = NoResp
      /\ c.ready => bus.busy
    BY BusyWaits
<1>3. miss_addr.offset \in Offsets /\ creq_addr.offset \in Offsets
    BY <1>1 DEF CacheTypeOK
<1>4. CASE StartMiss(dreq, c)
    <2>1. ~Uncached(dreq) /\ miss_addr'.offset = creq_addr'.offset
        BY <1>4 DEF StartMiss, ToMiss
    <2>2. ~bus'.busy
        <3>1. CASE miss_state = "IDLE"
            <4>1. ~bus.busy
                BY <1>1, <2>1, <3>1 DEF Handshake, dreq
            <4>2. ~creq.valid
                BY <2>1, <3>1 DEF creq, CReq, Skip
            <4> QED BY <4>1, <4>2 DEF BusStep
        <3>2. CASE miss_state # "IDLE"
            BY <1>2, <1>4, <3>2 DEF StartMiss, ToMiss
        <3> QED BY <3>1, <3>2
    <2> QED BY <2>1, <2>2 DEF Countdown
<1>5. CASE IdleEdge(dreq, c)
    BY <1>5 DEF IdleEdge, Countdown
<1>6. CASE ~c.ready /\ miss_state # "IDLE" /\ ~StartMiss(dreq, c)
    <2>1. /\ miss_addr' = miss_addr /\ creq_addr' = creq_addr
          /\ miss_state # "IDLE" /\ ~c.ready
        BY <1>6 DEF Edge, IdleEdge, LoadWait, LoadBeat, WritebackEdge
    <2>2. CASE UNCHANGED bus
        BY <1>1, <2>1, <2>2 DEF Countdown
    <2>3. CASE ~bus.busy /\ bus'.left = creq.len - 1
        <3>1. creq.len = NumWords
            BY <2>1 DEF creq, CReq, Skip
        <3>2. miss_addr.offset = creq_addr.offset
            BY <1>1, <2>1, <2>3 DEF Countdown
        <3>3. miss_addr'.offset + bus'.left + 1 = creq_addr'.offset + NumWords
            BY <1>3, <2>1, <2>3, <3>1, <3>2, DCacheAssumption DEF Offsets
        <3>4. CASE bus'.busy
            BY <3>3, <3>4 DEF Countdown
        <3>5. CASE ~bus'.busy
            BY <2>1, <3>2, <3>5 DEF Countdown
        <3> QED BY <3>4, <3>5
    <2> QED BY <2>1, <2>2, <2>3 DEF BusStep, Beat
<1>7. CASE c.ready /\ miss_state # "IDLE" /\ ~StartMiss(dreq, c)
    <2>1. /\ miss_addr'.offset = NextOffset(miss_addr.offset)
          /\ creq_addr'.offset = creq_addr.offset
        BY <1>1, <1>7 DEF CacheTypeOK, Edge, IdleEdge, LoadWait, LoadBeat, WritebackEdge
    <2>2. c = Beat /\ bus.busy
        BY <1>7 DEF BusStep, NoResp
    <2>3. /\ bus.left \in 0 .. NumWords - 1
          /\ miss_addr.offset + bus.left + 1 \in {creq_addr.offset, creq_addr.offset + NumWords}
        BY <1>1, <1>7, <2>2, BusBusyType DEF Transactions, Countdown
    <2>4. CASE bus.left = 0
        <3>1. ~bus'.busy
            BY <1>2, <2>2, <2>4 DEF Beat
        <3>2. miss_addr'.offset = creq_addr'.offset
            BY <1>3, <2>1, <2>3, <2>4, DCacheAssumption DEF Offsets, NextOffset
        <3> QED BY <3>1, <3>2 DEF Countdown
    <2>5. CASE bus.left # 0
        <3>1. bus'.busy /\ bus'.left = bus.left - 1
            <4>1. bus' = [bus EXCEPT !.left = @ - 1, !.offset = NextOffset(@)]
                BY <2>2, <2>5, <1>7 DEF BusStep, NoResp
            <4> QED BY <1>1, <2>2, <4>1, BusBusyType DEF Transactions
        <3>2. miss_addr'.offset + bus'.left + 1 \in {creq_addr'.offset, creq_addr'.offset + NumWords}
            BY <1>3, <2>1, <2>3, <2>5, <3>1, DCacheAssumption DEF Offsets, NextOffset
        <3> QED BY <3>1, <3>2 DEF Countdown
    <2> QED BY <2>4, <2>5
<1> QED BY <1>4, <1>5, <1>6, <1>7 DEF Edge, IdleEdge, LoadWait, LoadBeat, WritebackEdge

LEMMA BusAgreesInv ==
    ASSUME MemInv, NEW c \in Responses, BusStep(c), Edge(dreq, c), StageEdge(c)
    PROVE  BusAgrees'
<1> SUFFICES ASSUME bus'.busy PROVE BusAgrees'
    BY DEF BusAgrees
<1>1. TypeOK /\ CacheTypeOK /\ Handshake /\ Countdown /\ BusAgrees
    BY DEF MemInv, TypeOK
<1>2. ~c.last
    BY BusyWaits
<1>3. creq.valid
    BY <1>1 DEF BusStep, BusAgrees
<1>4. creq' = creq /\ (Skip(dreq)' <=> Skip(dreq)) /\ miss_state' = miss_state
    BY <1>2, <1>3, RequestHeld
<1>5. ~Skip(dreq) => miss_state # "IDLE"
    BY <1>3 DEF creq, CReq
<1>6. ~Skip(dreq) => miss_addr'.offset = IF c.ready THEN NextOffset(miss_addr.offset)
                                                    ELSE miss_addr.offset
    BY <1>1, <1>2, <1>5
    DEF CacheTypeOK, Edge, StartMiss, ToMiss, IdleEdge, LoadWait, LoadBeat, WritebackEdge
<1>7. CASE UNCHANGED bus /\ c = NoResp
    BY <1>1, <1>4, <1>6, <1>7 DEF BusAgrees, NoResp
<1>8. CASE /\ c = NoResp /\ ~bus.busy
           /\ bus' = [busy |-> TRUE, is_write |-> creq.is_write, tag |-> creq.tag,
                      index |-> creq.index, offset |-> creq.offset, left |-> creq.len - 1]
    <2>1. ~Skip(dreq) => miss_addr'.offset = creq.offset
        BY <1>1, <1>5, <1>6, <1>8 DEF Countdown, NoResp, creq, CReq
    <2> QED BY <1>3, <1>4, <1>8, <2>1 DEF BusAgrees
<1>9. CASE c = Beat /\ bus.busy
    <2>1. bus.left # 0 /\ c.ready
        BY <1>2, <1>9 DEF Beat
    <2>2. ~Skip(dreq)
        BY <1>1, <1>9, <2>1 DEF Handshake, Skip
    <2>3. bus' = [bus EXCEPT !.left = @ - 1, !.offset = NextOffset(@)]
        BY <1>9, <2>1 DEF BusStep, NoResp
    <2>4. /\ bus'.is_write = bus.is_write /\ bus'.tag = bus.tag /\ bus'.index = bus.index
          /\ bus'.offset = NextOffset(bus.offset)
        BY <1>1, <1>9, <2>3, BusBusyType DEF Transactions
    <2> QED BY <1>1, <1>3, <1>4, <1>6, <1>9, <2>1, <2>2, <2>4 DEF BusAgrees
<1> QED BY <1>7, <1>8, <1>9 DEF BusStep

-----------------------------------------------------------------------------
(* The specification.                                                      *)

LEMMA InitInv == Init => MemInv
<1> SUFFICES ASSUME Init PROVE MemInv
    OBVIOUS
<1>1. CacheInit /\ CacheInv /\ CacheTypeOK
    BY CacheInitInv DEF Init, CacheInv
<1>2. TypeOK
    BY <1>1, DCacheAssumption DEF Init, TypeOK
<1>3. /\ miss_state = "IDLE" /\ dresp_data_ok = FALSE
      /\ mstate = "IDLE" /\ ~bus.busy
    BY DEF Init, CacheInit, BusFree
<1> QED BY <1>1, <1>2, <1>3
        DEF MemInv, WritesBack, Handshake, Countdown, BusAgrees

LEMMA NextInv == MemInv /\ [Next]_vars => MemInv'
<1> SUFFICES ASSUME MemInv, [Next]_vars PROVE MemInv'
    OBVIOUS
<1>1. TypeOK /\ CacheInv
    BY DEF MemInv
<1>2. CASE Next
    <2>1. PICK c \in Responses : BusStep(c) /\ Edge(dreq, c) /\ StageEdge(c)
        BY <1>1, <1>2, NextIsEdge
    <2>2. PICK r \in Requests : r = dreq
        BY <1>1, DreqType
    <2>3. CacheInv'
        BY <1>1, <2>1, <2>2, EdgeInv
    <2>4. TypeOK'
        <3>1. CacheTypeOK'
            BY <2>3 DEF CacheInv
        <3> QED BY <1>1, <1>2, <2>1, <3>1, StageType, BusType, MemType DEF TypeOK
    <2>5. WritesBack' /\ Handshake' /\ Countdown' /\ BusAgrees'
        BY <2>1, WritesBackInv, HandshakeInv, CountdownInv, BusAgreesInv
    <2> QED BY <2>3, <2>4, <2>5 DEF MemInv
<1>3. CASE UNCHANGED vars
    <2>1. UNCHANGED cacheVars
        BY <1>3 DEF vars
    <2>2. CacheInv'
        BY <1>1, <2>1, StutterInv
    <2>3. TypeOK'
        BY <1>1, <1>3, <2>2 DEF vars, TypeOK, CacheInv
    <2>4. dreq' = dreq /\ creq' = creq /\ (Skip(dreq)' <=> Skip(dreq))
        BY <1>3, <2>1 DEF vars, cacheVars, dreq, creq, CReq, Skip, Uncached
    <2>5. (IsHit(dataM1)' <=> IsHit(dataM1)) /\ (IsLoaded(dataM1)' <=> IsLoaded(dataM1))
        BY <1>3, <2>1 DEF vars, cacheVars, IsHit, HitWays, IsLoaded, InMiss
    <2>6. Handshake' /\ WritesBack' /\ Countdown'
        BY <1>3, <2>1, <2>5
        DEF MemInv, vars, cacheVars, Handshake, WritesBack, Countdown, Uncached
    <2>7. BusAgrees'
        BY <1>3, <2>1, <2>4 DEF MemInv, vars, cacheVars, BusAgrees
    <2> QED BY <2>2, <2>3, <2>6, <2>7 DEF MemInv
<1> QED BY <1>2, <1>3

\* Every reachable state of the data side satisfies the invariant.
THEOREM MemCorrect == Spec => []MemInv
BY InitInv, NextInv, PTL DEF Spec

\* The registers of the memory stage, the cache and the bus keep their types.
THEOREM MemTypeOK == Spec => []TypeOK
<1>1. MemInv => TypeOK
    BY DEF MemInv
<1> QED BY <1>1, MemCorrect, PTL

\* hit_bits is one-hot whatever the instruction stream and the bus do.
THEOREM MemHitIsOneHot == Spec => []HitIsOneHot
<1>1. MemInv => HitIsOneHot
    BY DEF MemInv, CacheInv
<1> QED BY <1>1, MemCorrect, PTL

\* An evicted line is in no way until the bus has it back.
THEOREM MemEvictedIsNowhere == Spec => []EvictedIsNowhere
<1>1. MemInv => EvictedIsNowhere
    BY DEF MemInv, CacheInv
<1> QED BY <1>1, MemCorrect, PTL

\* The memory and the miss FSM always mean the same word, for every length of
\* a line and every first word.
THEOREM MemBusAgrees == Spec => []BusAgrees
<1>1. MemInv => BusAgrees
    BY DEF MemInv
<1> QED BY <1>1, MemCorrect, PTL

\* The answer is there in the cycle in which memory.sv takes it unseen.
THEOREM MemAcceptedIsAnswered == Spec => []AcceptedIsAnswered
<1>1. MemInv => AcceptedIsAnswered
    BY DEF MemInv, Handshake, AcceptedIsAnswered, dreq, DataOk, Skip
<1> QED BY <1>1, MemCorrect, PTL

\* No uncached access is sent to its device twice.
THEOREM MemUncachedIsNotResent == Spec => []UncachedIsNotResent
<1>1. MemInv => UncachedIsNotResent
    <2> SUFFICES ASSUME MemInv, mstate = "MEMORY01", dataM1.tag = IOTag PROVE FALSE
        BY DEF UncachedIsNotResent
    <2>1. dataM1.index \in Sets
        BY DreqType DEF MemInv, Requests
    <2>2. IsHit(dataM1)
        BY DEF MemInv, Handshake
    <2> QED BY <2>1, <2>2 DEF MemInv, CacheInv, NoUncachedLine, IsHit, HitWays
<1> QED BY <1>1, MemCorrect, PTL

\* RAMHelper2 never sees a request modified before its last beat.
THEOREM MemRequestIsHeld == Spec => RequestIsHeld
<1>1. MemInv /\ [Next]_vars
        => [creq.valid /\ ~(bus.busy /\ ~bus'.busy) => creq' = creq]_vars
    <2> SUFFICES ASSUME MemInv, Next, creq.valid, ~(bus.busy /\ ~bus'.busy)
                 PROVE  creq' = creq
        OBVIOUS
    <2>1. PICK c \in Responses : BusStep(c) /\ Edge(dreq, c) /\ StageEdge(c)
        BY NextIsEdge DEF MemInv
    <2> QED BY <2>1, BusyWaits, RequestHeld
<1> QED BY <1>1, MemCorrect, PTL DEF Spec, RequestIsHeld

-----------------------------------------------------------------------------
(* The data.                                                               *)

\* A bubble follows every request, so the port has one request at a time; a
\* store that is re-sent in MEMORY01 finds its own value.
OneAtATime ==
    /\ dataM1.valid => ~dataE_o.valid
    /\ mstate = "MEMORY10" => ~dataM1.valid
    /\ mstate = "MEMORY01" => dataM1.valid
    /\ mstate = "MEMORY01" /\ dataM1.we =>
         CurrentWord(<<dataM1.tag, dataM1.index, dataM1.offset>>) = dataM1.data

WordInv == MemInv /\ DataInv(mem) /\ OneAtATime

\* The memory at a clock edge with the response c.
MemStep(c) ==
    /\ BusStep(c)
    /\ mem' = IF c.ready /\ bus.is_write
              THEN [mem EXCEPT ![BusAddr] = CReqData(dreq)] ELSE mem

LEMMA NextIsMemStep ==
    ASSUME TypeOK, Next
    PROVE  \E c \in Responses : MemStep(c) /\ Edge(dreq, c) /\ StageEdge(c)
<1>1. ~NoResp.ready /\ Beat.ready
    BY DEF NoResp, Beat
<1>2. CASE Quiet
    BY <1>1, <1>2, ResponseType DEF Quiet, MemStep, BusStep
<1>3. CASE Grant
    BY <1>1, <1>3, ResponseType DEF Grant, MemStep, BusStep
<1>4. CASE Transfer
    BY <1>1, <1>4, ResponseType DEF Transfer, MemStep, BusStep
<1> QED BY <1>2, <1>3, <1>4 DEF Next

\* The bus as the cache expects it: the memory and the miss FSM agree on the
\* word of every beat and on the last beat.
LEMMA MemMoves ==
    ASSUME MemInv, NEW c \in Responses, MemStep(c), NEW m, NEW n, m = mem, n = mem'
    PROVE  BusMoves(m, n, c)
<1>1. TypeOK /\ CacheTypeOK /\ Countdown /\ BusAgrees
    BY DEF MemInv, TypeOK
<1>2. c.ready => c = Beat /\ bus.busy
    BY DEF MemStep, BusStep, NoResp
<1>3. c.ready =>
        /\ creq.valid /\ creq.is_write = bus.is_write
        /\ creq.tag = bus.tag /\ creq.index = bus.index
        /\ bus.offset = IF Skip(dreq) THEN creq.offset ELSE miss_addr.offset
    BY <1>1, <1>2 DEF BusAgrees
<1>4. miss_state # "IDLE" =>
        /\ ~Skip(dreq) /\ creq.tag = creq_addr.tag /\ creq.index = creq_addr.index
        /\ creq.is_write <=> miss_state = "WRITEBACK"
    BY DEF Skip, creq, CReq
<1>5. c.ready => c.data = mem[BusAddr]
    BY <1>2 DEF Beat
<1>6. ASSUME c.ready, miss_state # "IDLE"
      PROVE  /\ BusAddr = <<creq_addr.tag, creq_addr.index, miss_addr.offset>>
             /\ bus.is_write <=> miss_state = "WRITEBACK"
             /\ c.last <=> NextOffset(miss_addr.offset) = creq_addr.offset
    <2>1. BusAddr = <<creq_addr.tag, creq_addr.index, miss_addr.offset>>
        BY <1>3, <1>4, <1>6 DEF BusAddr
    <2>2. bus.is_write <=> miss_state = "WRITEBACK"
        BY <1>3, <1>4, <1>6
    <2>3. /\ bus.left \in 0 .. NumWords - 1
          /\ miss_addr.offset + bus.left + 1 \in {creq_addr.offset, creq_addr.offset + NumWords}
        BY <1>1, <1>2, <1>6, BusBusyType DEF Transactions, Countdown
    <2>4. bus.left = 0 <=> NextOffset(miss_addr.offset) = creq_addr.offset
        BY <1>1, <2>3, BehindType, DCacheAssumption DEF Offsets, NextOffset
    <2>5. c.last <=> bus.left = 0
        BY <1>1, <1>2, <1>6, ResponseType
    <2> QED BY <2>1, <2>2, <2>4, <2>5
<1>7. CASE miss_state = "LOAD"
    <2>1. n = m
        BY <1>6, <1>7 DEF MemStep
    <2> QED BY <1>5, <1>6, <1>7, <2>1 DEF BusMoves
<1>8. CASE miss_state = "WRITEBACK"
    <2>1. CReqData(dreq) = writebuffer[miss_addr.offset]
        BY <1>4, <1>8 DEF CReqData
    <2>2. c.ready => n = [m EXCEPT ![BusAddr] = writebuffer[miss_addr.offset]]
        BY <1>6, <1>8, <2>1 DEF MemStep
    <2>3. ~c.ready => n = m
        BY DEF MemStep
    <2> QED BY <1>6, <1>8, <2>2, <2>3 DEF BusMoves
<1>9. CASE miss_state = "IDLE"
    <2> SUFFICES ASSUME NEW t \in Tags, NEW s \in Sets, NEW o \in Offsets
                 PROVE  n[<<t, s, o>>] = m[<<t, s, o>>]
        BY <1>9 DEF BusMoves
    <2>1. CASE ~(c.ready /\ bus.is_write)
        BY <2>1 DEF MemStep
    <2>2. CASE c.ready /\ bus.is_write
        <3>1. Skip(dreq) /\ bus.tag = IOTag
            BY <1>3, <1>9, <2>2 DEF creq, CReq, Skip, Uncached
        <3>2. bus.tag \in AllTags /\ bus.index \in Sets /\ bus.offset \in Offsets
            BY <1>1, <1>2, <2>2, BusBusyType DEF Transactions
        <3>3. PICK b \in AllTags, u \in Sets, j \in Offsets :
                b = bus.tag /\ u = bus.index /\ j = bus.offset
            BY <3>2
        <3>4. PICK v : v = CReqData(dreq)
            OBVIOUS
        <3>5. n = [m EXCEPT ![<<b, u, j>>] = v]
            BY <2>2, <3>3, <3>4 DEF MemStep, BusAddr
        <3>6. m \in [Addrs -> Values] /\ t \in AllTags
            BY <1>1 DEF TypeOK, AllTags
        <3>7. t # b
            BY <3>1, <3>3, DCacheAssumption
        <3>8. \A x \in [Addrs -> Values] :
                [x EXCEPT ![<<b, u, j>>] = v][<<t, s, o>>] = x[<<t, s, o>>]
            BY <3>6, <3>7, StoreWord
        <3> QED BY <3>5, <3>6, <3>8
    <2> QED BY <2>1, <2>2
<1> QED BY <1>1, <1>7, <1>8, <1>9 DEF CacheTypeOK

\* The memory keeps its type.
LEMMA MemStepType ==
    ASSUME TypeOK, NEW c, MemStep(c)
    PROVE  mem' \in [Addrs -> Values]
<1>1. CReqData(dreq) \in Values
    <2>1. dreq.data \in Values
        BY DreqType DEF Requests
    <2>2. writebuffer[miss_addr.offset] \in Values
        BY DEF TypeOK, CacheTypeOK
    <2> QED BY <2>1, <2>2 DEF CReqData
<1> QED BY <1>1 DEF TypeOK, MemStep

\* What a clock edge makes of the words of the hierarchy.
LEMMA StepData ==
    ASSUME MemInv, DataInv(mem), NEW c \in Responses, MemStep(c), Edge(dreq, c)
    PROVE  /\ DataInv(mem)'
           /\ \A t \in Tags, s \in Sets, o \in Offsets :
                CurrentWord(<<t, s, o>>)' = IF Stores(dreq, t, s, o) THEN dreq.data
                                            ELSE CurrentWord(<<t, s, o>>)
           /\ \A s \in Sets, o \in Offsets :
                /\ CurrentWord(<<IOTag, s, o>>) = mem[<<IOTag, s, o>>]
                /\ CurrentWord(<<IOTag, s, o>>)' = mem'[<<IOTag, s, o>>]
<1>1. TypeOK /\ CacheInv /\ mem \in [Addrs -> Values] /\ mem' \in [Addrs -> Values]
    BY MemStepType DEF MemInv, TypeOK
<1>2. PICK m \in [Addrs -> Values] : m = mem
    BY <1>1
<1>3. PICK n \in [Addrs -> Values] : n = mem'
    BY <1>1
<1>4. PICK r \in Requests : r = dreq
    BY <1>1, DreqType
<1>5. BusMoves(m, n, c)
    BY <1>2, <1>3, MemMoves
<1>6. DataInv(m)
    BY <1>2
<1>7. Edge(r, c)
    BY <1>4
<1>8. CacheInv' /\ DataInv(n)' /\ Kept(r, m, n)
    BY <1>1, <1>5, <1>6, <1>7, EdgeInv, EdgeData
<1>9. DataInv(mem)'
    BY <1>3, <1>8 DEF DataInv, CleanOver, WrittenTo
<1>10. \A t, s, o : /\ CurrentWord(<<t, s, o>>) = WordOver(m, <<t, s, o>>)
                    /\ CurrentWord(<<t, s, o>>)' = WordOver(n, <<t, s, o>>)'
    BY <1>2, <1>3 DEF CurrentWord, WordOver
<1>11. IOWordsAre /\ IOWordsAre'
    BY <1>1, <1>8, <1>9, IOWords, IOWordsNext DEF DataInv
<1>12. \A s \in Sets, o \in Offsets : /\ WordOver(m, <<IOTag, s, o>>) = m[<<IOTag, s, o>>]
                                      /\ WordOver(n, <<IOTag, s, o>>)' = n[<<IOTag, s, o>>]
    BY <1>11 DEF IOWordsAre
<1> QED BY <1>2, <1>3, <1>4, <1>8, <1>9, <1>10, <1>12 DEF Kept

AddrOf(r) == <<r.tag, r.index, r.offset>>

LEMMA AddrOfType == ASSUME NEW r \in Requests PROVE AddrOf(r) \in Addrs
BY DEF Requests, AddrOf, Addrs

LEMMA AddrCases ==
    \A a \in Addrs : \/ \E t \in Tags, s \in Sets, o \in Offsets : a = <<t, s, o>>
                     \/ \E s \in Sets, o \in Offsets : a = <<IOTag, s, o>>
BY DEF Addrs, AllTags

\* An uncached word moves only in the beat that serves a request for it.
LEMMA IOMoves ==
    ASSUME MemInv, DataInv(mem), NEW c \in Responses, MemStep(c)
    PROVE  /\ Skip(dreq) /\ c.ready => c.data = mem[AddrOf(dreq)]
           /\ \A s \in Sets, o \in Offsets :
                mem'[<<IOTag, s, o>>] =
                   IF /\ Skip(dreq) /\ c.ready /\ dreq.we
                      /\ s = dreq.index /\ o = dreq.offset
                   THEN dreq.data ELSE mem[<<IOTag, s, o>>]
<1>1. TypeOK /\ CacheTypeOK /\ BusAgrees /\ mem \in [Addrs -> Values]
    BY DEF MemInv, TypeOK
<1>2. c.ready => c = Beat /\ bus.busy
    BY DEF MemStep, BusStep, NoResp
<1>3. c.ready =>
        /\ creq.valid /\ creq.is_write = bus.is_write
        /\ creq.tag = bus.tag /\ creq.index = bus.index
        /\ bus.offset = IF Skip(dreq) THEN creq.offset ELSE miss_addr.offset
    BY <1>1, <1>2 DEF BusAgrees
<1>4. c.ready => bus.tag \in AllTags /\ bus.index \in Sets /\ bus.offset \in Offsets
    BY <1>1, <1>2, BusBusyType DEF Transactions
<1>5. ~(c.ready /\ bus.is_write) => mem' = mem
    BY DEF MemStep
<1>6. CASE Skip(dreq)
    <2>1. c.ready => BusAddr = AddrOf(dreq) /\ (bus.is_write <=> dreq.we)
        BY <1>3, <1>6 DEF BusAddr, AddrOf, creq, CReq
    <2>2. c.ready => c.data = mem[AddrOf(dreq)]
        BY <1>2, <2>1 DEF Beat
    <2>3. CReqData(dreq) = dreq.data /\ dreq.tag = IOTag
        BY <1>6 DEF CReqData, Skip, Uncached
    <2>4. CASE c.ready /\ dreq.we
        <3>1. mem' = [mem EXCEPT ![AddrOf(dreq)] = dreq.data]
            BY <2>1, <2>3, <2>4 DEF MemStep
        <3>2. PICK S \in Sets, O \in Offsets : S = dreq.index /\ O = dreq.offset
            BY <1>1, DreqType DEF Requests
        <3>3. PICK v : v = dreq.data
            OBVIOUS
        <3>4. mem' = [mem EXCEPT ![<<IOTag, S, O>>] = v]
            BY <2>3, <3>1, <3>2, <3>3 DEF AddrOf
        <3>5. \A x \in [Addrs -> Values], s \in Sets, o \in Offsets :
                [x EXCEPT ![<<IOTag, S, O>>] = v][<<IOTag, s, o>>] =
                    IF s = S /\ o = O THEN v ELSE x[<<IOTag, s, o>>]
            BY StoreWord DEF AllTags
        <3>6. \A s \in Sets, o \in Offsets :
                mem'[<<IOTag, s, o>>] = IF s = S /\ o = O THEN v ELSE mem[<<IOTag, s, o>>]
            BY <1>1, <3>4, <3>5
        <3> QED BY <1>6, <2>2, <2>4, <3>2, <3>3, <3>6
    <2>5. CASE ~(c.ready /\ dreq.we)
        BY <1>5, <2>1, <2>2, <2>5
    <2> QED BY <2>4, <2>5
<1>7. CASE ~Skip(dreq)
    <2> SUFFICES ASSUME NEW s \in Sets, NEW o \in Offsets
                 PROVE  mem'[<<IOTag, s, o>>] = mem[<<IOTag, s, o>>]
        BY <1>7
    <2>1. CASE c.ready /\ bus.is_write
        <3>1. /\ miss_state = "WRITEBACK" /\ bus.tag = creq_addr.tag
            BY <1>3, <1>7, <2>1 DEF creq, CReq
        <3>2. bus.tag # IOTag
            BY <3>1 DEF DataInv, WrittenTo, OneSet
        <3>3. PICK b \in AllTags, u \in Sets, j \in Offsets :
                b = bus.tag /\ u = bus.index /\ j = bus.offset
            BY <1>4, <2>1
        <3>4. PICK v : v = CReqData(dreq)
            OBVIOUS
        <3>5. mem' = [mem EXCEPT ![<<b, u, j>>] = v]
            BY <2>1, <3>3, <3>4 DEF MemStep, BusAddr
        <3>6. \A x \in [Addrs -> Values] :
                [x EXCEPT ![<<b, u, j>>] = v][<<IOTag, s, o>>] = x[<<IOTag, s, o>>]
            BY <3>2, <3>3, StoreWord DEF AllTags
        <3> QED BY <1>1, <3>5, <3>6
    <2>2. CASE ~(c.ready /\ bus.is_write)
        BY <1>5, <2>2
    <2> QED BY <2>1, <2>2
<1> QED BY <1>6, <1>7

\* What the port sees of an edge that serves a request: the memory makes the
\* store, or the load has the word the memory holds.
Served(v) ==
    /\ \A a \in Addrs : CurrentWord(a)' = IF dataE_o.we /\ a = AddrOf(dataE_o)
                                          THEN dataE_o.data ELSE CurrentWord(a)
    /\ v = CurrentWord(AddrOf(dataE_o))

\* A request that hits is served at the edge that accepts it.
LEMMA AcceptServes ==
    ASSUME MemInv, DataInv(mem), NEW c \in Responses, MemStep(c), Edge(dreq, c), Accept(c)
    PROVE  Served(hit_rdata')
<1>1. TypeOK /\ CacheInv
    BY DEF MemInv
<1>2. dreq = dataE_o /\ ~Skip(dreq)
    <2>1. dreq = dataE_o
        BY DEF Accept, dreq
    <2>2. BusStep(c)
        BY DEF MemStep
    <2>3. c.ready /\ Skip(dreq) => mstate = "MEMORY10" /\ Uncached(dataE_o)
        BY <2>2, BusyWaits
    <2> QED BY <2>1, <2>3 DEF Accept, AddrOk
<1>3. ToHit(dreq)
    BY <1>2 DEF Accept, AddrOk, ToHit
<1>4. PICK r \in Requests : r = dreq
    BY <1>1, DreqType
<1>5. ToHit(r)
    BY <1>3, <1>4
<1>6. /\ r.index \in Sets /\ r.offset \in Offsets /\ r.tag \in Tags
      /\ HitWay(r) \in Ways
      /\ metadata[r.index][HitWay(r)].valid
      /\ tags[r.index][HitWay(r)] = r.tag
      /\ Present(r.tag, r.index, r.offset)
    BY <1>1, <1>5, HitFacts
<1>7. PICK m \in [Addrs -> Values] : m = mem
    BY <1>1 DEF TypeOK
<1>8. WordOver(m, AddrOf(r)) = data[r.index][HitWay(r)][r.offset]
    BY <1>1, <1>6, WordCases DEF WordsAre, AddrOf, AllTags
<1>9. hit_rdata' = data[r.index][HitWay(r)][r.offset]
    BY <1>4 DEF Edge, StartMiss, IdleEdge, LoadWait, LoadBeat, WritebackEdge, NoMiss, Datapath
<1>10. hit_rdata' = CurrentWord(AddrOf(dataE_o))
    BY <1>2, <1>4, <1>7, <1>8, <1>9 DEF CurrentWord, WordOver
<1>11. ASSUME NEW t \in Tags, NEW s \in Sets, NEW o \in Offsets
       PROVE  CurrentWord(<<t, s, o>>)' =
                 IF dataE_o.we /\ <<t, s, o>> = AddrOf(dataE_o)
                 THEN dataE_o.data ELSE CurrentWord(<<t, s, o>>)
    BY <1>2, <1>3, StepData DEF Stores, AddrOf
<1>12. ASSUME NEW s \in Sets, NEW o \in Offsets
       PROVE  CurrentWord(<<IOTag, s, o>>)' =
                 IF dataE_o.we /\ <<IOTag, s, o>> = AddrOf(dataE_o)
                 THEN dataE_o.data ELSE CurrentWord(<<IOTag, s, o>>)
    <2>1. <<IOTag, s, o>> # AddrOf(dataE_o)
        BY <1>2, <1>4, <1>6, DCacheAssumption DEF AddrOf
    <2>2. mem'[<<IOTag, s, o>>] = mem[<<IOTag, s, o>>]
        BY <1>2, IOMoves
    <2> QED BY <2>1, <2>2, StepData
<1> QED BY <1>10, <1>11, <1>12, AddrCases DEF Served

\* An uncached request is served by its one beat on the bus.
LEMMA AcceptUncachedServes ==
    ASSUME MemInv, DataInv(mem), NEW c \in Responses, MemStep(c), Edge(dreq, c),
           AcceptUncached(c)
    PROVE  Served(RespData(dreq, c))
<1>1. TypeOK /\ CacheInv
    BY DEF MemInv
<1>2. dreq = dataE_o /\ Uncached(dreq)
    BY DEF AcceptUncached, dreq
<1>3. ~IsHit(dreq)
    BY <1>1, <1>2, DreqType, UncachedMisses DEF CacheInv
<1>4. Skip(dreq) /\ c.ready /\ dreq.tag = IOTag
    BY <1>2, <1>3 DEF AcceptUncached, AddrOk, Uncached
<1>5. RespData(dreq, c) = mem[AddrOf(dreq)] /\ ~ToHit(dreq)
    BY <1>3, <1>4, IOMoves DEF RespData, ToHit
<1>6. PICK S \in Sets, O \in Offsets : S = dreq.index /\ O = dreq.offset
    BY <1>1, DreqType DEF Requests
<1>7. AddrOf(dreq) = <<IOTag, S, O>>
    BY <1>4, <1>6 DEF AddrOf
<1>8. RespData(dreq, c) = CurrentWord(AddrOf(dataE_o))
    BY <1>2, <1>5, <1>7, StepData
<1>9. ASSUME NEW t \in Tags, NEW s \in Sets, NEW o \in Offsets
      PROVE  /\ CurrentWord(<<t, s, o>>)' = CurrentWord(<<t, s, o>>)
             /\ <<t, s, o>> # AddrOf(dataE_o)
    BY <1>2, <1>5, <1>7, StepData, DCacheAssumption DEF Stores
<1>10. ASSUME NEW s \in Sets, NEW o \in Offsets
       PROVE  CurrentWord(<<IOTag, s, o>>)' =
                 IF dataE_o.we /\ <<IOTag, s, o>> = AddrOf(dataE_o)
                 THEN dataE_o.data ELSE CurrentWord(<<IOTag, s, o>>)
    <2>1. mem'[<<IOTag, s, o>>] = IF dreq.we /\ s = S /\ o = O
                                  THEN dreq.data ELSE mem[<<IOTag, s, o>>]
        BY <1>4, <1>6, IOMoves
    <2> QED BY <1>2, <1>7, <2>1, StepData
<1> QED BY <1>8, <1>9, <1>10, AddrCases DEF Served

\* No other edge changes a word: a stalled request does not touch the data
\* RAM, and a store that is re-sent writes what it wrote.
LEMMA OthersKeep ==
    ASSUME WordInv, NEW c \in Responses, MemStep(c), Edge(dreq, c), Stall(c) \/ Pass
    PROVE  \A a \in Addrs : CurrentWord(a)' = CurrentWord(a)
<1>1. MemInv /\ DataInv(mem) /\ OneAtATime /\ TypeOK /\ Handshake
    BY DEF WordInv, MemInv
<1>2. BusStep(c)
    BY DEF MemStep
<1>3. c.ready /\ Skip(dreq) => mstate = "MEMORY10" /\ dreq = dataE_o /\ dataE_o.valid
    BY <1>1, <1>2, BusyWaits DEF Uncached, dreq
<1>4. ~(c.ready /\ Skip(dreq))
    BY <1>3 DEF Stall, Pass, AddrOk
<1>5. ToHit(dreq) => mstate = "MEMORY01"
    BY DEF ToHit, Stall, Pass, AddrOk, dreq
<1>6. ASSUME NEW t \in Tags, NEW s \in Sets, NEW o \in Offsets
      PROVE  CurrentWord(<<t, s, o>>)' = CurrentWord(<<t, s, o>>)
    <2>1. Stores(dreq, t, s, o) => /\ mstate = "MEMORY01" /\ dataM1.we /\ dreq = dataM1
                                   /\ t = dreq.tag /\ s = dreq.index /\ o = dreq.offset
        BY <1>5 DEF Stores, dreq
    <2>2. Stores(dreq, t, s, o) => CurrentWord(<<t, s, o>>) = dreq.data
        BY <1>1, <2>1 DEF OneAtATime
    <2> QED BY <1>1, <2>2, StepData
<1>7. ASSUME NEW s \in Sets, NEW o \in Offsets
      PROVE  CurrentWord(<<IOTag, s, o>>)' = CurrentWord(<<IOTag, s, o>>)
    <2>1. mem'[<<IOTag, s, o>>] = mem[<<IOTag, s, o>>]
        BY <1>1, <1>4, IOMoves
    <2> QED BY <1>1, <2>1, StepData
<1> QED BY <1>6, <1>7, AddrCases

\* The stage has one request at a time.
LEMMA OneAtATimeInv ==
    ASSUME WordInv, NEW c \in Responses, MemStep(c), Edge(dreq, c), StageEdge(c)
    PROVE  OneAtATime'
<1>1. MemInv /\ DataInv(mem) /\ OneAtATime /\ TypeOK /\ Handshake
    BY DEF WordInv, MemInv
<1>2. ~NoReq.valid
    BY DEF NoReq
<1>3. CASE Accept(c)
    <2>1. /\ mstate' = "MEMORY01" /\ dataM1' = dataE_o /\ dataE_o.valid
          /\ dataE_o' = NoReq
        BY <1>3 DEF Accept, MoveToM1, Advance
    <2>2. PICK a \in Addrs : a = AddrOf(dataE_o)
        BY <1>1, AddrOfType, DreqType
    <2>3. dataE_o.we => CurrentWord(a)' = dataE_o.data
        BY <1>1, <1>3, <2>2, AcceptServes DEF Served
    <2>4. PICK t, s, o : a = <<t, s, o>> /\ t = dataM1'.tag /\ s = dataM1'.index /\ o = dataM1'.offset
        BY <2>1, <2>2 DEF AddrOf
    <2>5. CurrentWord(<<dataM1.tag, dataM1.index, dataM1.offset>>)' = CurrentWord(a)'
        BY <2>4 DEF CurrentWord, WordOver, IsHit, HitWay, HitWays, IsLoaded, InMiss,
                    Evicting, EvictedWord
    <2> QED BY <1>2, <2>1, <2>3, <2>5 DEF OneAtATime
<1>4. CASE AcceptUncached(c)
    BY <1>1, <1>2, <1>4 DEF AcceptUncached, MoveToM1, Advance, OneAtATime, Handshake
<1>5. CASE Stall(c)
    BY <1>1, <1>5 DEF Stall, OneAtATime
<1>6. CASE Pass
    <2>1. ~dataE_o.valid /\ mstate' = "IDLE" /\ dataM1' = dataE_o
        BY <1>1, <1>6 DEF Pass, Handshake, MoveToM1
    <2> QED BY <2>1 DEF OneAtATime
<1> QED BY <1>3, <1>4, <1>5, <1>6 DEF StageEdge

LEMMA WordInitInv == Init => WordInv
<1> SUFFICES ASSUME Init PROVE WordInv
    OBVIOUS
<1>1. MemInv
    BY InitInv
<1>2. DataInv(mem)
    BY DEF Init, CacheInit, DataInv, CleanOver, Filled, WrittenTo, OneSet
<1>3. OneAtATime
    BY DEF Init, OneAtATime, NoReq
<1> QED BY <1>1, <1>2, <1>3 DEF WordInv

LEMMA WordNextInv == WordInv /\ [Next]_vars => WordInv'
<1> SUFFICES ASSUME WordInv, [Next]_vars PROVE WordInv'
    OBVIOUS
<1>1. MemInv /\ DataInv(mem) /\ OneAtATime /\ TypeOK
    BY DEF WordInv, MemInv
<1>2. MemInv'
    BY <1>1, NextInv
<1>3. CASE Next
    <2>1. PICK c \in Responses : MemStep(c) /\ Edge(dreq, c) /\ StageEdge(c)
        BY <1>1, <1>3, NextIsMemStep
    <2> QED BY <1>1, <1>2, <2>1, StepData, OneAtATimeInv DEF WordInv
<1>4. CASE UNCHANGED vars
    <2>1. DataInv(mem)' /\ \A a : CurrentWord(a)' = CurrentWord(a)
        BY <1>1, <1>4
        DEF vars, cacheVars, DataInv, CleanOver, Filled, WrittenTo, OneSet, Present, Behind,
            CurrentWord, WordOver, IsHit, HitWay, HitWays, IsLoaded, InMiss,
            Evicting, EvictedWord
    <2>2. OneAtATime'
        <3>1. PICK a : a = <<dataM1.tag, dataM1.index, dataM1.offset>>
            OBVIOUS
        <3>2. CurrentWord(a)' = CurrentWord(a)
            BY <2>1
        <3>3. CurrentWord(<<dataM1.tag, dataM1.index, dataM1.offset>>)' = CurrentWord(a)'
            BY <1>4, <3>1
            DEF vars, CurrentWord, WordOver, IsHit, HitWay, HitWays, IsLoaded, InMiss,
                Evicting, EvictedWord
        <3> QED BY <1>1, <1>4, <3>1, <3>2, <3>3 DEF vars, OneAtATime
    <2> QED BY <1>2, <2>1, <2>2 DEF WordInv
<1> QED BY <1>3, <1>4

\* Every reachable state of the data side satisfies the invariant.
THEOREM WordsCorrect == Spec => []WordInv
BY WordInitInv, WordNextInv, PTL DEF Spec

\* A clean line equals memory, whatever the stores, evictions and fills before
\* and however late the memory answers them: dropping it loses nothing.
THEOREM MemCleanLineMatchesMemory == Spec => []CleanLineMatchesMemory
<1>1. WordInv => CleanLineMatchesMemory
    BY DEF WordInv, DataInv, CleanOver, CleanLineMatchesMemory, IsLoaded, InMiss, Present
<1> QED BY <1>1, WordsCorrect, PTL

-----------------------------------------------------------------------------
(* The refinement.                                                         *)

\* The cases of port exclude each other.
PortCases ==
    /\ mstate = "MEMORY01" =>
         port = [st |-> "served", req |-> ToRequest(dataM1), data |-> hit_rdata]
    /\ mstate = "IDLE" /\ dataM1.valid =>
         port = [st |-> "served", req |-> ToRequest(dataM1), data |-> memr_data]
    /\ mstate # "MEMORY01" /\ dataE_o.valid =>
         port = [st |-> "asked", req |-> ToRequest(dataE_o)]
    /\ mstate # "MEMORY01" /\ ~dataE_o.valid /\ ~dataM1.valid =>
         port = [st |-> "free"]

LEMMA PortIs == WordInv => PortCases
<1> SUFFICES ASSUME WordInv PROVE PortCases
    OBVIOUS
<1>1. Handshake /\ OneAtATime
    BY DEF WordInv, MemInv
<1>2. mstate = "MEMORY01" => RespData(dreq, NoResp) = hit_rdata
    BY <1>1 DEF Handshake, RespData, Skip, dreq
<1>3. CASE mstate = "MEMORY01"
    BY <1>1, <1>2, <1>3 DEF PortCases, port, OneAtATime, Handshake
<1>4. CASE mstate # "MEMORY01" /\ dataE_o.valid
    <2>1. ~dataM1.valid
        BY <1>1, <1>4 DEF OneAtATime
    <2> QED BY <1>4, <2>1 DEF PortCases, port
<1>5. CASE mstate # "MEMORY01" /\ ~dataE_o.valid
    <2>1. mstate = "IDLE"
        BY <1>1, <1>5 DEF Handshake, WordInv, MemInv, TypeOK
    <2> QED BY <1>5, <2>1 DEF PortCases, port
<1> QED BY <1>3, <1>4, <1>5

\* The same of the state after a step.
LEMMA PortIsNext == WordInv' => PortCases'
BY PortIs, PTL

LEMMA ToRequestType ==
    ASSUME NEW r \in Requests
    PROVE  /\ ToRequest(r) \in [we : BOOLEAN, addr : Addrs, data : Values]
           /\ ToRequest(r).we = r.we /\ ToRequest(r).addr = AddrOf(r)
           /\ ToRequest(r).data = r.data
BY DEF Requests, ToRequest, AddrOf, Addrs

LEMMA MemoryInit == Init => Memory!Init
<1> SUFFICES ASSUME Init PROVE Memory!Init
    OBVIOUS
<1>1. WordInv
    BY WordInitInv
<1>2. port = [st |-> "free"]
    BY <1>1, PortIs DEF Init, PortCases, NoReq
<1>3. ASSUME NEW a \in Addrs PROVE CurrentWord(a) = InitValue
    BY DEF Init, CacheInit, CurrentWord, WordOver, IsHit, HitWays, Evicting, Addrs
<1> QED BY <1>2, <1>3 DEF Memory!Init, Memory!Free

\* The edge that answers a request is the step that serves it.
LEMMA MemoryServe ==
    ASSUME NEW v \in Values, dataE_o \in Requests, Served(v),
           port = [st |-> "asked", req |-> ToRequest(dataE_o)],
           port' = [st |-> "served", req |-> ToRequest(dataE_o), data |-> v]
    PROVE  Memory!Serve
<1> DEFINE M == [a \in Addrs |-> CurrentWord(a)]
           q == ToRequest(dataE_o)
<1>1. q.we = dataE_o.we /\ q.addr = AddrOf(dataE_o) /\ q.data = dataE_o.data /\ q.addr \in Addrs
    BY ToRequestType, AddrOfType
<1>2. port.st = "asked" /\ port.req = q
    OBVIOUS
<1>3. port' = Memory!Served(q, v)
    BY DEF Memory!Served
<1>4. M' = [a \in Addrs |-> CurrentWord(a)']
    OBVIOUS
<1>5. CASE q.we
    <2>1. M' = [M EXCEPT ![q.addr] = q.data]
        BY <1>1, <1>4, <1>5 DEF Served
    <2> QED BY <1>2, <1>3, <1>5, <2>1 DEF Memory!Serve
<1>6. CASE ~q.we
    <2>1. M' = M /\ v = M[q.addr]
        BY <1>1, <1>4, <1>6 DEF Served
    <2> QED BY <1>2, <1>3, <1>6, <2>1 DEF Memory!Serve
<1> QED BY <1>5, <1>6

\* Every clock edge is a step of the atomic memory, or none.
LEMMA MemoryStep ==
    ASSUME WordInv, WordInv', Next
    PROVE  Memory!Next \/ UNCHANGED Memory!vars
<1>1. /\ MemInv /\ DataInv(mem) /\ OneAtATime /\ TypeOK /\ Handshake
      /\ TypeOK' /\ CacheTypeOK' /\ dataE_o \in Requests
    BY DreqType DEF WordInv, MemInv, TypeOK
<1>2. PICK c \in Responses : MemStep(c) /\ Edge(dreq, c) /\ StageEdge(c)
    BY <1>1, NextIsMemStep
<1>3. PortCases /\ PortCases'
    BY PortIs, PortIsNext
<1>4. CASE Accept(c)
    <2>1. port = [st |-> "asked", req |-> ToRequest(dataE_o)]
        BY <1>3, <1>4 DEF PortCases, Accept
    <2>2. mstate' = "MEMORY01" /\ dataM1' = dataE_o
        BY <1>4 DEF Accept, MoveToM1
    <2>3. port' = [st |-> "served", req |-> ToRequest(dataM1)', data |-> hit_rdata']
        BY <1>3, <2>2 DEF PortCases
    <2>4. ToRequest(dataM1)' = ToRequest(dataE_o)
        BY <2>2 DEF ToRequest
    <2>5. hit_rdata' \in Values
        BY <1>1 DEF CacheTypeOK
    <2>6. Served(hit_rdata')
        BY <1>1, <1>2, <1>4, AcceptServes
    <2> QED BY <1>1, <2>1, <2>3, <2>4, <2>5, <2>6, MemoryServe DEF Memory!Next
<1>5. CASE AcceptUncached(c)
    <2>1. port = [st |-> "asked", req |-> ToRequest(dataE_o)]
        BY <1>3, <1>5 DEF PortCases, AcceptUncached, Uncached, dreq
    <2>2. /\ mstate' = "IDLE" /\ dataM1' = dataE_o /\ dataM1'.valid
          /\ memr_data' = RespData(dreq, c)
        BY <1>5 DEF AcceptUncached, MoveToM1, Uncached, dreq
    <2>3. port' = [st |-> "served", req |-> ToRequest(dataM1)', data |-> memr_data']
        BY <1>3, <2>2 DEF PortCases
    <2>4. ToRequest(dataM1)' = ToRequest(dataE_o)
        BY <2>2 DEF ToRequest
    <2>5. memr_data' \in Values
        BY <1>1 DEF TypeOK
    <2>6. Served(memr_data')
        BY <1>1, <1>2, <1>5, <2>2, AcceptUncachedServes
    <2> QED BY <1>1, <2>1, <2>3, <2>4, <2>5, <2>6, MemoryServe DEF Memory!Next
<1> DEFINE M == [a \in Addrs |-> CurrentWord(a)]
<1>6. CASE Stall(c)
    <2>1. M' = M
        BY <1>2, <1>6, OthersKeep
    <2>2. port' = port
        BY <1>3, <1>6 DEF PortCases, Stall, ToRequest
    <2> QED BY <2>1, <2>2 DEF Memory!vars
<1>7. CASE Pass
    <2>1. M' = M
        BY <1>2, <1>7, OthersKeep
    <2>2. ~dataE_o.valid /\ mstate' = "IDLE" /\ ~dataM1'.valid
        BY <1>1, <1>7 DEF Pass, Handshake, MoveToM1
    <2>3. port = [st |-> "free"] \/ port.st = "served"
        BY <1>1, <1>3, <2>2 DEF PortCases, Handshake, TypeOK
    <2>4. CASE ~dataE_o'.valid
        <3>1. port' = [st |-> "free"]
            BY <1>3, <2>2, <2>4 DEF PortCases
        <3> QED BY <2>1, <2>3, <3>1 DEF Memory!Next, Memory!Release, Memory!Free, Memory!vars
    <2>5. CASE dataE_o'.valid
        <3>1. port' = [st |-> "asked", req |-> ToRequest(dataE_o)']
            BY <1>3, <2>2, <2>5 DEF PortCases
        <3>2. dataE_o' \in Requests
            BY <1>1, NoReqType, IssuedAssumption DEF TypeOK
        <3>3. ToRequest(dataE_o)' \in [we : BOOLEAN, addr : Addrs, data : Values]
            BY <3>2 DEF ToRequest, Requests, Addrs
        <3> QED BY <2>1, <2>3, <3>1, <3>3
                DEF Memory!Next, Memory!Ask, Memory!Idle, Memory!Request, Memory!Asked
    <2> QED BY <2>4, <2>5
<1> QED BY <1>2, <1>4, <1>5, <1>6, <1>7 DEF StageEdge

LEMMA MemoryStutter == ASSUME UNCHANGED vars PROVE UNCHANGED Memory!vars
<1>1. \A a \in Addrs : CurrentWord(a)' = CurrentWord(a)
    BY DEF vars, cacheVars, CurrentWord, WordOver, IsHit, HitWay, HitWays, IsLoaded, InMiss,
           Evicting, EvictedWord
<1>2. port' = port
    BY DEF vars, cacheVars, port, ToRequest, RespData, Skip, Uncached, dreq, NoResp
<1> QED BY <1>1, <1>2 DEF Memory!vars

\* The hierarchy implements an atomic memory: at every geometry, instruction
\* stream and timing of the bus, every load of the memory stage returns the
\* last value stored, and no store is lost, doubled or reordered.  (That every
\* request is served in the end is the fairness part of ImplementsMemory.)
THEOREM MemImplementsMemory == Spec => Memory!Safety
<1>1. Init => Memory!Init
    BY MemoryInit
<1>2. WordInv /\ WordInv' /\ [Next]_vars => [Memory!Next]_(Memory!vars)
    BY MemoryStep, MemoryStutter
<1> QED BY <1>1, <1>2, WordsCorrect, PTL DEF Spec, Memory!Safety
=============================================================================
