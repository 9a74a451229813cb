------------------------------- MODULE DCache -------------------------------
(***************************************************************************)
(* The data cache of vsrc/cache/DCache.sv: set-associative, write-back,    *)
(* write-allocate, one outstanding miss, hits served under the miss.       *)
(*                                                                         *)
(* Every variable is a register or a RAM of the module; Edge(r, c) is one  *)
(* rising clock edge, taken with the request r on dreq and the response c  *)
(* on cresp.  The operators before it are the combinational logic between  *)
(* two edges.                                                              *)
(*                                                                         *)
(* Abstractions.  A word is one value: the byte lanes of strobe are left   *)
(* out, a store writes the whole word and a load has strobe 0.  The tag    *)
(* IOTag stands for the addresses with bit 31 clear, which are not cached. *)
(* The pseudo-LRU choice of a victim among valid ways is any way here;     *)
(* module PLRU models the choice itself.                                   *)
(***************************************************************************)
EXTENDS Integers, FiniteSets

CONSTANTS
    NumWays,   \* 8 in the code
    NumSets,   \* 2^8 in the code
    NumWords,  \* words of a line, 16 in the code
    Tags,      \* tags of cacheable addresses
    IOTag,     \* the tag of the uncached ones
    Values,    \* what a word can hold
    InitValue  \* the zero every RAM starts with

\* MLEN16 makes a line 16 words: the write-back relies on at least two.
ASSUME DCacheAssumption ==
    /\ NumWays \in Nat \ {0}
    /\ NumSets \in Nat \ {0}
    /\ NumWords \in Nat \ {0, 1}
    /\ Tags # {} /\ IOTag \notin Tags
    /\ InitValue \in Values

Ways    == 0 .. NumWays - 1
Sets    == 0 .. NumSets - 1
Offsets == 0 .. NumWords - 1
AllTags == Tags \union {IOTag}
Addrs   == AllTags \X Sets \X Offsets

\* Mutant: an offset one bit too wide.
NextOffsetNoWrap(o) == o + 1

\* offset_t'(o + 1): the wrap of a 2^OFFSET_BITS counter.
NextOffset(o) == IF o = NumWords - 1 THEN 0 ELSE o + 1

VARIABLES
    metadata,          \* valid and dirty of every way of every set
    tags,              \* tag_ram
    data,              \* data_ram
    miss_state,        \* IDLE, LOAD, WRITEBACK
    miss_addr,         \* where the line being filled lives, and the next word
    creq_addr,         \* the line address on the bus
    miss_data_loaded,  \* the offsets already filled
    writebuffer,       \* the evicted line, captured word by word
    wb,                \* wb_tag, wb_meta, wb_wen, wb_offset
    dresp_data_ok,     \* the hit of the previous edge
    hit_rdata,         \* output register of port 1 of data_ram
    miss_rdata         \* output register of port 2

cacheVars == <<metadata, tags, data, miss_state, miss_addr, creq_addr,
               miss_data_loaded, writebuffer, wb, dresp_data_ok,
               hit_rdata, miss_rdata>>

Meta == [valid : BOOLEAN, dirty : BOOLEAN]

\* dreq: valid, strobe # 0, address, data.
Requests == [valid : BOOLEAN, we : BOOLEAN, tag : AllTags, index : Sets,
             offset : Offsets, data : Values]

\* cresp: a beat is transferred, it is the last one, and what it carries.
Responses == {c \in [ready : BOOLEAN, last : BOOLEAN, data : Values] :
                 c.last => c.ready}

NoResp == [ready |-> FALSE, last |-> FALSE, data |-> InitValue]

CacheTypeOK ==
    /\ metadata \in [Sets -> [Ways -> Meta]]
    /\ tags \in [Sets -> [Ways -> AllTags]]
    /\ data \in [Sets -> [Ways -> [Offsets -> Values]]]
    /\ miss_state \in {"IDLE", "LOAD", "WRITEBACK"}
    /\ miss_addr \in [idx : Ways, index : Sets, offset : Offsets]
    /\ creq_addr \in [tag : AllTags, index : Sets, offset : Offsets]
    /\ miss_data_loaded \in SUBSET Offsets
    /\ writebuffer \in [Offsets -> Values]
    /\ wb \in [tag : AllTags, meta : Meta, wen : BOOLEAN, offset : Offsets]
    /\ dresp_data_ok \in BOOLEAN
    /\ hit_rdata \in Values
    /\ miss_rdata \in Values

-----------------------------------------------------------------------------
(* The combinational logic.                                                *)

\* Mutant: an uncached request overtakes the line transfer on the bus.
SkipAnyState(r) == r.tag = IOTag /\ r.valid

\* An uncached request goes straight to the bus, once the cache is idle.
Uncached(r) == r.tag = IOTag /\ r.valid
Skip(r)     == Uncached(r) /\ miss_state = "IDLE"

HitWays(r) == {w \in Ways : metadata[r.index][w].valid
                            /\ tags[r.index][w] = r.tag}
IsHit(r)   == HitWays(r) # {}

\* The encoder of hit_bits: 0 when nothing hits.  It is written for one-hot
\* hit_bits, the invariant HitIsOneHot.
HitWay(r) == IF IsHit(r) THEN CHOOSE w \in HitWays(r) : TRUE ELSE 0

\* The request is for the line being filled or written back; its word is
\* then usable only when it has arrived.
InMiss(r) == /\ miss_state # "IDLE"
             /\ r.tag = creq_addr.tag
             /\ r.index = miss_addr.index
IsLoaded(r) == InMiss(r) => r.offset \in miss_data_loaded

\* Mutants: a miss not qualified by the tag compare; one that does not wait
\* for the write-back before it.
ToMissUnqualified(r, c) == /\ ~Uncached(r) /\ r.valid
                           /\ \/ miss_state = "IDLE"
                              \/ miss_state = "WRITEBACK" /\ c.last
ToMissEarly(r, c) == /\ ~IsHit(r) /\ ~Uncached(r) /\ r.valid
                     /\ miss_state \in {"IDLE", "WRITEBACK"}

ToHit(r) == IsHit(r) /\ ~Skip(r) /\ r.valid /\ IsLoaded(r)

ToMiss(r, c) == /\ ~IsHit(r) /\ ~Uncached(r) /\ r.valid
                /\ \/ miss_state = "IDLE"
                   \/ miss_state = "WRITEBACK" /\ c.last

\* The last invalid way if there is one, else a valid one.
Victims(s) == {v \in Ways : \A w \in Ways :
                  ~metadata[s][w].valid => ~metadata[s][v].valid /\ w <= v}

\* creq: the line transfer of the miss, or the uncached request itself.
CReq(r) ==
    IF Skip(r)
    THEN [valid |-> TRUE, is_write |-> r.we, tag |-> r.tag,
          index |-> r.index, offset |-> r.offset, len |-> 1]
    ELSE [valid |-> miss_state # "IDLE", is_write |-> miss_state = "WRITEBACK",
          tag |-> creq_addr.tag, index |-> creq_addr.index,
          offset |-> creq_addr.offset, len |-> NumWords]

CReqData(r) == IF Skip(r) THEN r.data ELSE writebuffer[miss_addr.offset]

\* Mutant: a hit in the line being filled is accepted before its word is in.
AddrOkUnloaded(r, c) == IF Skip(r) THEN c.ready ELSE IsHit(r)

\* dresp.
AddrOk(r, c)   == IF Skip(r) THEN c.ready ELSE IsHit(r) /\ IsLoaded(r)
DataOk(r, c)   == IF Skip(r) THEN c.last
                  ELSE dresp_data_ok /\ IsHit(r) /\ IsLoaded(r)
RespData(r, c) == IF Skip(r) THEN c.data ELSE hit_rdata

-----------------------------------------------------------------------------
CacheInit ==
    /\ metadata = [s \in Sets |-> [w \in Ways |-> [valid |-> FALSE, dirty |-> FALSE]]]
    /\ tags = [s \in Sets |-> [w \in Ways |-> IOTag]]
    /\ data = [s \in Sets |-> [w \in Ways |-> [o \in Offsets |-> InitValue]]]
    /\ miss_state = "IDLE"
    /\ miss_addr = [idx |-> 0, index |-> 0, offset |-> 0]
    /\ creq_addr \in [tag : AllTags, index : Sets, offset : Offsets]  \* not reset
    /\ miss_data_loaded = {}
    /\ writebuffer \in [Offsets -> Values]                            \* not reset
    /\ wb = [tag |-> IOTag, meta |-> [valid |-> FALSE, dirty |-> FALSE],
             wen |-> FALSE, offset |-> 0]
    /\ dresp_data_ok = FALSE
    /\ hit_rdata = InitValue
    /\ miss_rdata = InitValue

(***************************************************************************)
(* What happens at every edge, whatever the state of the miss: both ports  *)
(* of data_ram (a read returns the old word), the hit flag, the capture of *)
(* the evicted word.                                                       *)
(***************************************************************************)
LineStore(r, line) ==
    IF ToHit(r) /\ r.we THEN [line EXCEPT ![r.index][HitWay(r)][r.offset] = r.data]
                        ELSE line

BeatStore(c, line) ==
    IF miss_state = "LOAD" /\ c.ready
    THEN [line EXCEPT ![miss_addr.index][miss_addr.idx][miss_addr.offset] = c.data]
    ELSE line

\* Mutant: the evicted word is captured at the offset of the next beat.
DatapathLateOffset(r, c) ==
    /\ data' = BeatStore(c, LineStore(r, data))
    /\ hit_rdata' = data[r.index][HitWay(r)][r.offset]
    /\ miss_rdata' = data[miss_addr.index][miss_addr.idx][miss_addr.offset]
    /\ dresp_data_ok' = (~dresp_data_ok /\ ToHit(r))
    /\ writebuffer' = IF wb.wen THEN [writebuffer EXCEPT ![miss_addr.offset] = miss_rdata]
                                ELSE writebuffer

\* Mutant: an answered request still on the port is answered again.
DatapathAnswersAgain(r, c) ==
    /\ data' = BeatStore(c, LineStore(r, data))
    /\ hit_rdata' = data[r.index][HitWay(r)][r.offset]
    /\ miss_rdata' = data[miss_addr.index][miss_addr.idx][miss_addr.offset]
    /\ dresp_data_ok' = ToHit(r)
    /\ writebuffer' = IF wb.wen THEN [writebuffer EXCEPT ![wb.offset] = miss_rdata]
                                ELSE writebuffer

Datapath(r, c) ==
    /\ data' = BeatStore(c, LineStore(r, data))
    /\ hit_rdata' = data[r.index][HitWay(r)][r.offset]
    /\ miss_rdata' = data[miss_addr.index][miss_addr.idx][miss_addr.offset]
    /\ dresp_data_ok' = (~dresp_data_ok /\ ToHit(r))
    /\ writebuffer' = IF wb.wen THEN [writebuffer EXCEPT ![wb.offset] = miss_rdata]
                                ELSE writebuffer

\* Mutant: a store that hits does not make its way dirty.
NoMissClean(r, c) == /\ ~ToMiss(r, c)
                     /\ UNCHANGED <<metadata, tags>>
                     /\ Datapath(r, c)

\* No miss starts: the tags stay, a store that hits makes its way dirty.
NoMiss(r, c) ==
    /\ ~ToMiss(r, c)
    /\ metadata' = IF ToHit(r) /\ r.we
                   THEN [metadata EXCEPT ![r.index][HitWay(r)].dirty = TRUE]
                   ELSE metadata
    /\ UNCHANGED tags
    /\ Datapath(r, c)

(***************************************************************************)
(* The miss FSM, one action per case.                                      *)
(***************************************************************************)

\* Mutant: the victim's tag is read after the new one is written.
StartMissLateTag(r, c) ==
    /\ ToMiss(r, c)
    /\ \E v \in Victims(r.index) :
         /\ metadata' = [metadata EXCEPT ![r.index][v] = [valid |-> TRUE, dirty |-> FALSE]]
         /\ tags' = [tags EXCEPT ![r.index][v] = r.tag]
         /\ miss_addr' = [idx |-> v, index |-> r.index, offset |-> r.offset]
         /\ wb' = [wb EXCEPT !.tag = r.tag,
                             !.meta = metadata[r.index][v],
                             !.wen = wb.wen /\ miss_state = "IDLE"]
    /\ miss_state' = "LOAD"
    /\ creq_addr' = [tag |-> r.tag, index |-> r.index, offset |-> r.offset]
    /\ miss_data_loaded' = {}
    /\ Datapath(r, c)

\* A miss takes the victim's way at once and remembers what it evicted.
StartMiss(r, c) ==
    /\ ToMiss(r, c)
    /\ \E v \in Victims(r.index) :
         /\ metadata' = [metadata EXCEPT ![r.index][v] = [valid |-> TRUE, dirty |-> FALSE]]
         /\ tags' = [tags EXCEPT ![r.index][v] = r.tag]
         /\ miss_addr' = [idx |-> v, index |-> r.index, offset |-> r.offset]
         /\ wb' = [wb EXCEPT !.tag = tags[r.index][v],
                             !.meta = metadata[r.index][v],
                             !.wen = wb.wen /\ miss_state = "IDLE"]
    /\ miss_state' = "LOAD"
    /\ creq_addr' = [tag |-> r.tag, index |-> r.index, offset |-> r.offset]
    /\ miss_data_loaded' = {}
    /\ Datapath(r, c)

IdleEdge(r, c) ==
    /\ miss_state = "IDLE"
    /\ NoMiss(r, c)
    /\ UNCHANGED <<miss_state, miss_addr, creq_addr, miss_data_loaded, wb>>

LoadWait(r, c) ==
    /\ miss_state = "LOAD" /\ ~c.ready
    /\ NoMiss(r, c)
    /\ wb' = [wb EXCEPT !.wen = FALSE, !.offset = miss_addr.offset]
    /\ UNCHANGED <<miss_state, miss_addr, creq_addr, miss_data_loaded>>

\* A word arrives; with the last one a dirty victim goes to the bus.
LoadBeat(r, c) ==
    /\ miss_state = "LOAD" /\ c.ready
    /\ NoMiss(r, c)
    /\ wb' = [wb EXCEPT !.wen = TRUE, !.offset = miss_addr.offset]
    /\ miss_addr' = [miss_addr EXCEPT !.offset = NextOffset(@)]
    /\ miss_data_loaded' = miss_data_loaded \union {miss_addr.offset}
    /\ miss_state' = IF ~c.last THEN "LOAD"
                     ELSE IF wb.meta.valid /\ wb.meta.dirty THEN "WRITEBACK" ELSE "IDLE"
    /\ creq_addr' = IF c.last THEN [creq_addr EXCEPT !.tag = wb.tag] ELSE creq_addr

\* Mutant: the write-back moves on without the bus.
WritebackEdgeUnpaced(r, c) ==
    /\ miss_state = "WRITEBACK"
    /\ NoMiss(r, c)
    /\ wb' = [wb EXCEPT !.wen = FALSE]
    /\ miss_addr' = [miss_addr EXCEPT !.offset = NextOffset(@)]
    /\ miss_state' = IF c.last THEN "IDLE" ELSE "WRITEBACK"
    /\ UNCHANGED <<creq_addr, miss_data_loaded>>

WritebackEdge(r, c) ==
    /\ miss_state = "WRITEBACK"
    /\ NoMiss(r, c)
    /\ wb' = [wb EXCEPT !.wen = FALSE]
    /\ miss_addr' = IF c.ready THEN [miss_addr EXCEPT !.offset = NextOffset(@)]
                               ELSE miss_addr
    /\ miss_state' = IF c.last THEN "IDLE" ELSE "WRITEBACK"
    /\ UNCHANGED <<creq_addr, miss_data_loaded>>

Edge(r, c) ==
    \/ StartMiss(r, c)
    \/ IdleEdge(r, c)
    \/ LoadWait(r, c)
    \/ LoadBeat(r, c)
    \/ WritebackEdge(r, c)

-----------------------------------------------------------------------------
(* The cache on its own: any request and any response at every edge.       *)

CacheNext == \E r \in Requests, c \in Responses : Edge(r, c)

CacheSpec == CacheInit /\ [][CacheNext]_cacheVars

\* At most one way of a set holds a tag, so hit_bits is one-hot and the
\* encoder of idx (an OR of hit bits) names the way that hit.
HitIsOneHot ==
    \A s \in Sets : \A v, w \in Ways :
        /\ metadata[s][v].valid /\ metadata[s][w].valid
        /\ tags[s][v] = tags[s][w]
        => v = w

\* The line a miss evicted is in no way until the bus has it back: no hit can
\* see, and no second fill can fetch, its stale copy in memory.
EvictedIsNowhere ==
    miss_state # "IDLE" /\ wb.meta.valid =>
        \A w \in Ways : metadata[miss_addr.index][w].valid
                        => tags[miss_addr.index][w] # wb.tag

\* No uncached address is ever allocated: an uncached request that has to
\* wait for a fill (skip is then low) cannot hit.
NoUncachedLine ==
    \A s \in Sets, w \in Ways : metadata[s][w].valid => tags[s][w] # IOTag

\* The way being filled is valid and holds the tag that is on the bus.
FillOwnsItsWay ==
    miss_state = "LOAD" =>
        /\ metadata[miss_addr.index][miss_addr.idx].valid
        /\ tags[miss_addr.index][miss_addr.idx] = creq_addr.tag

-----------------------------------------------------------------------------
(* The words the cache stands for, in front of a memory m of words.        *)

\* The line <<t, s>> has left its way and is not yet back in memory.
Evicting(t, s) == /\ miss_state # "IDLE" /\ wb.meta.valid /\ wb.meta.dirty
                  /\ wb.tag = t /\ miss_addr.index = s

\* Its words stay in the way until the fill overwrites them, pass through the
\* output register of the RAM and wait in the write buffer.
EvictedWord(o) ==
    IF miss_state = "LOAD" /\ o \notin miss_data_loaded
    THEN data[miss_addr.index][miss_addr.idx][o]
    ELSE IF wb.wen /\ wb.offset = o THEN miss_rdata
    ELSE writebuffer[o]

\* The cached word, or the evicted one on its way to memory, or the one in m.
WordOver(m, a) ==
    LET r == [valid |-> TRUE, tag |-> a[1], index |-> a[2], offset |-> a[3]] IN
    IF IsHit(r) /\ IsLoaded(r) THEN data[r.index][HitWay(r)][r.offset]
    ELSE IF Evicting(r.tag, r.index) THEN EvictedWord(r.offset)
    ELSE m[a]
=============================================================================
