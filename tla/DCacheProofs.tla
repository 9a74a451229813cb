---------------------------- MODULE DCacheProofs ----------------------------
(***************************************************************************)
(* Proofs about the data cache on its own, for every number of ways, sets  *)
(* and words, every set of tags, and any sequence of requests and bus      *)
(* responses: its types, that a line is in at most one place, and that at  *)
(* every clock edge the words the cache and any memory behind the bus      *)
(* stand for together stay as they are, but for the one a store hits,      *)
(* through fills, evictions and write-backs.                               *)
(***************************************************************************)
EXTENDS DCache, TLAPS

\* The inductive invariant: HitIsOneHot needs that a miss does not hit,
\* EvictedIsNowhere needs HitIsOneHot.
CacheInv ==
    /\ CacheTypeOK
    /\ HitIsOneHot
    /\ EvictedIsNowhere
    /\ NoUncachedLine
    /\ FillOwnsItsWay

-----------------------------------------------------------------------------
(* Lemmas about the combinational logic.                                   *)

\* The wrap of the offset counter stays inside the line.
LEMMA NextOffsetType ==
    ASSUME NEW o \in Offsets
    PROVE  NextOffset(o) \in Offsets
BY DCacheAssumption DEF Offsets, NextOffset

\* The encoder of idx names a way, and one that hits when a way hits.
LEMMA HitWayType ==
    ASSUME NEW r \in Requests
    PROVE  /\ HitWay(r) \in Ways
           /\ IsHit(r) => HitWay(r) \in HitWays(r)
<1>1. CASE IsHit(r)
    <2>1. \E w \in HitWays(r) : TRUE
        BY <1>1 DEF IsHit
    <2>2. HitWay(r) \in HitWays(r)
        BY <1>1, <2>1 DEF HitWay
    <2> QED BY <2>2 DEF HitWays
<1>2. CASE ~IsHit(r)
    BY <1>2, DCacheAssumption DEF HitWay, Ways
<1> QED BY <1>1, <1>2

\* Victims are ways.
LEMMA VictimType ==
    ASSUME NEW s \in Sets, NEW v \in Victims(s)
    PROVE  v \in Ways
BY DEF Victims

\* Both ports of data_ram, the RAM output registers and the write buffer keep
\* their types at every edge.
LEMMA DatapathType ==
    ASSUME CacheTypeOK, NEW r \in Requests, NEW c \in Responses, Datapath(r, c)
    PROVE  /\ data' \in [Sets -> [Ways -> [Offsets -> Values]]]
           /\ hit_rdata' \in Values
           /\ miss_rdata' \in Values
           /\ dresp_data_ok' \in BOOLEAN
           /\ writebuffer' \in [Offsets -> Values]
<1> USE DEF CacheTypeOK
<1>1. /\ r.index \in Sets /\ r.offset \in Offsets /\ r.data \in Values
      /\ c.data \in Values /\ c.ready \in BOOLEAN
    BY DEF Requests, Responses
<1>2. HitWay(r) \in Ways
    BY HitWayType
<1>3. LineStore(r, data) \in [Sets -> [Ways -> [Offsets -> Values]]]
    BY <1>1, <1>2 DEF LineStore
<1>4. BeatStore(c, LineStore(r, data)) \in [Sets -> [Ways -> [Offsets -> Values]]]
    <2> DEFINE L == LineStore(r, data)
    <2>1. L \in [Sets -> [Ways -> [Offsets -> Values]]]
        BY <1>3
    <2> HIDE DEF L
    <2>2. BeatStore(c, L) \in [Sets -> [Ways -> [Offsets -> Values]]]
        BY <2>1, <1>1 DEF BeatStore
    <2> QED BY <2>2 DEF L
<1>5. ToHit(r) \in BOOLEAN
    BY DEF ToHit, IsHit, Skip, Uncached, IsLoaded, InMiss
<1>6. dresp_data_ok' \in BOOLEAN
    BY <1>5 DEF Datapath
<1>7. writebuffer' \in [Offsets -> Values]
    BY DEF Datapath
<1>8. data' \in [Sets -> [Ways -> [Offsets -> Values]]]
    BY <1>4 DEF Datapath
<1> QED BY <1>1, <1>2, <1>6, <1>7, <1>8 DEF Datapath

\* Without a miss the tags and the valid bits stay as they are.
LEMMA NoMissKeepsLines ==
    ASSUME CacheTypeOK, NEW r \in Requests, NEW c \in Responses, NoMiss(r, c)
    PROVE  /\ metadata' \in [Sets -> [Ways -> Meta]]
           /\ tags' = tags
           /\ \A s \in Sets, w \in Ways : metadata'[s][w].valid = metadata[s][w].valid
<1>1. r.index \in Sets /\ HitWay(r) \in Ways
    BY HitWayType DEF Requests
<1>2. metadata \in [Sets -> [Ways -> Meta]]
    BY DEF CacheTypeOK
<1>3. CASE ToHit(r) /\ r.we
    <2>1. metadata' = [metadata EXCEPT ![r.index][HitWay(r)].dirty = TRUE]
        BY <1>3 DEF NoMiss
    <2> DEFINE i == r.index
               h == HitWay(r)
    <2>2. i \in Sets /\ h \in Ways
        BY <1>1
    <2> HIDE DEF i, h
    <2>3. metadata[i] \in [Ways -> Meta] /\ metadata[i][h] \in Meta
        BY <2>2, <1>2
    <2> DEFINE d == [metadata[i][h] EXCEPT !.dirty = TRUE]
    <2>4. d \in Meta /\ d.valid = metadata[i][h].valid
        BY <2>3 DEF Meta
    <2>5. metadata' = [metadata EXCEPT ![i] = [metadata[i] EXCEPT ![h] = d]]
        BY <2>1 DEF i, h
    <2> HIDE DEF d
    <2>6. /\ metadata' \in [Sets -> [Ways -> Meta]]
          /\ \A s \in Sets, w \in Ways :
                metadata'[s][w] = IF s = i /\ w = h THEN d ELSE metadata[s][w]
        BY <2>2, <2>3, <2>4, <2>5, <1>2
    <2> QED BY <2>4, <2>6 DEF NoMiss
<1>4. CASE ~(ToHit(r) /\ r.we)
    BY <1>2, <1>4 DEF NoMiss
<1> QED BY <1>3, <1>4

-----------------------------------------------------------------------------
(* The invariant.                                                          *)

LEMMA CacheInitInv == CacheInit => CacheInv
<1> SUFFICES ASSUME CacheInit PROVE CacheInv
    OBVIOUS
<1>1. /\ 0 \in Ways /\ 0 \in Sets /\ 0 \in Offsets
      /\ IOTag \in AllTags /\ InitValue \in Values
    BY DCacheAssumption DEF Ways, Sets, Offsets, AllTags
<1>2. CacheTypeOK
    BY <1>1 DEF CacheInit, CacheTypeOK, Meta
<1>3. \A s \in Sets, w \in Ways : ~metadata[s][w].valid
    BY DEF CacheInit
<1>4. miss_state = "IDLE"
    BY DEF CacheInit
<1> QED
    BY <1>2, <1>3, <1>4
    DEF CacheInv, HitIsOneHot, EvictedIsNowhere, NoUncachedLine, FillOwnsItsWay

\* An edge without a miss: lines stay where they are, and the FSM moves.
LEMMA NoMissInv ==
    ASSUME CacheInv, NEW r \in Requests, NEW c \in Responses,
           \/ IdleEdge(r, c) \/ LoadWait(r, c) \/ LoadBeat(r, c) \/ WritebackEdge(r, c)
    PROVE  CacheInv'
<1>1. CacheTypeOK /\ NoMiss(r, c)
    BY DEF CacheInv, IdleEdge, LoadWait, LoadBeat, WritebackEdge
<1>2. /\ metadata' \in [Sets -> [Ways -> Meta]]
      /\ tags' = tags
      /\ \A s \in Sets, w \in Ways : metadata'[s][w].valid = metadata[s][w].valid
    BY <1>1, NoMissKeepsLines
<1>3. /\ data' \in [Sets -> [Ways -> [Offsets -> Values]]]
      /\ hit_rdata' \in Values /\ miss_rdata' \in Values
      /\ dresp_data_ok' \in BOOLEAN
      /\ writebuffer' \in [Offsets -> Values]
    BY <1>1, DatapathType DEF NoMiss
<1>4. /\ miss_addr' \in [idx : Ways, index : Sets, offset : Offsets]
      /\ miss_addr'.idx = miss_addr.idx /\ miss_addr'.index = miss_addr.index
    <2>1. miss_addr \in [idx : Ways, index : Sets, offset : Offsets]
        BY <1>1 DEF CacheTypeOK
    <2>2. NextOffset(miss_addr.offset) \in Offsets
        BY <2>1, NextOffsetType
    <2>3. \/ miss_addr' = miss_addr
          \/ miss_addr' = [miss_addr EXCEPT !.offset = NextOffset(@)]
        BY DEF IdleEdge, LoadWait, LoadBeat, WritebackEdge
    <2> QED BY <2>1, <2>2, <2>3
<1>5. /\ wb' \in [tag : AllTags, meta : Meta, wen : BOOLEAN, offset : Offsets]
      /\ wb'.tag = wb.tag /\ wb'.meta = wb.meta
    <2>1. /\ wb \in [tag : AllTags, meta : Meta, wen : BOOLEAN, offset : Offsets]
          /\ miss_addr.offset \in Offsets
        BY <1>1 DEF CacheTypeOK
    <2>2. \/ wb' = wb
          \/ \E b \in BOOLEAN : wb' = [wb EXCEPT !.wen = b]
          \/ \E b \in BOOLEAN : wb' = [wb EXCEPT !.wen = b, !.offset = miss_addr.offset]
        BY DEF IdleEdge, LoadWait, LoadBeat, WritebackEdge
    <2> QED BY <2>1, <2>2
<1>6. creq_addr' \in [tag : AllTags, index : Sets, offset : Offsets]
    <2>1. /\ creq_addr \in [tag : AllTags, index : Sets, offset : Offsets]
          /\ wb.tag \in AllTags
        BY <1>1 DEF CacheTypeOK
    <2>2. creq_addr' = creq_addr \/ creq_addr' = [creq_addr EXCEPT !.tag = wb.tag]
        BY DEF IdleEdge, LoadWait, LoadBeat, WritebackEdge
    <2> QED BY <2>1, <2>2
<1>7. miss_data_loaded' \in SUBSET Offsets
    BY <1>1 DEF CacheTypeOK, IdleEdge, LoadWait, LoadBeat, WritebackEdge
<1>8. /\ miss_state' \in {"IDLE", "LOAD", "WRITEBACK"}
      /\ miss_state' # "IDLE" => miss_state # "IDLE"
      /\ miss_state' = "LOAD" => miss_state = "LOAD" /\ creq_addr' = creq_addr
    BY <1>1 DEF CacheTypeOK, IdleEdge, LoadWait, LoadBeat, WritebackEdge, Responses
<1>9. CacheTypeOK'
    BY <1>2, <1>3, <1>4, <1>5, <1>6, <1>7, <1>8, <1>1 DEF CacheTypeOK
<1>10. HitIsOneHot' /\ NoUncachedLine'
    BY <1>2 DEF CacheInv, HitIsOneHot, NoUncachedLine
<1>11. EvictedIsNowhere'
    BY <1>1, <1>2, <1>4, <1>5, <1>8 DEF CacheInv, EvictedIsNowhere, CacheTypeOK
<1>12. FillOwnsItsWay'
    BY <1>1, <1>2, <1>4, <1>8 DEF CacheInv, FillOwnsItsWay, CacheTypeOK
<1> QED BY <1>9, <1>10, <1>11, <1>12 DEF CacheInv

\* A miss: the victim's way takes the new tag, which no other way has.
LEMMA StartMissInv ==
    ASSUME CacheInv, NEW r \in Requests, NEW c \in Responses, StartMiss(r, c)
    PROVE  CacheInv'
<1>1. CacheTypeOK /\ ToMiss(r, c) /\ Datapath(r, c)
    BY DEF CacheInv, StartMiss
<1>2. PICK v \in Victims(r.index) :
        /\ metadata' = [metadata EXCEPT ![r.index][v] = [valid |-> TRUE, dirty |-> FALSE]]
        /\ tags' = [tags EXCEPT ![r.index][v] = r.tag]
        /\ miss_addr' = [idx |-> v, index |-> r.index, offset |-> r.offset]
        /\ wb' = [wb EXCEPT !.tag = tags[r.index][v],
                            !.meta = metadata[r.index][v],
                            !.wen = wb.wen /\ miss_state = "IDLE"]
    BY DEF StartMiss
<1> DEFINE i == r.index
<1>3. /\ i \in Sets /\ r.offset \in Offsets /\ r.tag \in AllTags
      /\ r.tag # IOTag
    BY <1>1 DEF Requests, ToMiss, Uncached
<1>4. v \in Ways
    BY <1>3, VictimType
<1>5. \A w \in Ways : metadata[i][w].valid => tags[i][w] # r.tag
    BY <1>1 DEF ToMiss, IsHit, HitWays
<1>6. /\ miss_state' = "LOAD"
      /\ creq_addr' = [tag |-> r.tag, index |-> i, offset |-> r.offset]
      /\ miss_data_loaded' = {}
    BY DEF StartMiss
<1> HIDE DEF i
<1>7. /\ metadata' \in [Sets -> [Ways -> Meta]]
      /\ \A s \in Sets, w \in Ways :
            metadata'[s][w] = IF s = i /\ w = v THEN [valid |-> TRUE, dirty |-> FALSE]
                                                ELSE metadata[s][w]
    <2>1. metadata \in [Sets -> [Ways -> Meta]]
        BY <1>1 DEF CacheTypeOK
    <2>2. metadata' = [metadata EXCEPT ![i] = [@ EXCEPT ![v] = [valid |-> TRUE, dirty |-> FALSE]]]
        BY <1>2 DEF i
    <2> QED BY <2>1, <2>2, <1>3, <1>4 DEF Meta
<1>8. /\ tags' \in [Sets -> [Ways -> AllTags]]
      /\ \A s \in Sets, w \in Ways :
            tags'[s][w] = IF s = i /\ w = v THEN r.tag ELSE tags[s][w]
    <2>1. tags \in [Sets -> [Ways -> AllTags]]
        BY <1>1 DEF CacheTypeOK
    <2>2. tags' = [tags EXCEPT ![i] = [@ EXCEPT ![v] = r.tag]]
        BY <1>2 DEF i
    <2> QED BY <2>1, <2>2, <1>3, <1>4
<1>9. /\ wb' \in [tag : AllTags, meta : Meta, wen : BOOLEAN, offset : Offsets]
      /\ wb'.tag = tags[i][v] /\ wb'.meta = metadata[i][v]
    <2>1. /\ wb \in [tag : AllTags, meta : Meta, wen : BOOLEAN, offset : Offsets]
          /\ tags[i][v] \in AllTags /\ metadata[i][v] \in Meta
        BY <1>1, <1>3, <1>4 DEF CacheTypeOK
    <2>2. \E b \in BOOLEAN :
            wb' = [wb EXCEPT !.tag = tags[i][v], !.meta = metadata[i][v], !.wen = b]
        BY <1>2, <2>1 DEF i
    <2> QED BY <2>1, <2>2
<1>10. /\ miss_addr' \in [idx : Ways, index : Sets, offset : Offsets]
       /\ miss_addr'.idx = v /\ miss_addr'.index = i
    BY <1>2, <1>3, <1>4 DEF i
<1>11. CacheTypeOK'
    BY <1>1, <1>3, <1>6, <1>7, <1>8, <1>9, <1>10, DatapathType DEF CacheTypeOK
<1>12. HitIsOneHot'
    <2> SUFFICES ASSUME NEW s \in Sets, NEW u \in Ways, NEW w \in Ways,
                        metadata'[s][u].valid, metadata'[s][w].valid,
                        tags'[s][u] = tags'[s][w]
                 PROVE  u = w
        BY DEF HitIsOneHot
    <2>1. HitIsOneHot
        BY DEF CacheInv
    <2> QED BY <1>5, <1>7, <1>8, <2>1 DEF HitIsOneHot
<1>13. EvictedIsNowhere'
    <2> SUFFICES ASSUME metadata[i][v].valid, NEW w \in Ways, metadata'[i][w].valid
                 PROVE  tags'[i][w] # tags[i][v]
        BY <1>9, <1>10 DEF EvictedIsNowhere
    <2>1. CASE w = v
        BY <2>1, <1>3, <1>4, <1>5, <1>8
    <2>2. CASE w # v
        BY <2>2, <1>3, <1>4, <1>7, <1>8 DEF CacheInv, HitIsOneHot
    <2> QED BY <2>1, <2>2
<1>14. NoUncachedLine'
    BY <1>3, <1>7, <1>8 DEF CacheInv, NoUncachedLine
<1>15. FillOwnsItsWay'
    BY <1>3, <1>4, <1>6, <1>7, <1>8, <1>10 DEF FillOwnsItsWay
<1> QED BY <1>11, <1>12, <1>13, <1>14, <1>15 DEF CacheInv

\* Every clock edge preserves the invariant.
LEMMA EdgeInv ==
    ASSUME CacheInv, NEW r \in Requests, NEW c \in Responses, Edge(r, c)
    PROVE  CacheInv'
BY NoMissInv, StartMissInv DEF Edge

\* Nothing moves when the registers keep their values.
LEMMA StutterInv == ASSUME CacheInv, UNCHANGED cacheVars PROVE CacheInv'
BY DEF CacheInv, cacheVars, CacheTypeOK, HitIsOneHot, EvictedIsNowhere,
       NoUncachedLine, FillOwnsItsWay

\* The cache keeps its types, never holds a line in two ways, never holds a
\* line it has still to write back, and never an uncached one, whatever the
\* client asks and whenever the bus answers.
THEOREM CacheCorrect == CacheSpec => []CacheInv
<1>1. CacheInit => CacheInv
    BY CacheInitInv
<1>2. CacheInv /\ [CacheNext]_cacheVars => CacheInv'
    BY EdgeInv, StutterInv DEF CacheNext
<1> QED BY <1>1, <1>2, PTL DEF CacheSpec

\* In particular the select encoder of the hit way is always one-hot.
THEOREM CacheHitIsOneHot == CacheSpec => []HitIsOneHot
<1>1. CacheInv => HitIsOneHot
    BY DEF CacheInv
<1> QED BY <1>1, CacheCorrect, PTL

\* And an evicted line is out of every way until it is back in memory.
THEOREM CacheEvictedIsNowhere == CacheSpec => []EvictedIsNowhere
<1>1. CacheInv => EvictedIsNowhere
    BY DEF CacheInv
<1> QED BY <1>1, CacheCorrect, PTL

-----------------------------------------------------------------------------
(* The words.                                                              *)


\* The word has been transferred: it lies between the first word of the line
\* on the bus and the next one, around the end of the line.
Behind(o) ==
    IF creq_addr.offset <= miss_addr.offset
    THEN creq_addr.offset <= o /\ o < miss_addr.offset
    ELSE creq_addr.offset <= o \/ o < miss_addr.offset

\* The word of a line that is in a way may be used.
Present(t, s, o) ==
    miss_state # "IDLE" /\ t = creq_addr.tag /\ s = miss_addr.index
        => o \in miss_data_loaded

\* A clean line equals the memory m.
CleanOver(m) ==
    \A s \in Sets, w \in Ways, o \in Offsets :
        metadata[s][w].valid /\ ~metadata[s][w].dirty /\ Present(tags[s][w], s, o)
            => data[s][w][o] = m[<<tags[s][w], s, o>>]

\* The words filled are those transferred.
Filled == miss_state = "LOAD" => \A o \in Offsets : o \in miss_data_loaded <=> Behind(o)

\* What is written back is a dirty line, and memory has the words transferred.
\* The word that is still to enter the write buffer is not the next one.
WrittenTo(m) ==
    miss_state = "WRITEBACK" =>
        /\ creq_addr.tag = wb.tag /\ wb.meta.valid /\ wb.meta.dirty
        /\ miss_data_loaded = Offsets
        /\ wb.wen => wb.offset # miss_addr.offset
        /\ \A o \in Offsets : Behind(o) => m[<<wb.tag, miss_addr.index, o>>] = EvictedWord(o)

\* The line on the bus and the line evicted are of the same set, and cached.
OneSet ==
    miss_state # "IDLE" => /\ creq_addr.index = miss_addr.index
                           /\ wb.meta.valid => wb.tag # IOTag

DataInv(m) == CleanOver(m) /\ Filled /\ WrittenTo(m) /\ OneSet

\* What the bus owes the cache at an edge, and what the edge makes of the
\* memory m: a fill carries its words, a write-back stores those of the write
\* buffer, the last beat is the last, an idle cache leaves cached words alone.
BusMoves(m, n, c) ==
    /\ miss_state = "LOAD" /\ c.ready =>
         c.data = m[<<creq_addr.tag, creq_addr.index, miss_addr.offset>>]
    /\ miss_state = "WRITEBACK" /\ c.ready =>
         n = [m EXCEPT ![<<creq_addr.tag, creq_addr.index, miss_addr.offset>>] =
                           writebuffer[miss_addr.offset]]
    /\ miss_state = "LOAD" \/ (miss_state = "WRITEBACK" /\ ~c.ready) => n = m
    /\ miss_state = "IDLE" =>
         \A t \in Tags, s \in Sets, o \in Offsets : n[<<t, s, o>>] = m[<<t, s, o>>]
    /\ miss_state # "IDLE" /\ c.ready =>
         (c.last <=> NextOffset(miss_addr.offset) = creq_addr.offset)

-----------------------------------------------------------------------------
(* Operators.                                                              *)

LEMMA BehindType ==
    ASSUME CacheTypeOK
    PROVE  /\ miss_addr.offset \in Offsets /\ creq_addr.offset \in Offsets
           /\ miss_addr.idx \in Ways /\ miss_addr.index \in Sets
           /\ creq_addr.tag \in AllTags /\ wb.tag \in AllTags
           /\ wb.offset \in Offsets /\ wb.wen \in BOOLEAN
           /\ wb.meta.valid \in BOOLEAN /\ wb.meta.dirty \in BOOLEAN
BY DEF CacheTypeOK, Meta

\* The next word is not behind; after the last one all words are.
LEMMA BehindNext ==
    ASSUME CacheTypeOK, NEW o \in Offsets
    PROVE  /\ ~Behind(miss_addr.offset)
           /\ NextOffset(miss_addr.offset) = creq_addr.offset
                => Behind(o) \/ o = miss_addr.offset
           /\ miss_addr.offset = creq_addr.offset => ~Behind(o)
BY BehindType, DCacheAssumption DEF Behind, Offsets, NextOffset

\* A beat that is not the last puts the next word behind.
LEMMA BehindBeat ==
    ASSUME CacheTypeOK, NEW o \in Offsets,
           miss_addr'.offset = NextOffset(miss_addr.offset),
           creq_addr'.offset = creq_addr.offset,
           NextOffset(miss_addr.offset) # creq_addr.offset
    PROVE  Behind(o)' <=> Behind(o) \/ o = miss_addr.offset
BY BehindType, DCacheAssumption DEF Behind, Offsets, NextOffset

\* Writing one word of memory.
LEMMA StoreWord ==
    ASSUME NEW m \in [Addrs -> Values], NEW v,
           NEW T \in AllTags, NEW S \in Sets, NEW O \in Offsets,
           NEW t \in AllTags, NEW s \in Sets, NEW o \in Offsets,
           NEW n, n = [m EXCEPT ![<<T, S, O>>] = v]
    PROVE  n[<<t, s, o>>] = IF t = T /\ s = S /\ o = O THEN v ELSE m[<<t, s, o>>]
<1>1. PICK a : a = <<t, s, o>>
    OBVIOUS
<1>2. PICK b : b = <<T, S, O>>
    OBVIOUS
<1>3. a \in Addrs /\ (a = b <=> t = T /\ s = S /\ o = O)
    BY <1>1, <1>2 DEF Addrs
<1>4. n[a] = IF a = b THEN v ELSE m[a]
    BY <1>2, <1>3
<1> QED BY <1>1, <1>2, <1>3, <1>4

\* The word of a line in a way, and of any other.
WordsAre ==
    \A m \in [Addrs -> Values], t \in AllTags, s \in Sets, o \in Offsets :
        /\ \A w \in Ways :
             metadata[s][w].valid /\ tags[s][w] = t /\ Present(t, s, o)
                => WordOver(m, <<t, s, o>>) = data[s][w][o]
        /\ (\A w \in Ways : ~(metadata[s][w].valid /\ tags[s][w] = t)) \/ ~Present(t, s, o)
                => WordOver(m, <<t, s, o>>) =
                      IF Evicting(t, s) THEN EvictedWord(o) ELSE m[<<t, s, o>>]

LEMMA WordCases == CacheInv => WordsAre
<1> SUFFICES ASSUME CacheInv, NEW m \in [Addrs -> Values],
                    NEW t \in AllTags, NEW s \in Sets, NEW o \in Offsets
             PROVE  /\ \A w \in Ways :
                         metadata[s][w].valid /\ tags[s][w] = t /\ Present(t, s, o)
                            => WordOver(m, <<t, s, o>>) = data[s][w][o]
                    /\ (\A w \in Ways : ~(metadata[s][w].valid /\ tags[s][w] = t))
                          \/ ~Present(t, s, o)
                        => WordOver(m, <<t, s, o>>) =
                              IF Evicting(t, s) THEN EvictedWord(o) ELSE m[<<t, s, o>>]
    BY DEF WordsAre
<1> DEFINE r == [valid |-> TRUE, tag |-> t, index |-> s, offset |-> o]
<1>1. IsLoaded(r) <=> Present(t, s, o)
    BY DEF IsLoaded, InMiss, Present
<1>2. IsHit(r) <=> \E w \in Ways : metadata[s][w].valid /\ tags[s][w] = t
    BY DEF IsHit, HitWays
<1>3. WordOver(m, <<t, s, o>>) =
        IF IsHit(r) /\ IsLoaded(r) THEN data[s][HitWay(r)][o]
        ELSE IF Evicting(t, s) THEN EvictedWord(o) ELSE m[<<t, s, o>>]
    BY DEF WordOver
<1>4. ASSUME NEW w \in Ways, metadata[s][w].valid, tags[s][w] = t
      PROVE  HitWay(r) = w
    <2>1. HitWays(r) = {w}
        BY <1>4 DEF CacheInv, HitIsOneHot, HitWays
    <2>2. HitWay(r) = CHOOSE x \in HitWays(r) : TRUE
        BY <2>1 DEF HitWay, IsHit
    <2> QED BY <2>1, <2>2
<1> QED BY <1>1, <1>2, <1>3, <1>4

\* The same of the state after a step.
LEMMA WordCasesNext == CacheInv' => WordsAre'
BY WordCases, PTL

\* What an edge does to the data RAM: the store that hits, and the beat of a
\* fill, each to its word.
LEMMA DataEffect ==
    ASSUME CacheTypeOK, NEW r \in Requests, NEW c \in Responses, Datapath(r, c),
           NEW s \in Sets, NEW w \in Ways, NEW o \in Offsets
    PROVE  data'[s][w][o] =
             IF /\ miss_state = "LOAD" /\ c.ready
                /\ s = miss_addr.index /\ w = miss_addr.idx /\ o = miss_addr.offset
             THEN c.data
             ELSE IF ToHit(r) /\ r.we /\ s = r.index /\ w = HitWay(r) /\ o = r.offset
             THEN r.data ELSE data[s][w][o]
<1>1. /\ r.index \in Sets /\ r.offset \in Offsets /\ HitWay(r) \in Ways
    BY HitWayType DEF Requests
<1>2. data \in [Sets -> [Ways -> [Offsets -> Values]]]
    BY DEF CacheTypeOK
<1> DEFINE L == LineStore(r, data)
           h == HitWay(r)
<1>3. /\ L \in [Sets -> [Ways -> [Offsets -> Values]]]
      /\ L[s][w][o] = IF ToHit(r) /\ r.we /\ s = r.index /\ w = h /\ o = r.offset
                      THEN r.data ELSE data[s][w][o]
    <2> HIDE DEF h
    <2>1. h \in Ways /\ r.data \in Values
        BY <1>1 DEF h, Requests
    <2>2. L = IF ToHit(r) /\ r.we THEN [data EXCEPT ![r.index][h][r.offset] = r.data] ELSE data
        BY DEF LineStore, h
    <2> QED BY <1>1, <1>2, <2>1, <2>2
<1>4. data' = BeatStore(c, L)
    BY DEF Datapath
<1> HIDE DEF L
<1>5. data'[s][w][o] =
        IF /\ miss_state = "LOAD" /\ c.ready
           /\ s = miss_addr.index /\ w = miss_addr.idx /\ o = miss_addr.offset
        THEN c.data ELSE L[s][w][o]
    BY <1>3, <1>4, BehindType DEF BeatStore
<1> QED BY <1>3, <1>5

-----------------------------------------------------------------------------
(* The edges.                                                              *)

\* What the client sees of an edge: the word a store hits is the stored one,
\* every other cached word is what it was.
Stores(r, t, s, o) == ToHit(r) /\ r.we /\ t = r.tag /\ s = r.index /\ o = r.offset

Kept(r, m, n) ==
    \A t \in Tags, s \in Sets, o \in Offsets :
        WordOver(n, <<t, s, o>>)' =
            IF Stores(r, t, s, o) THEN r.data ELSE WordOver(m, <<t, s, o>>)

\* The way a request hits.
LEMMA HitFacts ==
    ASSUME CacheInv, NEW r \in Requests, ToHit(r)
    PROVE  /\ r.index \in Sets /\ r.offset \in Offsets /\ r.tag \in Tags
           /\ HitWay(r) \in Ways
           /\ metadata[r.index][HitWay(r)].valid
           /\ tags[r.index][HitWay(r)] = r.tag
           /\ Present(r.tag, r.index, r.offset)
<1>1. r.index \in Sets /\ r.offset \in Offsets /\ r.tag \in AllTags
    BY DEF Requests
<1>2. HitWay(r) \in HitWays(r) /\ HitWay(r) \in Ways
    BY HitWayType DEF ToHit
<1>3. metadata[r.index][HitWay(r)].valid /\ tags[r.index][HitWay(r)] = r.tag
    BY <1>2 DEF HitWays
<1>4. Present(r.tag, r.index, r.offset)
    BY DEF ToHit, IsLoaded, InMiss, Present
<1>5. r.tag # IOTag
    BY <1>1, <1>2, <1>3 DEF CacheInv, NoUncachedLine
<1> QED BY <1>1, <1>2, <1>3, <1>4, <1>5 DEF AllTags

\* Without a miss lines stay; the way a store hits becomes dirty.
LEMMA NoMissEffect ==
    ASSUME CacheInv, NEW r \in Requests, NEW c \in Responses, NoMiss(r, c),
           NEW s \in Sets, NEW w \in Ways
    PROVE  /\ tags' = tags
           /\ metadata'[s][w].valid = metadata[s][w].valid
           /\ metadata'[s][w].dirty \in BOOLEAN
           /\ metadata'[s][w].dirty <=>
                 metadata[s][w].dirty \/ (ToHit(r) /\ r.we /\ s = r.index /\ w = HitWay(r))
<1>1. metadata \in [Sets -> [Ways -> Meta]] /\ metadata[s][w] \in Meta
    BY DEF CacheInv, CacheTypeOK
<1>2. CASE ToHit(r) /\ r.we
    <2> DEFINE h == HitWay(r)
    <2>1. r.index \in Sets /\ h \in Ways
        BY <1>2, HitFacts
    <2>2. metadata' = [metadata EXCEPT ![r.index][h].dirty = TRUE]
        BY <1>2 DEF NoMiss
    <2> HIDE DEF h
    <2>3. metadata[r.index][h] \in Meta
        BY <1>1, <2>1
    <2> DEFINE d == [metadata[r.index][h] EXCEPT !.dirty = TRUE]
    <2>4. d.valid = metadata[r.index][h].valid /\ d.dirty = TRUE
        BY <2>3 DEF Meta
    <2>5. metadata' = [metadata EXCEPT ![r.index] = [metadata[r.index] EXCEPT ![h] = d]]
        BY <2>2
    <2> HIDE DEF d
    <2>6. metadata'[s][w] = IF s = r.index /\ w = h THEN d ELSE metadata[s][w]
        BY <1>1, <2>1, <2>5
    <2> QED BY <1>1, <1>2, <2>4, <2>6 DEF NoMiss, Meta, h
<1>3. CASE ~(ToHit(r) /\ r.we)
    BY <1>1, <1>3 DEF NoMiss, Meta
<1> QED BY <1>2, <1>3

\* The evicted word stays what it is on its way into the write buffer.
LEMMA EvictedKept ==
    ASSUME CacheInv, NEW m, DataInv(m), NEW r \in Requests, NEW c \in Responses,
           LoadWait(r, c) \/ LoadBeat(r, c) \/ WritebackEdge(r, c),
           c.ready => (c.last <=> NextOffset(miss_addr.offset) = creq_addr.offset),
           miss_state' # "IDLE", NEW o \in Offsets
    PROVE  EvictedWord(o)' = EvictedWord(o)
<1>1. CacheTypeOK /\ Datapath(r, c) /\ NoMiss(r, c)
    BY DEF CacheInv, LoadWait, LoadBeat, WritebackEdge, NoMiss
<1>2. /\ miss_rdata' = data[miss_addr.index][miss_addr.idx][miss_addr.offset]
      /\ writebuffer' = IF wb.wen THEN [writebuffer EXCEPT ![wb.offset] = miss_rdata]
                        ELSE writebuffer
      /\ writebuffer \in [Offsets -> Values]
    BY <1>1 DEF Datapath, CacheTypeOK
<1>3. writebuffer'[o] = IF wb.wen /\ wb.offset = o THEN miss_rdata ELSE writebuffer[o]
    BY <1>2
<1>4. /\ miss_addr'.index = miss_addr.index /\ miss_addr'.idx = miss_addr.idx
    BY <1>1 DEF LoadWait, LoadBeat, WritebackEdge, CacheTypeOK
<1>5. ASSUME miss_state = "LOAD", o \notin miss_data_loaded, o # miss_addr.offset \/ ~c.ready
      PROVE  data'[miss_addr.index][miss_addr.idx][o] = data[miss_addr.index][miss_addr.idx][o]
    <2>1. miss_addr.index \in Sets /\ miss_addr.idx \in Ways
        BY <1>1, BehindType
    <2>2. ToHit(r) /\ r.index = miss_addr.index /\ HitWay(r) = miss_addr.idx
            => r.offset # o
        BY <1>5, HitFacts DEF CacheInv, FillOwnsItsWay, Present
    <2> QED BY <1>1, <1>5, <2>1, <2>2, DataEffect
<1>6. CASE LoadWait(r, c)
    <2>1. /\ miss_state = "LOAD" /\ miss_state' = "LOAD" /\ ~c.ready
          /\ miss_data_loaded' = miss_data_loaded /\ wb'.wen = FALSE
        BY <1>1, <1>6 DEF LoadWait, CacheTypeOK
    <2> QED BY <1>3, <1>4, <1>5, <2>1 DEF EvictedWord
<1>7. CASE LoadBeat(r, c)
    <2>1. /\ miss_state = "LOAD" /\ miss_state' \in {"LOAD", "WRITEBACK"}
          /\ miss_data_loaded' = miss_data_loaded \union {miss_addr.offset}
          /\ wb'.wen = TRUE /\ wb'.offset = miss_addr.offset
        BY <1>1, <1>7 DEF LoadBeat, CacheTypeOK
    <2>2. miss_addr.offset \notin miss_data_loaded
        BY <1>1, <2>1, BehindType, BehindNext DEF DataInv, Filled
    <2>3. CASE o = miss_addr.offset
        BY <1>2, <2>1, <2>2, <2>3 DEF EvictedWord
    <2>4. CASE o # miss_addr.offset /\ o \notin miss_data_loaded
        <3>1. miss_state' = "LOAD"
            <4>1. c.last <=> miss_state' = "WRITEBACK"
                BY <1>7, <2>1 DEF LoadBeat
            <4> QED BY <1>1, <1>7, <2>1, <2>4, BehindNext DEF LoadBeat, DataInv, Filled
        <3> QED BY <1>4, <1>5, <2>1, <2>4, <3>1 DEF EvictedWord
    <2>5. CASE o # miss_addr.offset /\ o \in miss_data_loaded
        BY <1>3, <2>1, <2>5 DEF EvictedWord
    <2> QED BY <2>3, <2>4, <2>5
<1>8. CASE WritebackEdge(r, c)
    <2>1. miss_state = "WRITEBACK" /\ miss_state' = "WRITEBACK" /\ wb'.wen = FALSE
        BY <1>1, <1>8 DEF WritebackEdge, CacheTypeOK
    <2> QED BY <1>3, <2>1 DEF EvictedWord
<1> QED BY <1>6, <1>7, <1>8

\* A word that is in a way, and may be used, before and after an edge.
LEMMA HitWordKept ==
    ASSUME CacheInv, NEW r \in Requests, NEW c \in Responses, NoMiss(r, c),
           NEW m, DataInv(m),
           NEW s \in Sets, NEW w \in Ways, NEW o \in Offsets,
           metadata[s][w].valid, Present(tags[s][w], s, o)
    PROVE  data'[s][w][o] = IF Stores(r, tags[s][w], s, o) THEN r.data ELSE data[s][w][o]
<1>1. CacheTypeOK /\ Datapath(r, c)
    BY DEF CacheInv, NoMiss
<1>2. ToHit(r) /\ s = r.index => (w = HitWay(r) <=> tags[s][w] = r.tag)
    BY HitFacts DEF CacheInv, HitIsOneHot
<1>3. ~(/\ miss_state = "LOAD" /\ s = miss_addr.index /\ w = miss_addr.idx
        /\ o = miss_addr.offset)
    BY <1>1, BehindType, BehindNext DEF CacheInv, FillOwnsItsWay, DataInv, Filled, Present
<1> QED BY <1>1, <1>2, <1>3, DataEffect DEF Stores

\* A word of a line that is in no way.
LEMMA AwayWordKept ==
    ASSUME CacheInv, CacheInv', NEW r \in Requests, NEW c \in Responses, NoMiss(r, c),
           NEW m \in [Addrs -> Values], NEW n \in [Addrs -> Values],
           NEW t \in Tags, NEW s \in Sets, NEW o \in Offsets,
           \A w \in Ways : ~(metadata[s][w].valid /\ tags[s][w] = t),
           (IF Evicting(t, s)' THEN EvictedWord(o)' ELSE n[<<t, s, o>>])
               = (IF Evicting(t, s) THEN EvictedWord(o) ELSE m[<<t, s, o>>])
    PROVE  WordOver(n, <<t, s, o>>)' =
               IF Stores(r, t, s, o) THEN r.data ELSE WordOver(m, <<t, s, o>>)
<1>1. t \in AllTags
    BY DEF AllTags
<1>2. \A w \in Ways : ~(metadata'[s][w].valid /\ tags'[s][w] = t)
    BY NoMissEffect
<1>3. WordOver(m, <<t, s, o>>) = IF Evicting(t, s) THEN EvictedWord(o) ELSE m[<<t, s, o>>]
    BY <1>1, WordCases DEF WordsAre
<1>4. WordOver(n, <<t, s, o>>)' =
        IF Evicting(t, s)' THEN EvictedWord(o)' ELSE n[<<t, s, o>>]
    BY <1>1, <1>2, WordCasesNext DEF WordsAre
<1>5. ~Stores(r, t, s, o)
    BY HitFacts DEF Stores
<1> QED BY <1>3, <1>4, <1>5

LEMMA WayWordKept ==
    ASSUME CacheInv, CacheInv', NEW r \in Requests, NEW c \in Responses, NoMiss(r, c),
           NEW m \in [Addrs -> Values], NEW n \in [Addrs -> Values], DataInv(m),
           NEW t \in Tags, NEW s \in Sets, NEW w \in Ways, NEW o \in Offsets,
           metadata[s][w].valid, tags[s][w] = t, Present(t, s, o), Present(t, s, o)'
    PROVE  WordOver(n, <<t, s, o>>)' =
               IF Stores(r, t, s, o) THEN r.data ELSE WordOver(m, <<t, s, o>>)
<1>1. t \in AllTags
    BY DEF AllTags
<1>2. tags'[s][w] = t /\ metadata'[s][w].valid
    BY NoMissEffect
<1>3. WordOver(m, <<t, s, o>>) = data[s][w][o]
    BY <1>1, WordCases DEF WordsAre
<1>4. WordOver(n, <<t, s, o>>)' = data'[s][w][o]
    BY <1>1, <1>2, WordCasesNext DEF WordsAre
<1> QED BY <1>3, <1>4, HitWordKept

\* A line that stays clean keeps its words.
LEMMA CleanWordKept ==
    ASSUME CacheInv, NEW r \in Requests, NEW c \in Responses, NoMiss(r, c),
           NEW m, DataInv(m), NEW s \in Sets, NEW w \in Ways, NEW o \in Offsets,
           metadata'[s][w].valid, ~metadata'[s][w].dirty, Present(tags[s][w], s, o)
    PROVE  data'[s][w][o] = m[<<tags[s][w], s, o>>]
<1>1. /\ metadata[s][w].valid /\ ~metadata[s][w].dirty
      /\ ~(ToHit(r) /\ r.we /\ s = r.index /\ w = HitWay(r))
    BY NoMissEffect
<1>2. ~Stores(r, tags[s][w], s, o)
    BY <1>1, HitFacts DEF Stores, CacheInv, HitIsOneHot
<1>3. data[s][w][o] = m[<<tags[s][w], s, o>>]
    BY <1>1 DEF DataInv, CleanOver
<1> QED BY <1>1, <1>2, <1>3, HitWordKept

\* An idle cache.
LEMMA IdleEdgeData ==
    ASSUME CacheInv, CacheInv', NEW r \in Requests, NEW c \in Responses, IdleEdge(r, c),
           NEW m \in [Addrs -> Values], NEW n \in [Addrs -> Values],
           DataInv(m), BusMoves(m, n, c)
    PROVE  DataInv(n)' /\ Kept(r, m, n)
<1>1. NoMiss(r, c) /\ miss_state = "IDLE" /\ miss_state' = "IDLE"
    BY DEF IdleEdge
<1>2. \A t \in Tags, s \in Sets, o \in Offsets : n[<<t, s, o>>] = m[<<t, s, o>>]
    BY <1>1 DEF BusMoves
<1>3. Filled' /\ WrittenTo(n)' /\ OneSet'
    BY <1>1 DEF Filled, WrittenTo, OneSet
<1>4. CleanOver(n)'
    <2> SUFFICES ASSUME NEW s \in Sets, NEW w \in Ways, NEW o \in Offsets,
                        metadata'[s][w].valid, ~metadata'[s][w].dirty
                 PROVE  data'[s][w][o] = n[<<tags'[s][w], s, o>>]
        BY DEF CleanOver
    <2>1. tags' = tags /\ tags'[s][w] \in Tags
        BY <1>1, NoMissEffect DEF CacheInv, NoUncachedLine, CacheTypeOK, AllTags
    <2>2. data'[s][w][o] = m[<<tags[s][w], s, o>>]
        BY <1>1, CleanWordKept DEF Present
    <2> QED BY <1>2, <2>1, <2>2
<1>5. Kept(r, m, n)
    <2> SUFFICES ASSUME NEW t \in Tags, NEW s \in Sets, NEW o \in Offsets
                 PROVE  WordOver(n, <<t, s, o>>)' =
                           IF Stores(r, t, s, o) THEN r.data ELSE WordOver(m, <<t, s, o>>)
        BY DEF Kept
    <2>1. CASE \E w \in Ways : metadata[s][w].valid /\ tags[s][w] = t
        BY <1>1, <2>1, WayWordKept DEF Present
    <2>2. CASE \A w \in Ways : ~(metadata[s][w].valid /\ tags[s][w] = t)
        BY <1>1, <1>2, <2>2, AwayWordKept DEF Evicting
    <2> QED BY <2>1, <2>2
<1> QED BY <1>3, <1>4, <1>5 DEF DataInv

\* A fill that waits for its next word.
LEMMA LoadWaitData ==
    ASSUME CacheInv, CacheInv', NEW r \in Requests, NEW c \in Responses, LoadWait(r, c),
           NEW m \in [Addrs -> Values], NEW n \in [Addrs -> Values],
           DataInv(m), BusMoves(m, n, c)
    PROVE  DataInv(n)' /\ Kept(r, m, n)
<1>1. /\ NoMiss(r, c) /\ miss_state = "LOAD" /\ miss_state' = "LOAD" /\ ~c.ready
      /\ miss_addr' = miss_addr /\ creq_addr' = creq_addr
      /\ miss_data_loaded' = miss_data_loaded
      /\ wb'.tag = wb.tag /\ wb'.meta = wb.meta
    BY DEF LoadWait, CacheInv, CacheTypeOK
<1>2. n = m
    BY <1>1 DEF BusMoves
<1>3. Filled' /\ WrittenTo(n)' /\ OneSet'
    BY <1>1 DEF DataInv, Filled, WrittenTo, OneSet, Behind
<1>4. \A t, s, o : Present(t, s, o)' <=> Present(t, s, o)
    BY <1>1 DEF Present
<1>5. CleanOver(n)'
    <2> SUFFICES ASSUME NEW s \in Sets, NEW w \in Ways, NEW o \in Offsets,
                        metadata'[s][w].valid, ~metadata'[s][w].dirty,
                        Present(tags[s][w], s, o)'
                 PROVE  data'[s][w][o] = n[<<tags'[s][w], s, o>>]
        BY DEF CleanOver
    <2>1. tags' = tags
        BY <1>1, NoMissEffect
    <2>2. Present(tags[s][w], s, o)
        BY <1>1, <2>1 DEF Present
    <2> QED BY <1>1, <1>2, <2>1, <2>2, CleanWordKept
<1>6. Kept(r, m, n)
    <2> SUFFICES ASSUME NEW t \in Tags, NEW s \in Sets, NEW o \in Offsets
                 PROVE  WordOver(n, <<t, s, o>>)' =
                           IF Stores(r, t, s, o) THEN r.data ELSE WordOver(m, <<t, s, o>>)
        BY DEF Kept
    <2>1. /\ Evicting(t, s)' <=> Evicting(t, s)
          /\ Evicting(t, s) => EvictedWord(o)' = EvictedWord(o)
        BY <1>1, EvictedKept DEF Evicting
    <2>2. CASE \A w \in Ways : ~(metadata[s][w].valid /\ tags[s][w] = t)
        BY <1>1, <1>2, <2>1, <2>2, AwayWordKept
    <2>3. ASSUME NEW w \in Ways, metadata[s][w].valid, tags[s][w] = t, Present(t, s, o)
          PROVE  WordOver(n, <<t, s, o>>)' =
                    IF Stores(r, t, s, o) THEN r.data ELSE WordOver(m, <<t, s, o>>)
        BY <1>1, <1>4, <2>3, WayWordKept
    <2>4. CASE ~Present(t, s, o)
        <3>1. t \in AllTags /\ ~(Present(t, s, o)') /\ ~Stores(r, t, s, o)
            BY <1>4, <2>4, HitFacts DEF AllTags, Stores
        <3> QED BY <1>2, <2>1, <2>4, <3>1, WordCases, WordCasesNext DEF WordsAre
    <2> QED BY <2>2, <2>3, <2>4
<1> QED BY <1>3, <1>5, <1>6 DEF DataInv

\* A word of a fill arrives.
LEMMA LoadBeatData ==
    ASSUME CacheInv, CacheInv', NEW r \in Requests, NEW c \in Responses, LoadBeat(r, c),
           NEW m \in [Addrs -> Values], NEW n \in [Addrs -> Values],
           DataInv(m), BusMoves(m, n, c)
    PROVE  DataInv(n)' /\ Kept(r, m, n)
<1> DEFINE k == miss_addr.offset
           i == miss_addr.index
<1>1. /\ CacheTypeOK /\ NoMiss(r, c) /\ Datapath(r, c)
      /\ miss_state = "LOAD" /\ c.ready
      /\ miss_addr'.index = i /\ miss_addr'.offset = NextOffset(k)
      /\ miss_data_loaded' = miss_data_loaded \union {k}
      /\ creq_addr'.index = creq_addr.index /\ creq_addr'.offset = creq_addr.offset
      /\ wb'.tag = wb.tag /\ wb'.meta = wb.meta /\ wb'.wen = TRUE /\ wb'.offset = k
    BY DEF LoadBeat, NoMiss, CacheInv, CacheTypeOK
<1>2. /\ n = m /\ creq_addr.index = i
      /\ c.data = m[<<creq_addr.tag, i, k>>]
      /\ c.last <=> NextOffset(k) = creq_addr.offset
    BY <1>1 DEF BusMoves, DataInv, OneSet
<1>3. /\ ~c.last => miss_state' = "LOAD" /\ creq_addr' = creq_addr
      /\ c.last => /\ miss_data_loaded' = Offsets /\ creq_addr'.tag = wb.tag
                   /\ miss_state' = IF wb.meta.valid /\ wb.meta.dirty
                                    THEN "WRITEBACK" ELSE "IDLE"
    <2>1. c.last => \A o \in Offsets : o \in miss_data_loaded \/ o = k
        BY <1>1, <1>2, BehindNext DEF DataInv, Filled
    <2> QED BY <1>1, <2>1, BehindType DEF LoadBeat, CacheTypeOK
<1>4. k \in Offsets /\ i \in Sets /\ miss_addr.idx \in Ways /\ k \notin miss_data_loaded
    BY <1>1, BehindType, BehindNext DEF DataInv, Filled
<1>5. Filled' /\ OneSet'
    <2>1. OneSet'
        BY <1>1, <1>2 DEF DataInv, OneSet
    <2>2. Filled'
        <3> SUFFICES ASSUME miss_state' = "LOAD", NEW o \in Offsets
                     PROVE  o \in miss_data_loaded' <=> Behind(o)'
            BY DEF Filled
        <3>1. ~c.last
            BY <1>3
        <3> QED BY <1>1, <1>2, <3>1, BehindBeat DEF DataInv, Filled
    <2> QED BY <2>1, <2>2
<1>6. WrittenTo(n)'
    <2> SUFFICES ASSUME miss_state' = "WRITEBACK" PROVE WrittenTo(n)'
        BY DEF WrittenTo
    <2>1. c.last /\ wb.meta.valid /\ wb.meta.dirty
        BY <1>3, <1>1
    <2>2. \A o \in Offsets : ~(Behind(o)')
        BY <1>1, <1>2, <1>4, <2>1, BehindType, DCacheAssumption DEF Behind, Offsets
    <2>3. wb'.offset # miss_addr'.offset
        BY <1>1, <1>4, DCacheAssumption DEF NextOffset, Offsets
    <2> QED BY <1>1, <1>3, <2>1, <2>2, <2>3 DEF WrittenTo
\* The word that arrives is the one of the line being filled.
<1>7. ASSUME NEW s \in Sets, NEW w \in Ways, NEW o \in Offsets,
             metadata[s][w].valid, ~Present(tags[s][w], s, o)
      PROVE  /\ tags[s][w] = creq_addr.tag /\ s = i /\ w = miss_addr.idx
             /\ Present(tags[s][w], s, o)' => o = k
             /\ o = k => data'[s][w][o] = m[<<tags[s][w], s, o>>] /\ Present(tags[s][w], s, o)'
             /\ ~Evicting(tags[s][w], s)
    <2>1. tags[s][w] = creq_addr.tag /\ s = i /\ o \notin miss_data_loaded
        BY <1>7 DEF Present
    <2>2. w = miss_addr.idx
        BY <1>1, <1>4, <1>7, <2>1 DEF CacheInv, FillOwnsItsWay, HitIsOneHot
    <2>3. o = k => data'[s][w][o] = m[<<tags[s][w], s, o>>]
        BY <1>1, <1>2, <2>1, <2>2, DataEffect
    <2>4. tags' = tags
        BY <1>1, NoMissEffect
    <2>5. Present(tags[s][w], s, o)' => o = k
        BY <1>1, <1>3, <1>4, <2>1, <2>4 DEF Present
    <2>6. o = k => Present(tags[s][w], s, o)'
        BY <1>1, <2>1, <2>4 DEF Present
    <2>7. ~Evicting(tags[s][w], s)
        BY <1>1, <1>7, <2>1 DEF Evicting, CacheInv, EvictedIsNowhere
    <2> QED BY <2>1, <2>2, <2>3, <2>5, <2>6, <2>7
<1>8. CleanOver(n)'
    <2> SUFFICES ASSUME NEW s \in Sets, NEW w \in Ways, NEW o \in Offsets,
                        metadata'[s][w].valid, ~metadata'[s][w].dirty,
                        Present(tags[s][w], s, o)'
                 PROVE  data'[s][w][o] = n[<<tags'[s][w], s, o>>]
        BY DEF CleanOver
    <2>1. tags' = tags /\ metadata[s][w].valid
        BY <1>1, NoMissEffect
    <2>2. CASE Present(tags[s][w], s, o)
        BY <1>1, <1>2, <2>1, <2>2, CleanWordKept
    <2>3. CASE ~Present(tags[s][w], s, o)
        BY <1>2, <1>7, <2>1, <2>3
    <2> QED BY <2>2, <2>3
<1>9. Kept(r, m, n)
    <2> SUFFICES ASSUME NEW t \in Tags, NEW s \in Sets, NEW o \in Offsets
                 PROVE  WordOver(n, <<t, s, o>>)' =
                           IF Stores(r, t, s, o) THEN r.data ELSE WordOver(m, <<t, s, o>>)
        BY DEF Kept
    <2>1. /\ Evicting(t, s)' <=> Evicting(t, s)
          /\ Evicting(t, s) => EvictedWord(o)' = EvictedWord(o)
        <3>1. Evicting(t, s)' <=> Evicting(t, s)
            BY <1>1, <1>3 DEF Evicting
        <3>2. Evicting(t, s) => miss_state' # "IDLE"
            BY <1>1, <1>3 DEF Evicting
        <3> QED BY <1>2, <3>1, <3>2, EvictedKept
    <2>2. CASE \A w \in Ways : ~(metadata[s][w].valid /\ tags[s][w] = t)
        BY <1>1, <1>2, <2>1, <2>2, AwayWordKept
    <2>3. ASSUME NEW w \in Ways, metadata[s][w].valid, tags[s][w] = t, Present(t, s, o)
          PROVE  WordOver(n, <<t, s, o>>)' =
                    IF Stores(r, t, s, o) THEN r.data ELSE WordOver(m, <<t, s, o>>)
        <3>1. Present(t, s, o)'
            BY <1>1, <1>3, <2>3 DEF Present
        <3> QED BY <1>1, <2>3, <3>1, WayWordKept
    <2>4. ASSUME NEW w \in Ways, metadata[s][w].valid, tags[s][w] = t, ~Present(t, s, o)
          PROVE  WordOver(n, <<t, s, o>>)' =
                    IF Stores(r, t, s, o) THEN r.data ELSE WordOver(m, <<t, s, o>>)
        <3>1. t \in AllTags /\ ~Stores(r, t, s, o)
            BY <2>4, HitFacts DEF AllTags, Stores
        <3>2. ~Evicting(t, s) /\ WordOver(m, <<t, s, o>>) = m[<<t, s, o>>]
            BY <1>7, <2>4, <3>1, WordCases DEF WordsAre
        <3>3. tags' = tags /\ metadata'[s][w].valid
            BY <1>1, <2>4, NoMissEffect
        <3>4. Present(t, s, o)' <=> Present(tags[s][w], s, o)'
            BY <2>4, <3>3 DEF Present
        <3>5. CASE o = k
            BY <1>7, <2>4, <3>1, <3>2, <3>3, <3>4, <3>5, WordCasesNext DEF WordsAre
        <3>6. CASE o # k
            BY <1>2, <1>7, <2>1, <2>4, <3>1, <3>2, <3>4, <3>6, WordCasesNext DEF WordsAre
        <3> QED BY <3>5, <3>6
    <2> QED BY <2>2, <2>3, <2>4
<1> QED BY <1>5, <1>6, <1>8, <1>9 DEF DataInv

\* A line is written back word by word; with the last one memory holds it.
LEMMA WritebackEdgeData ==
    ASSUME CacheInv, CacheInv', NEW r \in Requests, NEW c \in Responses,
           WritebackEdge(r, c),
           NEW m \in [Addrs -> Values], NEW n \in [Addrs -> Values],
           DataInv(m), BusMoves(m, n, c)
    PROVE  DataInv(n)' /\ Kept(r, m, n)
<1> DEFINE k == miss_addr.offset
           i == miss_addr.index
<1>1. /\ CacheTypeOK /\ NoMiss(r, c)
      /\ miss_state = "WRITEBACK"
      /\ miss_state' = IF c.last THEN "IDLE" ELSE "WRITEBACK"
      /\ miss_addr'.index = i
      /\ miss_addr'.offset = IF c.ready THEN NextOffset(k) ELSE k
      /\ miss_data_loaded' = miss_data_loaded /\ creq_addr' = creq_addr
      /\ wb'.tag = wb.tag /\ wb'.meta = wb.meta /\ wb'.wen = FALSE
      /\ c.last => c.ready
    BY DEF WritebackEdge, CacheInv, CacheTypeOK, Responses
<1>2. /\ creq_addr.index = i /\ creq_addr.tag = wb.tag /\ miss_data_loaded = Offsets
      /\ wb.meta.valid /\ wb.meta.dirty /\ (wb.wen => wb.offset # k)
    BY <1>1 DEF DataInv, OneSet, WrittenTo
<1>3. k \in Offsets /\ i \in Sets /\ wb.tag \in AllTags
    BY <1>1, BehindType
<1>4. /\ c.ready => n = [m EXCEPT ![<<wb.tag, i, k>>] = EvictedWord(k)]
      /\ ~c.ready => n = m
      /\ c.ready => (c.last <=> NextOffset(k) = creq_addr.offset)
    <2>1. EvictedWord(k) = writebuffer[k]
        BY <1>1, <1>2 DEF EvictedWord
    <2> QED BY <1>1, <1>2, <2>1 DEF BusMoves
<1>5. \A t \in AllTags, s \in Sets, o \in Offsets :
        n[<<t, s, o>>] = IF c.ready /\ t = wb.tag /\ s = i /\ o = k THEN EvictedWord(k)
                         ELSE m[<<t, s, o>>]
    <2> SUFFICES ASSUME NEW t \in AllTags, NEW s \in Sets, NEW o \in Offsets
                 PROVE  n[<<t, s, o>>] = IF c.ready /\ t = wb.tag /\ s = i /\ o = k
                                         THEN EvictedWord(k) ELSE m[<<t, s, o>>]
        OBVIOUS
    <2>1. PICK v : v = EvictedWord(k)
        OBVIOUS
    <2>2. PICK b \in AllTags, u \in Sets, j \in Offsets : b = wb.tag /\ u = i /\ j = k
        BY <1>3
    <2>3. c.ready => n = [m EXCEPT ![<<b, u, j>>] = v]
        BY <1>4, <2>1, <2>2
    <2>4. CASE c.ready
        <3>1. n = [m EXCEPT ![<<b, u, j>>] = v]
            BY <2>3, <2>4
        <3>2. n[<<t, s, o>>] = IF t = b /\ s = u /\ o = j THEN v ELSE m[<<t, s, o>>]
            BY <3>1, StoreWord
        <3> QED BY <2>1, <2>2, <2>4, <3>2
    <2> QED BY <1>4, <2>4
\* Memory has the words behind the next one.
<1>6. \A o \in Offsets : Behind(o) \/ (c.ready /\ o = k)
                           => n[<<wb.tag, i, o>>] = EvictedWord(o)
    BY <1>1, <1>3, <1>5 DEF DataInv, WrittenTo
<1>7. ASSUME NEW s \in Sets, NEW w \in Ways, metadata[s][w].valid
      PROVE  /\ ~(s = i /\ tags[s][w] = wb.tag)
             /\ tags[s][w] \in AllTags
    BY <1>1, <1>2, <1>7 DEF CacheInv, CacheTypeOK, EvictedIsNowhere
<1>8. Filled' /\ OneSet'
    BY <1>1, <1>2 DEF Filled, OneSet, DataInv
<1>9. WrittenTo(n)'
    <2> SUFFICES ASSUME ~c.last PROVE WrittenTo(n)'
        BY <1>1 DEF WrittenTo
    <2>1. miss_state' = "WRITEBACK"
        BY <1>1
    <2>2. ASSUME NEW o \in Offsets, Behind(o)'
          PROVE  n[<<wb.tag, i, o>>] = EvictedWord(o)'
        <3>1. Behind(o) \/ (c.ready /\ o = k)
            <4>1. CASE c.ready
                BY <1>1, <1>4, <2>2, <4>1, BehindBeat
            <4>2. CASE ~c.ready
                BY <1>1, <2>2, <4>2 DEF Behind
            <4> QED BY <4>1, <4>2
        <3>2. EvictedWord(o)' = EvictedWord(o)
            BY <1>4, <2>1, EvictedKept
        <3> QED BY <1>6, <3>1, <3>2
    <2> QED BY <1>1, <1>2, <2>2 DEF WrittenTo
<1>10. CleanOver(n)'
    <2> SUFFICES ASSUME NEW s \in Sets, NEW w \in Ways, NEW o \in Offsets,
                        metadata'[s][w].valid, ~metadata'[s][w].dirty
                 PROVE  data'[s][w][o] = n[<<tags'[s][w], s, o>>]
        BY DEF CleanOver
    <2>1. tags' = tags /\ metadata[s][w].valid
        BY <1>1, NoMissEffect
    <2>2. data'[s][w][o] = m[<<tags[s][w], s, o>>]
        BY <1>1, <1>2, CleanWordKept DEF Present
    <2> QED BY <1>5, <1>7, <2>1, <2>2
<1>11. Kept(r, m, n)
    <2> SUFFICES ASSUME NEW t \in Tags, NEW s \in Sets, NEW o \in Offsets
                 PROVE  WordOver(n, <<t, s, o>>)' =
                           IF Stores(r, t, s, o) THEN r.data ELSE WordOver(m, <<t, s, o>>)
        BY DEF Kept
    <2>1. t \in AllTags
        BY DEF AllTags
    <2>2. CASE \E w \in Ways : metadata[s][w].valid /\ tags[s][w] = t
        BY <1>1, <1>2, <2>2, WayWordKept DEF Present
    <2>3. Evicting(t, s) <=> t = wb.tag /\ s = i
        BY <1>1, <1>2 DEF Evicting
    <2>4. (IF Evicting(t, s)' THEN EvictedWord(o)' ELSE n[<<t, s, o>>])
             = (IF Evicting(t, s) THEN EvictedWord(o) ELSE m[<<t, s, o>>])
        <3>1. CASE ~c.last
            <4>1. Evicting(t, s)' <=> Evicting(t, s)
                BY <1>1, <3>1 DEF Evicting
            <4>2. EvictedWord(o)' = EvictedWord(o)
                BY <1>1, <1>4, <3>1, EvictedKept
            <4> QED BY <1>5, <2>1, <2>3, <4>1, <4>2
        <3>2. CASE c.last
            <4>1. ~(Evicting(t, s)')
                BY <1>1, <3>2 DEF Evicting
            <4>2. Evicting(t, s) => n[<<t, s, o>>] = EvictedWord(o)
                BY <1>1, <1>4, <1>6, <2>3, <3>2, BehindNext
            <4> QED BY <1>5, <2>1, <2>3, <4>1, <4>2
        <3> QED BY <3>1, <3>2
    <2>5. CASE \A w \in Ways : ~(metadata[s][w].valid /\ tags[s][w] = t)
        BY <1>1, <2>4, <2>5, AwayWordKept
    <2> QED BY <2>2, <2>5
<1> QED BY <1>8, <1>9, <1>10, <1>11 DEF DataInv

\* When a miss can start, memory has the words of every line in no way, and of
\* every clean one.
LEMMA BeforeMiss ==
    ASSUME CacheInv, NEW r \in Requests, NEW c \in Responses, ToMiss(r, c),
           NEW m \in [Addrs -> Values], NEW n \in [Addrs -> Values],
           DataInv(m), BusMoves(m, n, c),
           NEW t \in Tags, NEW s \in Sets, NEW o \in Offsets
    PROVE  /\ Present(t, s, o)
           /\ (\A w \in Ways : ~(metadata[s][w].valid /\ tags[s][w] = t))
                => n[<<t, s, o>>] = WordOver(m, <<t, s, o>>)
           /\ \A w \in Ways :
                metadata[s][w].valid /\ tags[s][w] = t /\ ~metadata[s][w].dirty
                   => n[<<t, s, o>>] = data[s][w][o]
<1>1. t \in AllTags /\ CacheTypeOK
    BY DEF AllTags, CacheInv
<1>2. CASE miss_state = "IDLE"
    <2>1. Present(t, s, o) /\ ~Evicting(t, s) /\ n[<<t, s, o>>] = m[<<t, s, o>>]
        BY <1>2 DEF Present, Evicting, BusMoves
    <2> QED BY <1>1, <2>1, WordCases DEF WordsAre, DataInv, CleanOver
<1>3. CASE miss_state = "WRITEBACK" /\ c.last
    <2> DEFINE k == miss_addr.offset
               i == miss_addr.index
    <2>1. /\ creq_addr.tag = wb.tag /\ wb.meta.valid /\ wb.meta.dirty /\ creq_addr.index = i
          /\ miss_data_loaded = Offsets /\ (wb.wen => wb.offset # k)
          /\ \A j \in Offsets : Behind(j) => m[<<wb.tag, i, j>>] = EvictedWord(j)
        BY <1>3 DEF DataInv, WrittenTo, OneSet
    <2>2. c.ready /\ NextOffset(k) = creq_addr.offset
        BY <1>3 DEF BusMoves, Responses
    <2>3. Behind(o) \/ o = k
        BY <1>1, <2>2, BehindNext
    <2>4. n[<<t, s, o>>] = IF t = wb.tag /\ s = i /\ o = k THEN EvictedWord(k)
                           ELSE m[<<t, s, o>>]
        <3>1. PICK b \in AllTags, u \in Sets, j \in Offsets : b = wb.tag /\ u = i /\ j = k
            BY <1>1, BehindType
        <3>2. PICK v : v = EvictedWord(k)
            OBVIOUS
        <3>3. v = writebuffer[k]
            BY <1>3, <2>1, <3>2 DEF EvictedWord
        <3>4. n = [m EXCEPT ![<<b, u, j>>] = v]
            BY <1>3, <2>1, <2>2, <3>1, <3>3 DEF BusMoves
        <3>5. n[<<t, s, o>>] = IF t = b /\ s = u /\ o = j THEN v ELSE m[<<t, s, o>>]
            BY <1>1, <3>4, StoreWord
        <3> QED BY <3>1, <3>2, <3>5
    <2>5. n[<<t, s, o>>] = IF Evicting(t, s) THEN EvictedWord(o) ELSE m[<<t, s, o>>]
        BY <1>3, <2>1, <2>3, <2>4 DEF Evicting
    <2>6. Present(t, s, o)
        BY <2>1 DEF Present
    <2>7. \A w \in Ways : metadata[s][w].valid /\ tags[s][w] = t => ~Evicting(t, s)
        BY <1>3, <2>1 DEF Evicting, CacheInv, EvictedIsNowhere
    <2> QED BY <1>1, <2>5, <2>6, <2>7, WordCases DEF WordsAre, DataInv, CleanOver
<1> QED BY <1>2, <1>3 DEF ToMiss

\* A miss: the victim's words go on their way, those of the new line are
\* still the memory's.
LEMMA StartMissData ==
    ASSUME CacheInv, CacheInv', NEW r \in Requests, NEW c \in Responses, StartMiss(r, c),
           NEW m \in [Addrs -> Values], NEW n \in [Addrs -> Values],
           DataInv(m), BusMoves(m, n, c)
    PROVE  DataInv(n)' /\ Kept(r, m, n)
<1> DEFINE i == r.index
<1>1. /\ CacheTypeOK /\ ToMiss(r, c) /\ Datapath(r, c) /\ ~ToHit(r)
      /\ miss_state # "LOAD" /\ miss_state' = "LOAD" /\ miss_data_loaded' = {}
      /\ creq_addr' = [tag |-> r.tag, index |-> i, offset |-> r.offset]
    BY DEF StartMiss, CacheInv, ToMiss, ToHit
<1>2. /\ i \in Sets /\ r.offset \in Offsets /\ r.tag \in Tags /\ r.tag \in AllTags
      /\ \A w \in Ways : ~(metadata[i][w].valid /\ tags[i][w] = r.tag)
    BY <1>1 DEF Requests, ToMiss, Uncached, AllTags, IsHit, HitWays
<1>3. PICK v \in Ways :
        /\ metadata' = [metadata EXCEPT ![i][v] = [valid |-> TRUE, dirty |-> FALSE]]
        /\ tags' = [tags EXCEPT ![i][v] = r.tag]
        /\ miss_addr' = [idx |-> v, index |-> i, offset |-> r.offset]
        /\ wb'.tag = tags[i][v] /\ wb'.meta = metadata[i][v]
    BY <1>1, <1>2, VictimType DEF StartMiss, CacheTypeOK
<1>4. \A s \in Sets, w \in Ways :
        /\ metadata'[s][w] = IF s = i /\ w = v THEN [valid |-> TRUE, dirty |-> FALSE]
                                                ELSE metadata[s][w]
        /\ tags'[s][w] = IF s = i /\ w = v THEN r.tag ELSE tags[s][w]
    BY <1>1, <1>2, <1>3 DEF CacheTypeOK
<1>5. \A s \in Sets, w \in Ways, o \in Offsets : data'[s][w][o] = data[s][w][o]
    BY <1>1, DataEffect
<1>6. \A s \in Sets, w \in Ways : metadata[s][w].valid => tags[s][w] \in Tags
    BY <1>1 DEF CacheInv, CacheTypeOK, NoUncachedLine, AllTags
<1>7. \A t \in AllTags, s \in Sets, o \in Offsets :
        /\ Present(t, s, o)' <=> ~(t = r.tag /\ s = i)
        /\ Evicting(t, s)' <=> /\ metadata[i][v].valid /\ metadata[i][v].dirty
                               /\ tags[i][v] = t /\ s = i
        /\ EvictedWord(o)' = data[i][v][o]
    BY <1>1, <1>2, <1>3, <1>5 DEF Present, Evicting, EvictedWord
<1>8. Filled' /\ WrittenTo(n)' /\ OneSet'
    <2>1. \A o \in Offsets : ~(Behind(o)')
        BY <1>1, <1>2, <1>3, DCacheAssumption DEF Behind, Offsets
    <2>2. miss_addr'.index = creq_addr'.index
        BY <1>1, <1>3
    <2>3. wb'.meta.valid => wb'.tag # IOTag
        BY <1>2, <1>3, <1>6, DCacheAssumption
    <2> QED BY <1>1, <2>1, <2>2, <2>3 DEF Filled, WrittenTo, OneSet
<1>9. CleanOver(n)'
    <2> SUFFICES ASSUME NEW s \in Sets, NEW w \in Ways, NEW o \in Offsets,
                        metadata'[s][w].valid, ~metadata'[s][w].dirty,
                        Present(tags[s][w], s, o)'
                 PROVE  data'[s][w][o] = n[<<tags'[s][w], s, o>>]
        BY DEF CleanOver
    <2>1. ~(s = i /\ w = v)
        <3> SUFFICES ASSUME s = i, w = v PROVE FALSE
            OBVIOUS
        <3>1. tags'[s][w] = r.tag
            BY <1>4
        <3> QED BY <1>1, <1>2, <1>3, <3>1 DEF Present
    <2>2. metadata[s][w].valid /\ ~metadata[s][w].dirty /\ tags'[s][w] = tags[s][w]
        BY <1>4, <2>1
    <2>3. PICK t \in Tags : t = tags[s][w]
        BY <1>6, <2>2
    <2>4. n[<<t, s, o>>] = data[s][w][o]
        BY <1>1, <2>2, <2>3, BeforeMiss
    <2> QED BY <1>5, <2>2, <2>3, <2>4
<1>10. Kept(r, m, n)
    <2> SUFFICES ASSUME NEW t \in Tags, NEW s \in Sets, NEW o \in Offsets
                 PROVE  WordOver(n, <<t, s, o>>)' = WordOver(m, <<t, s, o>>)
        BY <1>1 DEF Kept, Stores
    <2>1. t \in AllTags
        BY DEF AllTags
    <2>2. ASSUME NEW w \in Ways, metadata[s][w].valid, tags[s][w] = t, ~(s = i /\ w = v)
          PROVE  WordOver(n, <<t, s, o>>)' = WordOver(m, <<t, s, o>>)
        <3>1. Present(t, s, o)
            BY <1>1, BeforeMiss
        <3>2. WordOver(m, <<t, s, o>>) = data[s][w][o]
            BY <2>1, <2>2, <3>1, WordCases DEF WordsAre
        <3>3. metadata'[s][w].valid /\ tags'[s][w] = t /\ Present(t, s, o)'
            BY <1>2, <1>4, <1>7, <2>1, <2>2
        <3>4. WordOver(n, <<t, s, o>>)' = data'[s][w][o]
            BY <2>1, <3>3, WordCasesNext DEF WordsAre
        <3> QED BY <1>5, <3>2, <3>4
    \* The victim.
    <2>3. CASE metadata[i][v].valid /\ tags[i][v] = t /\ s = i
        <3>1. Present(t, s, o)
            BY <1>1, BeforeMiss
        <3>2. WordOver(m, <<t, s, o>>) = data[s][v][o]
            BY <1>3, <2>1, <2>3, <3>1, WordCases DEF WordsAre
        <3>3. \A w \in Ways : ~(metadata'[s][w].valid /\ tags'[s][w] = t)
            BY <1>2, <1>4, <2>3 DEF CacheInv, HitIsOneHot
        <3>4. WordOver(n, <<t, s, o>>)' =
                IF Evicting(t, s)' THEN EvictedWord(o)' ELSE n[<<t, s, o>>]
            BY <2>1, <3>3, WordCasesNext DEF WordsAre
        <3>5. ~metadata[s][v].dirty => n[<<t, s, o>>] = data[s][v][o]
            BY <1>1, <2>3, BeforeMiss
        <3> QED BY <1>7, <2>1, <2>3, <3>2, <3>4, <3>5
    \* A line in no way, the new one included.
    <2>4. CASE \A w \in Ways : ~(metadata[s][w].valid /\ tags[s][w] = t)
        <3>1. n[<<t, s, o>>] = WordOver(m, <<t, s, o>>)
            BY <1>1, <2>4, BeforeMiss
        <3>2. ~(Evicting(t, s)')
            BY <1>2, <1>3, <1>7, <2>1, <2>4
        <3>3. (\A w \in Ways : ~(metadata'[s][w].valid /\ tags'[s][w] = t)) \/ ~(Present(t, s, o)')
            BY <1>4, <1>7, <2>1, <2>4
        <3> QED BY <2>1, <3>1, <3>2, <3>3, WordCasesNext DEF WordsAre
    <2> QED BY <2>2, <2>3, <2>4
<1> QED BY <1>8, <1>9, <1>10 DEF DataInv

-----------------------------------------------------------------------------
\* Every clock edge keeps the words of the cache over the memory.
LEMMA EdgeData ==
    ASSUME CacheInv, NEW r \in Requests, NEW c \in Responses, Edge(r, c),
           NEW m \in [Addrs -> Values], NEW n \in [Addrs -> Values],
           DataInv(m), BusMoves(m, n, c)
    PROVE  DataInv(n)' /\ Kept(r, m, n)
<1>1. CacheInv'
    BY EdgeInv
<1> QED BY <1>1, StartMissData, IdleEdgeData, LoadWaitData, LoadBeatData,
           WritebackEdgeData DEF Edge

\* An uncached word is the memory's: no way and no write-back holds its line.
IOWordsAre ==
    \A m \in [Addrs -> Values], s \in Sets, o \in Offsets :
        WordOver(m, <<IOTag, s, o>>) = m[<<IOTag, s, o>>]

LEMMA IOWords == CacheInv /\ OneSet => IOWordsAre
<1> SUFFICES ASSUME CacheInv, OneSet,
                    NEW m \in [Addrs -> Values], NEW s \in Sets, NEW o \in Offsets
             PROVE  WordOver(m, <<IOTag, s, o>>) = m[<<IOTag, s, o>>]
    BY DEF IOWordsAre
<1>1. IOTag \in AllTags
    BY DEF AllTags
<1>2. \A w \in Ways : ~(metadata[s][w].valid /\ tags[s][w] = IOTag)
    BY DEF CacheInv, NoUncachedLine
<1>3. ~Evicting(IOTag, s)
    BY DEF Evicting, OneSet
<1> QED BY <1>1, <1>2, <1>3, WordCases DEF WordsAre

\* The same of the state after a step.
LEMMA IOWordsNext == CacheInv' /\ OneSet' => IOWordsAre'
BY IOWords, PTL
=============================================================================
