--------------------------- MODULE PipelineProofs ---------------------------
(***************************************************************************)
(* What holds of the pipeline for every program, every N and every timing  *)
(* of its surroundings: the types, the bubble that fetch leaves behind     *)
(* each memory access, the device requests that depend on it, and that     *)
(* what commits is what the reference machine does.  The data are proved   *)
(* from the other end: the reference is run ahead through the instructions *)
(* in writeback, memory, execute, decode and fetch, and each stage holds   *)
(* what the machine at its place has, unless a redirect throws it away.    *)
(***************************************************************************)
EXTENDS Pipeline, TLAPS

(* Types.  Every value on its way through the pipeline is one of Values,   *)
(* every pc is one of PCs.                                                 *)

LEMMA ModIsValue == ASSUME NEW x \in Int PROVE x % N \in Values
BY IsaAssumption DEF Values, PCs

LEMMA InstrFields ==
    ASSUME NEW word \in Word
    PROVE  /\ word.ins \in Instrs /\ word.at \in PCs
           /\ word.ins.rd \in Regs /\ word.ins.ra1 \in Regs /\ word.ins.ra2 \in Regs
           /\ word.ins.target \in PCs
<1>1. Bubble \in Instrs
  BY IsaAssumption DEF Bubble, Instrs, Ops, PCs
<1>2. QED
  BY <1>1, IssuedAssumption DEF Word, Instrs

\* The reference machine keeps its types.
LEMMA ExecTyped ==
    ASSUME NEW s \in States, NEW i \in Instrs
    PROVE  Exec(i, s) \in States
<1> DEFINE a == s.regs[i.ra1]
           b == s.regs[i.ra2]
<1>1. /\ s.pc \in PCs /\ s.regs \in [Regs -> Values] /\ s.mem \in Values
      /\ s.dev \in Values /\ s.csr \in Values /\ s.mepc \in PCs
      /\ i.target \in PCs /\ a \in Values /\ b \in Values
  BY DEF States, Instrs
<1>2. /\ Alu(a, b) \in Values /\ Multi(a, b) \in Values /\ Plus4(s.pc) \in PCs
      /\ (s.dev + 1) % N \in Values /\ PCs = Values /\ Mtvec \in PCs
  BY <1>1, ModIsValue, IsaAssumption DEF Alu, Multi, Plus4, Values, PCs
<1> HIDE DEF a, b
<1>3. Result(i, s) \in Values
  BY <1>1, <1>2 DEF Result, a, b
<1>4. NextPC(i, s) \in PCs
  BY <1>1, <1>2 DEF NextPC, a, b
<1>5. [s.regs EXCEPT ![i.rd] = Result(i, s)] \in [Regs -> Values]
  BY <1>1, <1>3
<1>6. QED
  BY <1>1, <1>2, <1>4, <1>5 DEF Exec, States, a, b

\* The values each stage computes.
LEMMA StageValues ==
    ASSUME TypeOK
    PROVE  /\ opA \in Values /\ opB \in Values /\ rd1 \in Values /\ rd2 \in Values
           /\ WriteData \in Values /\ CsrPcNxt \in PCs /\ TargetPC \in PCs
           /\ dreq.data \in Values /\ RespData \in Values
<1>1. /\ insF \in Instrs /\ insD \in Instrs /\ insW \in Instrs
      /\ insF.ra1 \in Regs /\ insF.ra2 \in Regs /\ insF.target \in PCs
  BY InstrFields DEF TypeOK, Fetched, Decoded, Memoried, insF, insD, insW
<1>2. /\ fd.pc \in PCs /\ de.rd1 \in Values /\ de.rd2 \in Values
      /\ em.aluout \in Values /\ em.memw_data \in Values
      /\ dataM1.aluout \in Values /\ dataM1.memw_data \in Values
      /\ mw.pc \in PCs /\ mw.aluout \in Values /\ mw.memr_data \in Values
      /\ csr \in Values /\ mepc \in PCs /\ regs \in [Regs -> Values]
      /\ dev \in Values /\ hit_rdata \in Values
  BY DEF TypeOK, Fetched, Decoded, Executed, Memoried
<1>3. Plus4(fd.pc) \in PCs /\ Plus4(mw.pc) \in PCs /\ Mtvec \in PCs /\ PCs = Values
  BY <1>2, ModIsValue, IsaAssumption DEF Plus4, PCs, Values
<1>4. ASSUME NEW r, NEW v \in Values PROVE Forward(r, v) \in Values
  BY <1>2 DEF Forward
<1>5. WriteData \in Values
  BY <1>2 DEF WriteData
<1>6. opA \in Values /\ opB \in Values
  BY <1>2, <1>4 DEF opA, opB
<1>7. ASSUME NEW r \in Regs PROVE Operand(r) \in Values
  BY <1>2, <1>4, <1>5 DEF Operand
<1>8. rd1 \in Values /\ rd2 \in Values
  BY <1>1, <1>7 DEF rd1, rd2
<1>9. CsrPcNxt \in PCs
  BY <1>2, <1>3 DEF CsrPcNxt
<1>10. TargetPC \in PCs
  BY <1>1, <1>3, <1>8 DEF TargetPC
<1>11. dreq.data \in Values /\ RespData \in Values
  BY <1>2 DEF dreq, RespData
<1>12. QED
  BY <1>5, <1>6, <1>8, <1>9, <1>10, <1>11

\* What each stage hands on, and the empty registers.
LEMMA StageRecords ==
    ASSUME TypeOK
    PROVE  /\ dataD \in Decoded /\ dataE \in Executed /\ dataM \in Memoried
           /\ \A v \in Values : Moved(v) \in Memoried
           /\ NoFetched \in Fetched /\ NoDecoded \in Decoded
           /\ NoExecuted \in Executed /\ NoMemoried \in Memoried
<1>1. /\ fd.word \in Word /\ fd.pc \in PCs /\ de.word \in Word /\ de.pc \in PCs
      /\ em.word \in Word /\ em.pc \in PCs /\ em.aluout \in Values
      /\ em.memw_data \in Values /\ dataM1 \in Memoried
      /\ multi.a \in Values /\ multi.b \in Values
  BY DEF TypeOK, Fetched, Decoded, Executed
<1>2. 0 \in Values /\ 0 \in PCs /\ NoWord \in Word
  BY IsaAssumption DEF NoWord, Word, Values, PCs
<1>3. /\ Alu(opA, opB) \in Values /\ Multi(multi.a, multi.b) \in Values
      /\ Plus4(de.pc) \in Values
  BY <1>1, StageValues, ModIsValue, IsaAssumption DEF Alu, Multi, Plus4, Values, PCs
<1>4. dataD \in Decoded
  BY <1>1, StageValues DEF dataD, Decoded
<1>5. dataE.aluout \in Values /\ dataE.memw_data \in Values
  BY <1>2, <1>3, StageValues DEF dataE
<1>6. dataE \in Executed
  BY <1>1, <1>5 DEF dataE, Executed
<1>7. dataM \in Memoried
  BY <1>1, StageValues DEF dataM, Memoried
<1>8. \A v \in Values : Moved(v) \in Memoried
  BY <1>1 DEF Moved, Memoried
<1>9. /\ NoFetched \in Fetched /\ NoDecoded \in Decoded
      /\ NoExecuted \in Executed /\ NoMemoried \in Memoried
  BY <1>2 DEF NoFetched, NoDecoded, NoExecuted, NoMemoried,
              Fetched, Decoded, Executed, Memoried
<1>10. QED
  BY <1>4, <1>6, <1>7, <1>8, <1>9

LEMMA InitTypeOK == Init => TypeOK
<1> SUFFICES ASSUME Init PROVE TypeOK
  OBVIOUS
<1>1. 0 \in Values /\ 0 \in PCs /\ NoWord \in Word
  BY IsaAssumption DEF NoWord, Word, Values, PCs
<1>2. /\ NoFetched \in Fetched /\ NoDecoded \in Decoded
      /\ NoExecuted \in Executed /\ NoMemoried \in Memoried
  BY <1>1 DEF NoFetched, NoDecoded, NoExecuted, NoMemoried,
              Fetched, Decoded, Executed, Memoried
<1>3. Reset \in States /\ Reset.regs \in [Regs -> Values]
  BY <1>1 DEF Reset, States
<1>4. QED
  BY <1>1, <1>2, <1>3 DEF Init, TypeOK

LEMMA ClockKeepsTypes ==
    ASSUME TypeOK, NEW hit, NEW beat, NEW fin, NEW found \in BOOLEAN, NEW w \in FetchedWords,
           Clock(hit, beat, fin, found, w)
    PROVE  TypeOK'
<1> DEFINE stall == StallData(hit, beat)
           doing == MultiDoing(fin)
<1>1. w \in Word
  BY IssuedAssumption DEF FetchedWords, Word, TypeOK
<1>2. /\ pc \in PCs /\ fd \in Fetched /\ de \in Decoded /\ em \in Executed
      /\ dataM1 \in Memoried /\ icache_req_o \in BOOLEAN
      /\ icache.ok \in BOOLEAN /\ multi \in [doing : BOOLEAN, a : Values, b : Values]
  BY DEF TypeOK
<1>3. pc' \in PCs /\ fd' \in Fetched /\ de' \in Decoded /\ em' \in Executed /\ mw' \in Memoried
  <2>1. CASE Flush
    BY <2>1, StageValues, StageRecords DEF Flush
  <2>2. CASE DataStall(stall)
    BY <2>2, <1>2, StageRecords DEF DataStall
  <2>3. CASE MultiStall(stall, doing)
    BY <2>3, <1>2, StageRecords DEF MultiStall
  <2>4. CASE DecodeStall(stall, doing)
    BY <2>4, <1>2, StageRecords DEF DecodeStall
  <2>5. CASE Flow(stall, doing, w)
    <3>1. PICK p \in Predictions(w.ins) :
            /\ pc' = IF BpHit THEN Predicted(w.ins, p) ELSE TargetPC
            /\ fd' = IF BranchOrJump(insF) /\ ~BpHit THEN NoFetched
                     ELSE [word |-> w, pc |-> pc, pred |-> p]
      BY <2>5 DEF Flow
    <3>2. p \in BOOLEAN
      BY DEF Predictions
    <3>3. Predicted(w.ins, p) \in PCs
      <4>1. Plus4(pc) \in PCs
        BY <1>2, ModIsValue DEF Plus4, PCs, Values
      <4>2. QED
        BY <4>1, <1>1, InstrFields DEF Predicted
    <3>4. [word |-> w, pc |-> pc, pred |-> p] \in Fetched
      BY <1>1, <1>2, <3>2 DEF Fetched
    <3>5. pc' \in PCs /\ fd' \in Fetched
      BY <3>1, <3>3, <3>4, StageValues, StageRecords
    <3>6. QED
      BY <2>5, <3>5, StageRecords DEF Flow
  <2>6. QED
    BY <2>1, <2>2, <2>3, <2>4, <2>5 DEF Clock
<1>4. regs' \in [Regs -> Values] /\ csr' \in Values /\ mepc' \in PCs /\ ref' \in States
  <2>1. Commit
    BY DEF Clock
  <2>2. insW \in Instrs /\ insW.rd \in Regs
    BY InstrFields DEF TypeOK, Memoried, insW
  <2>3. [regs EXCEPT ![insW.rd] = WriteData] \in [Regs -> Values]
    BY <2>2, StageValues DEF TypeOK
  <2>4. Exec(insW, ref) \in States
    BY <2>2, ExecTyped DEF TypeOK
  <2>5. mw.aluout \in Values /\ mw.pc \in PCs
    BY DEF TypeOK, Memoried
  <2>6. QED
    BY <2>1, <2>3, <2>4, <2>5 DEF Commit, TypeOK
<1>5. mstate' \in {"IDLE", "MEMORY01", "MEMORY10", "MEMORY11"} /\ dataM1' \in Memoried
  <2>1. mstate \in {"IDLE", "MEMORY01", "MEMORY10", "MEMORY11"} /\ 0 \in Values
    BY IsaAssumption DEF TypeOK, Values, PCs
  <2>2. MemoryStage(hit, beat)
    BY DEF Clock
  <2>3. mstate' \in {"IDLE", "MEMORY01", "MEMORY10", "MEMORY11"}
    BY <2>1, <2>2 DEF MemoryStage
  <2>4. dataM1' \in {NoMemoried, dataM1, Moved(0), Moved(RespData)}
    BY <2>1, <2>2 DEF MemoryStage
  <2>5. QED
    BY <2>1, <2>3, <2>4, <1>2, StageValues, StageRecords
<1>6. mem' \in Values /\ dev' \in Values /\ hit_rdata' \in Values /\ device_bus' \in BOOLEAN
  <2>1. (dev + 1) % N \in Values
    BY ModIsValue DEF TypeOK, Values, PCs
  <2>2. QED
    BY <2>1, StageValues DEF Clock, DataCache, TypeOK
<1>7. multi' \in [doing : BOOLEAN, a : Values, b : Values]
  <2>1. 0 \in Values
    BY IsaAssumption DEF Values, PCs
  <2>2. MultiUnit(fin)
    BY DEF Clock
  <2>3. CASE CsrFlush
    BY <2>1, <2>2, <2>3 DEF MultiUnit
  <2>4. CASE ~CsrFlush /\ multi.doing
    BY <2>2, <2>4, <1>2 DEF MultiUnit
  <2>5. CASE ~CsrFlush /\ ~multi.doing /\ insD.op = "mul"
    BY <2>2, <2>5, StageValues DEF MultiUnit
  <2>6. CASE ~CsrFlush /\ ~multi.doing /\ insD.op # "mul"
    BY <2>2, <2>6, <1>2 DEF MultiUnit
  <2>7. QED
    BY <2>3, <2>4, <2>5, <2>6
<1>8. icache_req_o' \in BOOLEAN /\ raw_instr' \in Word /\ icache' \in [ok : BOOLEAN, pc : PCs]
  <2>1. FetchStage(w, found, stall)
    BY DEF Clock
  <2>2. (~stall /\ ~LoadUse /\ ~BranchStall) \in BOOLEAN /\ (ireqValid /\ ~icache.ok /\ found) \in BOOLEAN
    OBVIOUS
  <2>3. QED
    BY <2>1, <2>2, <1>1, <1>2 DEF FetchStage
<1>9. QED
  BY <1>3, <1>4, <1>5, <1>6, <1>7, <1>8 DEF TypeOK

\* Types are kept for every N, every set of registers and every program.
THEOREM PipelineTypes == Spec => []TypeOK
<1>1. TypeOK /\ [Next]_vars => TypeOK'
  <2> SUFFICES ASSUME TypeOK, [Next]_vars PROVE TypeOK'
    OBVIOUS
  <2>1. CASE Next
    <3>1. PICK hit \in BOOLEAN, beat \in BOOLEAN, fin \in BOOLEAN, found \in BOOLEAN,
               w \in FetchedWords : Clock(hit, beat, fin, found, w)
      BY <2>1 DEF Next, Step, Answers
    <3>2. QED
      BY <3>1, ClockKeepsTypes
  <2>2. CASE UNCHANGED vars
    BY <2>2 DEF vars, fetchVars, pipeVars, memVars, archVars, TypeOK
  <2>3. QED
    BY <2>1, <2>2
<1>2. QED
  BY <1>1, InitTypeOK, PTL DEF Spec

-----------------------------------------------------------------------------
(* Bubbles, and the states of the memory stage.                             *)

\* Every instruction but a multi-cycle one has a bubble behind it, since fetch
\* answers every second cycle at best and it waits in D/E for nothing.
Lone(i) == i.op \notin {"none", "mul"}

Spaced == /\ Lone(insE) => insD.op = "none"
          /\ Lone(insM) => insE.op = "none"
          /\ Lone(insW) => insM.op = "none"

\* Such an instruction in decode's output has just been fetched past: the
\* request for the word behind it is out, and not answered yet.
FetchLags == Lone(insD) => icache_req_o /\ ~icache.ok

\* The states of the memory stage follow the accesses in E/M and M1/M2.
StageFollowsAccess ==
    /\ mstate \in {"IDLE", "MEMORY01", "MEMORY10"}
    /\ mstate = "MEMORY10" => MemAccess(insE) /\ insW.op = "none"
    /\ mstate = "MEMORY01" => ~MemAccess(insE) /\ insM.op \in {"ld", "st"}
    /\ insM.op \in {"ld", "st"} => mstate = "MEMORY01"
    /\ insM.op = "dev" => mstate = "IDLE"

\* A device is asked from MEMORY10 only.
DeviceWaits == device_bus => mstate = "MEMORY10" /\ insE.op = "dev"

PipeInv == Spaced /\ FetchLags /\ StageFollowsAccess /\ DeviceWaits

-----------------------------------------------------------------------------
\* A bubble accesses nothing and redirects nothing.
LEMMA BubbleIsIdle ==
    /\ NoFetched.word.ins.op = "none"
    /\ NoExecuted.word.ins.op = "none"
    /\ NoDecoded.word.ins.op = "none"
    /\ NoMemoried.word.ins.op = "none"
BY DEF NoFetched, NoExecuted, NoDecoded, NoMemoried, NoWord, Bubble

\* What a data stall is, once the memory stage follows the access.
LEMMA StallIsAnAccess ==
    ASSUME PipeInv, NEW hit, NEW beat, ~CsrFlush
    PROVE  StallData(hit, beat) <=> MemAccess(insE) /\ ~AddrOk(hit, beat)
BY DEF PipeInv, StageFollowsAccess, StallData

\* An instruction in D/E leaves it at the next edge, with a bubble behind it,
\* unless it is a multi-cycle one.
LEMMA LoneLeavesDecode ==
    ASSUME PipeInv, NEW hit, NEW beat, NEW fin, NEW found, NEW w,
           Clock(hit, beat, fin, found, w), Lone(insD)
    PROVE  Flush \/ DecodeStall(StallData(hit, beat), MultiDoing(fin))
<1>1. ~MemAccess(insE)
  BY DEF PipeInv, Spaced, Lone, MemAccess
<1>2. ~DataStall(StallData(hit, beat))
  BY <1>1, StallIsAnAccess DEF DataStall
<1>3. ~MultiStall(StallData(hit, beat), MultiDoing(fin))
  BY DEF MultiStall, MultiDoing, Lone
<1>4. ~Flow(StallData(hit, beat), MultiDoing(fin), w)
  <2>1. ~CsrFlush => ~IDataOk
    BY DEF PipeInv, FetchLags, IDataOk, ireqValid
  <2>2. QED
    BY <2>1 DEF Flow
<1>5. QED
  BY <1>2, <1>3, <1>4 DEF Clock

LEMMA InitPipeInv == Init => PipeInv
BY BubbleIsIdle DEF Init, PipeInv, Spaced, Lone, FetchLags,
   StageFollowsAccess, DeviceWaits, insD, insE, insM, insW, MemAccess

\* What the memory stage does at an edge: nothing in a data stall, which it
\* spends in MEMORY10; else the instruction in E/M moves on.
LEMMA StageMoves ==
    ASSUME PipeInv, NEW hit, NEW beat, ~CsrFlush, MemoryStage(hit, beat)
    PROVE  IF StallData(hit, beat)
           THEN mstate' = "MEMORY10" /\ dataM1' = dataM1
           ELSE /\ insE.op \notin {"ld", "st"} => mstate' = "IDLE"
                /\ insE.op \in {"ld", "st"} => mstate' = "MEMORY01"
                /\ dataM1' = Moved(IF insE.op = "dev" THEN RespData ELSE 0)
<1>1. StallData(hit, beat) <=> MemAccess(insE) /\ ~AddrOk(hit, beat)
  BY StallIsAnAccess
<1>2. MemAccess(insE) => insD.op = "none" /\ ~MemAccess(insD)
  BY DEF PipeInv, Spaced, Lone, MemAccess
<1>3. CASE mstate = "MEMORY01"
  BY <1>1, <1>3 DEF MemoryStage, PipeInv, StageFollowsAccess, MemAccess
<1>4. CASE mstate = "IDLE" /\ ~MemAccess(insE)
  BY <1>1, <1>4 DEF MemoryStage, MemAccess
<1>5. CASE mstate = "IDLE" /\ MemAccess(insE)
  <2>1. dreq.valid /\ dreq.op = insE.op
    BY <1>5 DEF dreq, Resend
  <2>2. AddrOk(hit, beat) => insE.op # "dev"
    BY <1>5, <2>1 DEF AddrOk, PipeInv, DeviceWaits
  <2>3. QED
    BY <1>1, <1>5, <2>1, <2>2 DEF MemoryStage, MemAccess
<1>6. CASE mstate = "MEMORY10"
  <2>1. dreq.valid /\ MemAccess(insE)
    BY <1>6 DEF dreq, Resend, PipeInv, StageFollowsAccess
  <2>2. QED
    BY <1>1, <1>2, <1>6, <2>1 DEF MemoryStage, MemAccess
<1>7. QED
  BY <1>3, <1>4, <1>5, <1>6 DEF PipeInv, StageFollowsAccess

\* How the instructions move at an edge without a flush.
LEMMA InstructionsMove ==
    ASSUME PipeInv, TypeOK, NEW hit, NEW beat, NEW fin, NEW found, NEW w,
           Clock(hit, beat, fin, found, w), ~CsrFlush
    PROVE  IF StallData(hit, beat)
           THEN /\ insW'.op = "none" /\ insM' = insM /\ insE' = insE /\ insD' = insD
                /\ MemAccess(insE)
           ELSE /\ insW' = insM /\ insM' = insE
                /\ insE' = insD \/ (insE'.op = "none" /\ insD' = insD /\ insD.op = "mul")
<1>1. MemoryStage(hit, beat)
  BY DEF Clock
<1>2. CASE StallData(hit, beat)
  <2>1. DataStall(StallData(hit, beat))
    BY <1>2 DEF Clock, Flush, MultiStall, DecodeStall, Flow
  <2>2. QED
    BY <1>1, <1>2, <2>1, StageMoves, StallIsAnAccess, BubbleIsIdle
    DEF DataStall, insW, insM, insE, insD
<1>3. CASE ~StallData(hit, beat)
  <2>1. insM' = insE
    BY <1>1, <1>3, StageMoves DEF Moved, insM, insE
  <2>2. insW' = insM
    <3>1. mw' = dataM
      BY <1>3 DEF Clock, Flush, DataStall, MultiStall, DecodeStall, Flow
    <3>2. dataM.word = dataM1.word
      BY DEF dataM, TypeOK, Memoried
    <3>3. QED
      BY <3>1, <3>2 DEF insW, insM
  <2>3. insE' = insD \/ (insE'.op = "none" /\ insD' = insD /\ insD.op = "mul")
    BY <1>3, BubbleIsIdle
    DEF Clock, Flush, DataStall, MultiStall, DecodeStall, Flow, dataE, insE, insD, MultiDoing
  <2>4. QED
    BY <1>3, <2>1, <2>2, <2>3
<1>4. QED
  BY <1>2, <1>3

\* After a flush all registers hold bubbles.
LEMMA FlushEmpties ==
    ASSUME NEW hit, NEW beat, NEW fin, NEW found, NEW w,
           Clock(hit, beat, fin, found, w), CsrFlush
    PROVE  /\ insW'.op = "none" /\ insM'.op = "none" /\ insE'.op = "none"
           /\ insD'.op = "none" /\ insF'.op = "none" /\ mstate' = "IDLE"
<1>1. Flush
  BY DEF Clock, DataStall, MultiStall, DecodeStall, Flow
<1>2. mstate' = "IDLE" /\ dataM1' = NoMemoried
  BY DEF Clock, MemoryStage
<1>3. QED
  BY <1>1, <1>2, BubbleIsIdle DEF Flush, insW, insM, insE, insD, insF

\* An edge keeps the bubbles behind the instructions.
LEMMA ClockKeepsSpaced ==
    ASSUME PipeInv, TypeOK, NEW hit, NEW beat, NEW fin, NEW found, NEW w,
           Clock(hit, beat, fin, found, w)
    PROVE  Spaced'
<1>1. CASE CsrFlush
  BY <1>1, FlushEmpties DEF Spaced, Lone
<1>2. CASE ~CsrFlush
  <2>1. Lone(insD) => insD'.op = "none"
    BY <1>2, LoneLeavesDecode, BubbleIsIdle DEF Flush, DecodeStall, insD
  <2>2. QED
    BY <1>2, <2>1, InstructionsMove DEF PipeInv, Spaced, Lone
<1>3. QED
  BY <1>1, <1>2

\* An instruction enters D/E only when fetch goes on to the next word.
LEMMA ClockKeepsLag ==
    ASSUME PipeInv, NEW hit, NEW beat, NEW fin, NEW found, NEW w,
           Clock(hit, beat, fin, found, w)
    PROVE  FetchLags'
<1> DEFINE stall == StallData(hit, beat)
<1>1. CASE Flush
  BY <1>1, BubbleIsIdle DEF Flush, FetchLags, Lone, insD
<1>2. CASE DataStall(stall) \/ MultiStall(stall, MultiDoing(fin))
  <2>1. insD' = insD
    BY <1>2 DEF DataStall, MultiStall, insD
  <2>2. ~Lone(insD)
    BY <1>2, LoneLeavesDecode DEF DataStall, MultiStall, Flush, DecodeStall
  <2>3. QED
    BY <2>1, <2>2 DEF FetchLags, Lone
<1>3. CASE DecodeStall(stall, MultiDoing(fin))
  BY <1>3, BubbleIsIdle DEF DecodeStall, FetchLags, Lone, insD
<1>4. CASE Flow(stall, MultiDoing(fin), w)
  <2>1. icache_req_o'
    BY <1>4 DEF Flow, Clock, FetchStage
  <2>2. ~icache'.ok
    BY <1>4 DEF Flow, Clock, FetchStage, IDataOk
  <2>3. QED
    BY <2>1, <2>2 DEF FetchLags
<1>5. QED
  BY <1>1, <1>2, <1>3, <1>4 DEF Clock

\* The stage waits in MEMORY10 with its access, and sends again from MEMORY01
\* only what a cache accepted; a device answers in MEMORY10.
LEMMA ClockKeepsStage ==
    ASSUME PipeInv, TypeOK, NEW hit, NEW beat, NEW fin, NEW found, NEW w,
           Clock(hit, beat, fin, found, w)
    PROVE  StageFollowsAccess' /\ DeviceWaits'
<1>0. MemoryStage(hit, beat) /\ DataCache(hit, beat)
  BY DEF Clock
<1>1. CASE CsrFlush
  <2>1. mstate # "MEMORY10"
    BY <1>1 DEF PipeInv, StageFollowsAccess, CsrFlush
  <2>2. ~device_bus'
    BY <1>0, <1>1, <2>1 DEF DataCache, dreq, Resend, PipeInv, StageFollowsAccess
  <2>3. QED
    BY <1>1, <2>2, FlushEmpties DEF StageFollowsAccess, DeviceWaits
<1>2. CASE ~CsrFlush /\ StallData(hit, beat)
  <2>1. /\ MemAccess(insE) /\ insE' = insE /\ insM' = insM /\ insW'.op = "none"
        /\ mstate' = "MEMORY10"
    BY <1>0, <1>2, InstructionsMove, StageMoves
  <2>2. insM.op \notin {"ld", "st", "dev"}
    BY <2>1 DEF PipeInv, Spaced, Lone, MemAccess
  <2>3. device_bus' => insE.op = "dev"
    BY <1>0, <1>2, <2>1 DEF DataCache, dreq, Resend, PipeInv, StageFollowsAccess
  <2>4. QED
    BY <2>1, <2>2, <2>3 DEF StageFollowsAccess, DeviceWaits, MemAccess
<1>3. CASE ~CsrFlush /\ ~StallData(hit, beat)
  <2>1. insM' = insE /\ (insE' = insD \/ insE'.op = "none")
    BY <1>3, InstructionsMove
  <2>2. insE.op \in {"ld", "st"} => ~MemAccess(insE')
    BY <2>1 DEF PipeInv, Spaced, Lone, MemAccess
  <2>3. mstate' = IF insE.op \in {"ld", "st"} THEN "MEMORY01" ELSE "IDLE"
    BY <1>0, <1>3, StageMoves
  <2>4. ~device_bus'
    <3>1. dreq.valid /\ dreq.op = "dev" => MemAccess(insE)
      BY DEF dreq, Resend, PipeInv, StageFollowsAccess
    <3>2. MemAccess(insE) => AddrOk(hit, beat)
      BY <1>3, StallIsAnAccess
    <3>3. QED
      BY <1>0, <3>1, <3>2 DEF DataCache
  <2>5. QED
    BY <2>1, <2>2, <2>3, <2>4 DEF StageFollowsAccess, DeviceWaits
<1>4. QED
  BY <1>1, <1>2, <1>3

LEMMA NextPipeInv == TypeOK /\ PipeInv /\ [Next]_vars => PipeInv'
<1> SUFFICES ASSUME TypeOK, PipeInv, [Next]_vars PROVE PipeInv'
  OBVIOUS
<1>1. CASE Next
  <2>1. PICK hit, beat, fin, found, w : Clock(hit, beat, fin, found, w)
    BY <1>1 DEF Next, Step
  <2>2. QED
    BY <2>1, ClockKeepsSpaced, ClockKeepsLag, ClockKeepsStage DEF PipeInv
<1>2. CASE UNCHANGED vars
  BY <1>2 DEF vars, fetchVars, pipeVars, memVars, archVars, PipeInv, Spaced, Lone,
     FetchLags, StageFollowsAccess, DeviceWaits, MemAccess, insD, insE, insM, insW
<1>3. QED
  BY <1>1, <1>2

\* At any time the instructions in the pipeline are spaced as fetch lets them
\* in, and the memory stage is in the state its instruction calls for.
THEOREM PipeInvHolds == Spec => []PipeInv
BY InitPipeInv, NextPipeInv, PipelineTypes, PTL DEF Spec

-----------------------------------------------------------------------------
\* Two memory instructions are never adjacent, which memory.sv relies on in
\* MEMORY01 and which makes its state MEMORY11 unreachable: fetch answers every
\* second cycle at best, and an access waits in D/E for no reason of its own.
THEOREM AccessesAreApart == Spec => [](BubbleBehindAccess /\ mstate # "MEMORY11")
<1>1. PipeInv => BubbleBehindAccess /\ mstate # "MEMORY11"
  BY DEF PipeInv, StageFollowsAccess, Spaced, Lone, MemAccess, BubbleBehindAccess
<1>2. QED
  BY <1>1, PipeInvHolds, PTL

\* The request a device is working on is not withdrawn by a trap or a CSR
\* write: while it waits in MEMORY10 there is a bubble in writeback.
THEOREM DeviceRequestIsHeld == Spec => []DeviceRequestHeld
<1>1. PipeInv => DeviceRequestHeld
  <2>1. SUFFICES ASSUME PipeInv, device_bus PROVE dreq.valid /\ dreq.op = "dev"
    BY DEF DeviceRequestHeld
  <2>2. mstate = "MEMORY10" /\ insE.op = "dev" /\ insW.op = "none"
    BY <2>1 DEF PipeInv, DeviceWaits, StageFollowsAccess
  <2>3. QED
    BY <2>2 DEF dreq, Resend, MemAccess, CsrFlush
<1>2. QED
  BY <1>1, PipeInvHolds, PTL

-----------------------------------------------------------------------------
(* Data.  The machine of Isa is run ahead of the reference through the     *)
(* instructions in the pipeline: each stage is compared with the state its *)
(* instruction will find when it commits.  What stands behind an           *)
(* instruction that redirects from writeback is compared with nothing.     *)

Redirects(i) == i.op \in {"csr", "trap", "mret"}

After(i, s) == IF i.op = "none" THEN s ELSE Exec(i, s)

\* The state that the instruction of a stage finds; that of writeback finds ref.
BeforeM     == After(insW, ref)
BeforeE     == After(insM, BeforeM)
BeforeD     == After(insE, BeforeE)
BeforeF     == After(insD, BeforeD)
BeforeFetch == After(insF, BeforeF)

\* No older instruction redirects.
LiveM     == ~Redirects(insW)
LiveE     == LiveM /\ ~Redirects(insM)
LiveD     == LiveE /\ ~Redirects(insE)
LiveF     == LiveD /\ ~Redirects(insD)
LiveFetch == LiveF /\ ~Redirects(insF)

\* The instruction in register r is the one at the pc of the state s.
OnPath(r, s) == r.word.ins.op # "none" => r.pc = s.pc /\ r.word.at = r.pc

\* Register r, behind execute, holds what the state s makes of its instruction.
Computed(r, s) ==
    LET i == r.word.ins IN
    /\ i.op \in {"alu", "mul", "jal", "jalr"} => r.aluout = Result(i, s)
    /\ i.op = "csr" => r.aluout = s.regs[i.ra1]
    /\ i.op = "st" => r.memw_data = s.regs[i.ra2]

InW == /\ OnPath(mw, ref) /\ Computed(mw, ref)
       /\ MemRead(insW) => mw.memr_data = Result(insW, ref)

InM == LiveM =>
       /\ OnPath(dataM1, BeforeM) /\ Computed(dataM1, BeforeM)
       /\ MemRead(insM) => dataM.memr_data = Result(insM, BeforeM)

InE == LiveE => OnPath(em, BeforeE) /\ Computed(em, BeforeE)

\* The unit has stored the operands of the instruction it works on.
UnitHolds == insD.op = "mul" /\ multi.doing

InD == LiveD /\ insD.op # "none" =>
       /\ OnPath(de, BeforeD)
       /\ BeforeD.regs[insD.ra1] = IF UnitHolds THEN multi.a ELSE opA
       /\ BeforeD.regs[insD.ra2] = IF UnitHolds THEN multi.b ELSE opB

UnitInUse == multi.doing => insD.op = "mul"

InF == /\ LiveF => OnPath(fd, BeforeF)
       /\ fd.pred \in Predictions(insF)

\* Fetch is at the next instruction, or where the prediction says it is.
InFetch == LiveFetch =>
    pc = IF BranchOrJump(insF) THEN IF fd.pred THEN insF.target ELSE Plus4(fd.pc)
         ELSE BeforeFetch.pc

\* The word fetched is that of pc.
WordOfPc == /\ icache.ok => icache_req_o /\ icache.pc = pc
            /\ ~icache_req_o => raw_instr.at = pc /\ raw_instr.ins \in Issued

\* Memory and device are as far as the instruction in M1/M2.
InMem == mem = BeforeE.mem /\ dev = BeforeE.dev

DataInv == /\ DiffTest
           /\ InW /\ InM /\ InE /\ InD /\ InF /\ InFetch
           /\ UnitInUse /\ WordOfPc /\ InMem

-----------------------------------------------------------------------------
(* The machine of Isa.                                                     *)

LEMMA AfterTyped ==
    ASSUME NEW s \in States, NEW i \in Instrs
    PROVE  After(i, s) \in States
BY ExecTyped DEF After

\* What an instruction does to each part of the state.
LEMMA AfterFields ==
    ASSUME NEW s \in States, NEW i \in Instrs
    PROVE  /\ \A r \in Regs : After(i, s).regs[r] =
                IF RegWrite(i) /\ i.rd = r /\ r # 0 THEN Result(i, s) ELSE s.regs[r]
           /\ After(i, s).regs = IF RegWrite(i) /\ i.rd # 0
                                 THEN [s.regs EXCEPT ![i.rd] = Result(i, s)] ELSE s.regs
           /\ After(i, s).mem = IF i.op = "st" THEN s.regs[i.ra2] ELSE s.mem
           /\ After(i, s).dev = IF i.op = "dev" THEN (s.dev + 1) % N ELSE s.dev
           /\ After(i, s).csr = IF i.op = "csr" THEN s.regs[i.ra1] ELSE s.csr
           /\ After(i, s).mepc = IF i.op = "trap" THEN s.pc ELSE s.mepc
           /\ After(i, s).pc = IF i.op = "none" THEN s.pc ELSE NextPC(i, s)
<1>1. s.regs \in [Regs -> Values] /\ i.rd \in Regs
  BY DEF States, Instrs
<1>2. CASE i.op = "none"
  BY <1>2 DEF After, RegWrite
<1>3. CASE i.op # "none"
  <2>1. After(i, s) = Exec(i, s)
    BY <1>3 DEF After
  <2> HIDE DEF After
  <2>2. Exec(i, s).regs = IF RegWrite(i) /\ i.rd # 0
                          THEN [s.regs EXCEPT ![i.rd] = Result(i, s)] ELSE s.regs
    BY DEF Exec
  <2>3. \A r \in Regs : Exec(i, s).regs[r] =
          IF RegWrite(i) /\ i.rd = r /\ r # 0 THEN Result(i, s) ELSE s.regs[r]
    BY <1>1, <2>2
  <2>4. QED
    BY <1>3, <2>1, <2>2, <2>3 DEF Exec
<1>4. QED
  BY <1>2, <1>3

\* The states ahead are states, and the instructions are instructions.
LEMMA AheadTyped ==
    ASSUME TypeOK
    PROVE  /\ ref \in States /\ BeforeM \in States /\ BeforeE \in States
           /\ BeforeD \in States /\ BeforeF \in States /\ BeforeFetch \in States
           /\ insW \in Instrs /\ insM \in Instrs /\ insE \in Instrs
           /\ insD \in Instrs /\ insF \in Instrs
<1>1. /\ insW \in Instrs /\ insM \in Instrs /\ insE \in Instrs
      /\ insD \in Instrs /\ insF \in Instrs /\ ref \in States
  BY InstrFields DEF TypeOK, Fetched, Decoded, Executed, Memoried,
     insW, insM, insE, insD, insF
<1>2. BeforeM \in States
  BY <1>1, AfterTyped DEF BeforeM
<1>3. BeforeE \in States
  BY <1>1, <1>2, AfterTyped DEF BeforeE
<1>4. BeforeD \in States
  BY <1>1, <1>3, AfterTyped DEF BeforeD
<1>5. BeforeF \in States
  BY <1>1, <1>4, AfterTyped DEF BeforeF
<1>6. BeforeFetch \in States
  BY <1>1, <1>5, AfterTyped DEF BeforeFetch
<1>7. QED
  BY <1>1, <1>2, <1>3, <1>4, <1>5, <1>6

-----------------------------------------------------------------------------
(* How the registers and the states ahead of the reference move.           *)

\* The reference goes on to the state ahead of writeback.
LEMMA RefMoves ==
    ASSUME Commit
    PROVE  ref' = BeforeM
BY DEF Commit, BeforeM, After

LEMMA StallMoves ==
    ASSUME TypeOK, PipeInv, NEW hit, NEW beat, NEW fin, NEW found, NEW w,
           Clock(hit, beat, fin, found, w), ~CsrFlush, StallData(hit, beat)
    PROVE  /\ mw' = NoMemoried /\ dataM1' = dataM1
           /\ UNCHANGED <<pc, fd, de, em>>
           /\ MemAccess(insE) /\ insD.op = "none" /\ insM.op \in {"none", "mul"}
           /\ BeforeM' = BeforeM /\ BeforeE' = BeforeE /\ BeforeD' = BeforeD
           /\ BeforeF' = BeforeF /\ BeforeFetch' = BeforeFetch
           /\ (LiveM' <=> LiveM) /\ (LiveE' <=> LiveE) /\ (LiveD' <=> LiveD)
           /\ (LiveF' <=> LiveF) /\ (LiveFetch' <=> LiveFetch)
<1>1. DataStall(StallData(hit, beat)) /\ Commit /\ MemoryStage(hit, beat)
  BY DEF Clock, Flush, MultiStall, DecodeStall, Flow
<1>2. /\ mw' = NoMemoried /\ dataM1' = dataM1
      /\ UNCHANGED <<pc, fd, de, em>>
  BY <1>1, StageMoves DEF DataStall
<1>3. /\ insW'.op = "none" /\ insM' = insM /\ insE' = insE /\ insD' = insD /\ insF' = insF
      /\ MemAccess(insE)
  BY <1>2, InstructionsMove DEF insF
<1>4. insD.op = "none" /\ insM.op \in {"none", "mul"}
  BY <1>3 DEF PipeInv, Spaced, Lone, MemAccess
<1>5. BeforeM' = BeforeM
  BY <1>1, <1>3, RefMoves DEF BeforeM, After
<1>6. /\ BeforeE' = BeforeE /\ BeforeD' = BeforeD
      /\ BeforeF' = BeforeF /\ BeforeFetch' = BeforeFetch
  BY <1>3, <1>5 DEF BeforeE, BeforeD, BeforeF, BeforeFetch, After
<1>7. /\ (LiveM' <=> LiveM) /\ (LiveE' <=> LiveE) /\ (LiveD' <=> LiveD)
      /\ (LiveF' <=> LiveF) /\ (LiveFetch' <=> LiveFetch)
  BY <1>3 DEF LiveM, LiveE, LiveD, LiveF, LiveFetch, Redirects, CsrFlush
<1>8. QED
  BY <1>2, <1>3, <1>4, <1>5, <1>6, <1>7

\* At an edge without flush and stall the last two stages always move.
LEMMA BackMoves ==
    ASSUME TypeOK, PipeInv, NEW hit, NEW beat, NEW fin, NEW found, NEW w,
           Clock(hit, beat, fin, found, w), ~CsrFlush, ~StallData(hit, beat)
    PROVE  /\ mw' = dataM
           /\ dataM1' = Moved(IF insE.op = "dev" THEN RespData ELSE 0)
           /\ insW' = insM /\ insM' = insE
           /\ ref' = BeforeM /\ BeforeM' = BeforeE /\ BeforeE' = BeforeD
           /\ LiveM /\ (LiveM' <=> LiveE) /\ (LiveE' <=> LiveD)
<1>1. Commit /\ MemoryStage(hit, beat)
  BY DEF Clock
<1>2. mw' = dataM
  BY DEF Clock, Flush, DataStall, MultiStall, DecodeStall, Flow
<1>3. dataM1' = Moved(IF insE.op = "dev" THEN RespData ELSE 0)
  BY <1>1, StageMoves
<1>4. insW' = insM /\ insM' = insE
  BY InstructionsMove
<1>5. ref' = BeforeM
  BY <1>1, RefMoves
<1>6. BeforeM' = BeforeE
  BY <1>4, <1>5 DEF BeforeM, BeforeE, After
<1>7. BeforeE' = BeforeD
  BY <1>4, <1>6 DEF BeforeE, BeforeD, After
<1>8. LiveM /\ (LiveM' <=> LiveE) /\ (LiveE' <=> LiveD)
  BY <1>4 DEF LiveM, LiveE, LiveD, Redirects, CsrFlush
<1>9. QED
  BY <1>2, <1>3, <1>4, <1>5, <1>6, <1>7, <1>8

\* The front waits for the multi-cycle unit.
LEMMA MultiMoves ==
    ASSUME TypeOK, PipeInv, NEW hit, NEW beat, NEW fin, NEW found, NEW w,
           Clock(hit, beat, fin, found, w),
           MultiStall(StallData(hit, beat), MultiDoing(fin))
    PROVE  /\ em' = NoExecuted /\ UNCHANGED <<pc, fd, de>>
           /\ insD.op = "mul" /\ (multi.doing => ~fin)
           /\ BeforeD' = BeforeD /\ BeforeF' = BeforeF /\ BeforeFetch' = BeforeFetch
           /\ (LiveD' <=> LiveD) /\ (LiveF' <=> LiveF) /\ (LiveFetch' <=> LiveFetch)
<1>1. /\ em' = NoExecuted /\ UNCHANGED <<pc, fd, de>>
      /\ insD.op = "mul" /\ (multi.doing => ~fin)
  BY DEF MultiStall, MultiDoing
<1>2. insE'.op = "none" /\ insD' = insD /\ insF' = insF
  BY <1>1, BubbleIsIdle DEF insE, insD, insF
<1>3. ~CsrFlush /\ ~StallData(hit, beat)
  BY DEF MultiStall
<1>4. BeforeE' = BeforeD /\ (LiveE' <=> LiveD)
  BY <1>3, BackMoves
<1>5. BeforeD' = BeforeD /\ BeforeF' = BeforeF /\ BeforeFetch' = BeforeFetch
  <2>1. BeforeD' = BeforeD
    BY <1>2, <1>4 DEF BeforeD, After
  <2>2. BeforeF' = BeforeF /\ BeforeFetch' = BeforeFetch
    BY <1>2, <2>1 DEF BeforeF, BeforeFetch, After
  <2>3. QED
    BY <2>1, <2>2
<1>6. (LiveD' <=> LiveD) /\ (LiveF' <=> LiveF) /\ (LiveFetch' <=> LiveFetch)
  BY <1>2, <1>4 DEF LiveD, LiveF, LiveFetch, Redirects
<1>7. QED
  BY <1>1, <1>5, <1>6

\* Execute goes on and decode waits.
LEMMA DecodeMoves ==
    ASSUME TypeOK, PipeInv, NEW hit, NEW beat, NEW fin, NEW found, NEW w,
           Clock(hit, beat, fin, found, w),
           DecodeStall(StallData(hit, beat), MultiDoing(fin))
    PROVE  /\ em' = dataE /\ de' = NoDecoded /\ UNCHANGED <<pc, fd>>
           /\ BeforeD' = BeforeF /\ BeforeF' = BeforeF /\ BeforeFetch' = BeforeFetch
           /\ (LiveD' <=> LiveF) /\ (LiveF' <=> LiveF) /\ (LiveFetch' <=> LiveFetch)
<1>1. em' = dataE /\ de' = NoDecoded /\ UNCHANGED <<pc, fd>>
  BY DEF DecodeStall
<1>2. insE' = insD /\ insD'.op = "none" /\ insF' = insF
  BY <1>1, BubbleIsIdle DEF dataE, insE, insD, insF
<1>3. ~CsrFlush /\ ~StallData(hit, beat)
  BY DEF DecodeStall
<1>4. BeforeE' = BeforeD /\ (LiveE' <=> LiveD)
  BY <1>3, BackMoves
<1>5. BeforeD' = BeforeF
  BY <1>2, <1>4 DEF BeforeD, BeforeF, After
<1>6. BeforeF' = BeforeF
  BY <1>2, <1>5 DEF BeforeF, After
<1>7. BeforeFetch' = BeforeFetch
  BY <1>2, <1>6 DEF BeforeFetch, After
<1>8. (LiveD' <=> LiveF) /\ (LiveF' <=> LiveF) /\ (LiveFetch' <=> LiveFetch)
  BY <1>2, <1>4 DEF LiveD, LiveF, LiveFetch, Redirects
<1>9. QED
  BY <1>1, <1>5, <1>6, <1>7, <1>8

\* Everything moves.
LEMMA FlowMoves ==
    ASSUME TypeOK, PipeInv, NEW hit, NEW beat, NEW fin, NEW found, NEW w,
           Clock(hit, beat, fin, found, w),
           Flow(StallData(hit, beat), MultiDoing(fin), w)
    PROVE  /\ em' = dataE /\ de' = dataD
           /\ insE' = insD /\ insD' = insF
           /\ BeforeD' = BeforeF /\ BeforeF' = BeforeFetch
           /\ (LiveD' <=> LiveF) /\ (LiveF' <=> LiveFetch)
<1>1. em' = dataE /\ de' = dataD /\ ~CsrFlush /\ ~StallData(hit, beat)
  BY DEF Flow
<1>2. insE' = insD /\ insD' = insF
  BY <1>1 DEF dataE, dataD, insE, insD, insF
<1>3. BeforeE' = BeforeD /\ (LiveE' <=> LiveD)
  BY <1>1, BackMoves
<1>4. BeforeD' = BeforeF
  BY <1>2, <1>3 DEF BeforeD, BeforeF, After
<1>5. BeforeF' = BeforeFetch
  BY <1>2, <1>4 DEF BeforeF, BeforeFetch, After
<1>6. (LiveD' <=> LiveF) /\ (LiveF' <=> LiveFetch)
  BY <1>2, <1>3 DEF LiveD, LiveF, LiveFetch, Redirects
<1>7. QED
  BY <1>1, <1>2, <1>4, <1>5, <1>6

-----------------------------------------------------------------------------
(* Operands.                                                               *)

\* The file, the write port and the two forwarding paths together have every
\* register as decode's predecessor leaves it, if no load on the way writes it.
LEMMA OperandIsAhead ==
    ASSUME TypeOK, DataInv, LiveD, NEW r \in Regs,
           ~(MemRead(insE) /\ Feeds(insE, r)), ~(MemRead(insM) /\ Feeds(insM, r))
    PROVE  BeforeD.regs[r] = Operand(r)
<1>1. /\ DiffTest /\ InW /\ InM /\ InE /\ LiveM /\ LiveE
      /\ ~Redirects(insW) /\ ~Redirects(insM) /\ ~Redirects(insE)
  BY DEF DataInv, LiveD, LiveE, LiveM
<1>2. BeforeM.regs[r] = IF RegWrite(insW) /\ insW.rd = r /\ r # 0 THEN WriteData ELSE regs[r]
  <2>1. BeforeM.regs[r] = IF RegWrite(insW) /\ insW.rd = r /\ r # 0
                          THEN Result(insW, ref) ELSE ref.regs[r]
    BY AheadTyped, AfterFields DEF BeforeM
  <2>2. RegWrite(insW) => WriteData = Result(insW, ref)
    BY <1>1 DEF InW, Computed, WriteData, RegWrite, MemRead, Redirects, insW
  <2>3. QED
    BY <1>1, <2>1, <2>2 DEF DiffTest
<1>3. BeforeE.regs[r] = IF RegWrite(insM) /\ insM.rd = r /\ r # 0
                        THEN dataM1.aluout ELSE BeforeM.regs[r]
  <2>1. BeforeE.regs[r] = IF RegWrite(insM) /\ insM.rd = r /\ r # 0
                          THEN Result(insM, BeforeM) ELSE BeforeM.regs[r]
    BY AheadTyped, AfterFields DEF BeforeE
  <2>2. RegWrite(insM) /\ insM.rd = r /\ r # 0 => dataM1.aluout = Result(insM, BeforeM)
    BY <1>1 DEF InM, Computed, RegWrite, MemRead, Redirects, Feeds, insM
  <2>3. QED
    BY <2>1, <2>2
<1>4. BeforeD.regs[r] = IF RegWrite(insE) /\ insE.rd = r /\ r # 0
                        THEN em.aluout ELSE BeforeE.regs[r]
  <2>1. BeforeD.regs[r] = IF RegWrite(insE) /\ insE.rd = r /\ r # 0
                          THEN Result(insE, BeforeE) ELSE BeforeE.regs[r]
    BY AheadTyped, AfterFields DEF BeforeD
  <2>2. RegWrite(insE) /\ insE.rd = r /\ r # 0 => em.aluout = Result(insE, BeforeE)
    BY <1>1 DEF InE, Computed, RegWrite, MemRead, Redirects, Feeds, insE
  <2>3. QED
    BY <2>1, <2>2
<1>5. QED
  BY <1>2, <1>3, <1>4 DEF Operand, Forward

\* The instruction that leaves D/E has computed what it should.
LEMMA ExecuteComputes ==
    ASSUME TypeOK, DataInv, LiveD, insD.op # "none", NEW fin, ~MultiDoing(fin)
    PROVE  OnPath(dataE, BeforeD) /\ Computed(dataE, BeforeD)
<1>1. OnPath(de, BeforeD) /\ InD
  BY DEF DataInv, InD
<1>2. insD.op = "mul" <=> UnitHolds
  BY DEF MultiDoing, UnitHolds
<1>3. /\ BeforeD.regs[insD.ra1] = IF UnitHolds THEN multi.a ELSE opA
      /\ BeforeD.regs[insD.ra2] = IF UnitHolds THEN multi.b ELSE opB
  BY DEF DataInv, InD
<1>4. de.pc = BeforeD.pc
  BY <1>1 DEF OnPath, insD
<1>5. dataE.word = de.word /\ dataE.pc = de.pc
  BY DEF dataE
<1>6. OnPath(dataE, BeforeD)
  BY <1>1, <1>5 DEF OnPath
<1>7. insD.op \in {"alu", "mul", "jal", "jalr"} => dataE.aluout = Result(insD, BeforeD)
  <2>1. CASE insD.op = "alu"
    <3>1. dataE.aluout = Alu(opA, opB)
      BY <2>1 DEF dataE, MemRead
    <3>2. Result(insD, BeforeD) = Alu(BeforeD.regs[insD.ra1], BeforeD.regs[insD.ra2])
      BY <2>1 DEF Result
    <3>3. QED
      BY <1>2, <1>3, <2>1, <3>1, <3>2
  <2>2. CASE insD.op = "mul"
    <3>1. dataE.aluout = Multi(multi.a, multi.b)
      BY <2>2 DEF dataE, MemRead
    <3>2. Result(insD, BeforeD) = Multi(BeforeD.regs[insD.ra1], BeforeD.regs[insD.ra2])
      BY <2>2 DEF Result
    <3>3. QED
      BY <1>2, <1>3, <2>2, <3>1, <3>2
  <2>3. CASE insD.op \in {"jal", "jalr"}
    <3>1. dataE.aluout = Plus4(de.pc)
      BY <2>3 DEF dataE, MemRead
    <3>2. Result(insD, BeforeD) = Plus4(BeforeD.pc)
      BY <2>3 DEF Result
    <3>3. QED
      BY <1>4, <3>1, <3>2
  <2>4. QED
    BY <2>1, <2>2, <2>3
<1>8. insD.op = "csr" => dataE.aluout = BeforeD.regs[insD.ra1]
  BY <1>2, <1>3 DEF dataE
<1>9. insD.op = "st" => dataE.memw_data = BeforeD.regs[insD.ra2]
  BY <1>2, <1>3 DEF dataE
<1>10. Computed(dataE, BeforeD)
  BY <1>5, <1>7, <1>8, <1>9 DEF Computed, insD
<1>11. QED
  BY <1>6, <1>10

\* The operands that execute will see of the instruction decode hands on.
LEMMA DecodeReads ==
    ASSUME TypeOK, DataInv, LiveF, NEW fin, ~MultiDoing(fin), ~LoadUse,
           NEW r \in {insF.ra1, insF.ra2}
    PROVE  BeforeF.regs[r] =
             IF RegWrite(insD) /\ insD.rd = r /\ r # 0 THEN dataE.aluout
             ELSE IF RegWrite(insE) /\ insE.rd = r /\ r # 0 THEN em.aluout
             ELSE Operand(r)
<1>1. /\ LiveD /\ ~Redirects(insD) /\ r \in Regs
      /\ insD \in Instrs /\ BeforeD \in States
  BY AheadTyped DEF LiveF, Instrs
<1>2. \A i \in {insD, insE, insM} : ~(MemRead(i) /\ Feeds(i, r))
  BY DEF LoadUse
<1>3. BeforeD.regs[r] = Operand(r)
  BY <1>1, <1>2, OperandIsAhead
<1>4. BeforeF.regs[r] = IF RegWrite(insD) /\ insD.rd = r /\ r # 0
                        THEN Result(insD, BeforeD) ELSE BeforeD.regs[r]
  BY <1>1, AfterFields DEF BeforeF
<1>5. RegWrite(insD) /\ insD.rd = r /\ r # 0 => dataE.aluout = Result(insD, BeforeD)
  <2>1. SUFFICES ASSUME RegWrite(insD), insD.rd = r, r # 0
                 PROVE  dataE.aluout = Result(insD, BeforeD)
    OBVIOUS
  <2>2. insD.op \in {"alu", "mul", "jal", "jalr"}
    BY <1>1, <1>2, <2>1 DEF RegWrite, MemRead, Feeds, Redirects
  <2>3. Computed(dataE, BeforeD) /\ dataE.word = de.word
    BY <1>1, <2>2, ExecuteComputes DEF dataE
  <2>4. QED
    BY <2>2, <2>3 DEF Computed, insD
<1>6. RegWrite(insE) /\ insE.rd = r /\ r # 0 => Operand(r) = em.aluout
  BY DEF Operand, Forward
<1>7. QED
  BY <1>3, <1>4, <1>5, <1>6

\* The operands a branch or a jump is decided by.
LEMMA BranchReads ==
    ASSUME TypeOK, DataInv, LiveF, ~LoadUse, ~BranchStall, BranchOrJump(insF),
           NEW r \in {insF.ra1} \union (IF insF.op = "branch" THEN {insF.ra2} ELSE {})
    PROVE  BeforeF.regs[r] = Operand(r)
<1>1. /\ LiveD /\ r \in Regs /\ r \in {insF.ra1, insF.ra2}
      /\ insD \in Instrs /\ BeforeD \in States
  BY AheadTyped DEF LiveF, Instrs
<1>2. \A i \in {insD, insE, insM} : ~(MemRead(i) /\ Feeds(i, r))
  BY <1>1 DEF LoadUse
<1>3. BeforeD.regs[r] = Operand(r)
  BY <1>1, <1>2, OperandIsAhead
<1>4. ~(RegWrite(insD) /\ Feeds(insD, r))
  BY DEF BranchStall
<1>5. BeforeF.regs[r] = BeforeD.regs[r]
  BY <1>1, <1>4, AfterFields DEF BeforeF, Feeds
<1>6. QED
  BY <1>3, <1>5

\* Where the program goes on behind the instruction in decode.
LEMMA TargetIsNext ==
    ASSUME TypeOK, DataInv, LiveFetch, ~LoadUse, ~BranchStall, insF.op # "none"
    PROVE  BeforeFetch.pc = TargetPC
<1>1. LiveF /\ ~Redirects(insF) /\ BeforeF \in States /\ insF \in Instrs
  BY AheadTyped DEF LiveFetch
<1>2. fd.pc = BeforeF.pc
  BY <1>1 DEF DataInv, InF, OnPath, insF
<1>3. BranchOrJump(insF) => rd1 = BeforeF.regs[insF.ra1]
  BY <1>1, BranchReads DEF rd1
<1>4. insF.op = "branch" => rd2 = BeforeF.regs[insF.ra2]
  BY <1>1, BranchReads DEF rd2, BranchOrJump
<1>5. BeforeFetch.pc = NextPC(insF, BeforeF)
  BY <1>1, AfterFields DEF BeforeFetch
<1>6. QED
  BY <1>1, <1>2, <1>3, <1>4, <1>5 DEF NextPC, TargetPC, Taken, BranchOrJump, Redirects

\* Fetch is there already if the branch was predicted right.
LEMMA FetchIsNext ==
    ASSUME TypeOK, DataInv, LiveFetch, ~LoadUse, ~BranchStall,
           BranchOrJump(insF) => BpHit
    PROVE  BpHit /\ pc = BeforeFetch.pc
<1>1. InFetch /\ fd.pred \in Predictions(insF) /\ ~Redirects(insF) /\ LiveF
  BY DEF DataInv, InF, LiveFetch
<1>2. CASE BranchOrJump(insF)
  <2>1. BpHit /\ BeforeFetch.pc = TargetPC
    BY <1>2, TargetIsNext DEF BranchOrJump
  <2>2. fd.pred => insF.op \in {"branch", "jal"}
    BY <1>1, <1>2 DEF Predictions, BranchOrJump
  <2>3. QED
    BY <1>1, <1>2, <2>1, <2>2 DEF InFetch, BpHit, TargetPC
<1>3. CASE ~BranchOrJump(insF)
  <2>1. fd.pred = FALSE
    BY <1>1, <1>3 DEF Predictions, BranchOrJump, Redirects
  <2>2. Taken = FALSE
    BY <1>3 DEF Taken, BranchOrJump
  <2>3. BpHit
    BY <2>1, <2>2 DEF BpHit
  <2>4. QED
    BY <1>1, <1>3, <2>3 DEF InFetch
<1>4. QED
  BY <1>2, <1>3

-----------------------------------------------------------------------------
(* An edge keeps each part.                                                *)

\* The reference and the registers agree.
LEMMA ClockKeepsDiffTest ==
    ASSUME TypeOK, DataInv, Commit
    PROVE  DiffTest'
<1>1. DiffTest /\ InW
  BY DEF DataInv
<1>2. /\ ref' = After(insW, ref) /\ ref \in States /\ insW \in Instrs
  BY RefMoves, AheadTyped DEF BeforeM
<1>3. RegWrite(insW) => WriteData = Result(insW, ref)
  <2>1. insW.op = "csr" => WriteData = Result(insW, ref)
    BY <1>1 DEF WriteData, Result, MemRead, DiffTest
  <2>2. MemRead(insW) => WriteData = Result(insW, ref)
    BY <1>1 DEF InW, WriteData, MemRead
  <2>3. insW.op \in {"alu", "mul", "jal", "jalr"} => WriteData = Result(insW, ref)
    BY <1>1 DEF InW, Computed, WriteData, MemRead, insW
  <2>4. QED
    BY <2>1, <2>2, <2>3 DEF RegWrite, MemRead
<1>4. regs' = ref'.regs
  BY <1>1, <1>2, <1>3, AfterFields DEF Commit, DiffTest
<1>5. csr' = ref'.csr
  BY <1>1, <1>2, AfterFields DEF Commit, DiffTest, InW, Computed, insW
<1>6. mepc' = ref'.mepc
  BY <1>1, <1>2, AfterFields DEF Commit, DiffTest, InW, OnPath, insW
<1>7. QED
  BY <1>4, <1>5, <1>6 DEF DiffTest

\* The device is answered, and read, in MEMORY10 only.
LEMMA DeviceIsServed ==
    ASSUME PipeInv, NEW hit, NEW beat, ~CsrFlush, ~StallData(hit, beat), insE.op = "dev"
    PROVE  dreq.valid /\ dreq.op = "dev" /\ AddrOk(hit, beat) /\ RespData = dev
<1>1. MemAccess(insE) /\ AddrOk(hit, beat)
  BY StallIsAnAccess DEF MemAccess
<1>2. dreq.valid /\ dreq.op = "dev"
  BY <1>1 DEF dreq, Resend, PipeInv, StageFollowsAccess
<1>3. QED
  BY <1>1, <1>2 DEF RespData

\* What is sent in a cycle that ends without a stall: an access in E/M, which
\* is accepted, or once more the one accepted in the last cycle.
LEMMA RequestIs ==
    ASSUME PipeInv, NEW hit, NEW beat, ~CsrFlush, ~StallData(hit, beat)
    PROVE  \/ /\ MemAccess(insE) /\ AddrOk(hit, beat)
              /\ dreq.valid /\ dreq.op = insE.op /\ dreq.data = em.memw_data
           \/ /\ ~MemAccess(insE)
              /\ dreq.valid => /\ insM.op \in {"ld", "st"} /\ dreq.op = insM.op
                               /\ dreq.data = dataM1.memw_data
<1>1. MemAccess(insE) => AddrOk(hit, beat)
  BY StallIsAnAccess
<1>2. QED
  BY <1>1 DEF dreq, Resend, PipeInv, StageFollowsAccess

\* Memory and device keep up with M1/M2.
LEMMA ClockKeepsMem ==
    ASSUME TypeOK, PipeInv, DataInv, NEW hit, NEW beat, NEW fin, NEW found, NEW w,
           Clock(hit, beat, fin, found, w)
    PROVE  InMem'
<1>0. DataCache(hit, beat) /\ Commit /\ InMem /\ InM /\ InE
  BY DEF Clock, DataInv
<1>1. CASE CsrFlush
  <2>1. insM.op = "none" /\ Lone(insW)
    BY <1>1 DEF PipeInv, Spaced, Lone, CsrFlush
  <2>2. ~dreq.valid
    BY <1>1, <2>1 DEF dreq, Resend, PipeInv, StageFollowsAccess
  <2>3. mem' = mem /\ dev' = dev
    BY <1>0, <2>2 DEF DataCache
  <2>4. BeforeE = BeforeM
    BY <2>1 DEF BeforeE, After
  <2>5. BeforeE' = BeforeM
    BY <1>0, <1>1, FlushEmpties, RefMoves DEF BeforeE, BeforeM, After
  <2>6. QED
    BY <1>0, <2>3, <2>4, <2>5 DEF InMem
<1>2. CASE ~CsrFlush /\ StallData(hit, beat)
  <2>1. ~AddrOk(hit, beat) /\ BeforeE' = BeforeE
    BY <1>2, StallIsAnAccess, StallMoves
  <2>2. mem' = mem /\ dev' = dev
    BY <1>0, <2>1 DEF DataCache
  <2>3. QED
    BY <1>0, <2>1, <2>2 DEF InMem
<1>3. CASE ~CsrFlush /\ ~StallData(hit, beat)
  <2>1. BeforeE' = BeforeD /\ LiveM
    BY <1>3, BackMoves
  <2>2. /\ BeforeD.mem = IF insE.op = "st" THEN BeforeE.regs[insE.ra2] ELSE BeforeE.mem
        /\ BeforeD.dev = IF insE.op = "dev" THEN (BeforeE.dev + 1) % N ELSE BeforeE.dev
        /\ BeforeE.mem = IF insM.op = "st" THEN BeforeM.regs[insM.ra2] ELSE BeforeM.mem
    BY AheadTyped, AfterFields DEF BeforeD, BeforeE
  <2>3. CASE MemAccess(insE)
    <3>1. AddrOk(hit, beat) /\ dreq.valid /\ dreq.op = insE.op /\ dreq.data = em.memw_data
      BY <1>3, <2>3, RequestIs
    <3>2. LiveE
      BY <2>1, <2>3 DEF LiveE, Redirects, PipeInv, Spaced, Lone, MemAccess
    <3>3. insE.op = "st" => em.memw_data = BeforeE.regs[insE.ra2]
      BY <1>0, <3>2 DEF InE, Computed, insE
    <3>4. QED
      BY <1>0, <2>1, <2>2, <3>1, <3>3 DEF DataCache, InMem
  <2>4. CASE ~MemAccess(insE)
    <3>1. dreq.valid => /\ insM.op \in {"ld", "st"} /\ dreq.op = insM.op
                        /\ dreq.data = dataM1.memw_data
      BY <1>3, <2>4, RequestIs
    <3>2. insM.op = "st" => dataM1.memw_data = BeforeM.regs[insM.ra2]
      BY <1>0, <2>1 DEF InM, Computed, insM
    <3>3. mem' = mem /\ dev' = dev
      BY <1>0, <2>2, <3>1, <3>2 DEF DataCache, InMem
    <3>4. QED
      BY <1>0, <2>1, <2>2, <2>4, <3>3 DEF InMem, MemAccess
  <2>5. QED
    BY <2>3, <2>4
<1>4. QED
  BY <1>1, <1>2, <1>3

\* What a bubble is compared with.
LEMMA BubbleIsRight ==
    ASSUME NEW r, NEW s, r.word.ins.op = "none"
    PROVE  OnPath(r, s) /\ Computed(r, s)
BY DEF OnPath, Computed

LEMMA ClockKeepsW ==
    ASSUME TypeOK, PipeInv, DataInv, NEW hit, NEW beat, NEW fin, NEW found, NEW w,
           Clock(hit, beat, fin, found, w)
    PROVE  InW'
<1>1. CASE CsrFlush \/ StallData(hit, beat)
  <2>1. insW'.op = "none"
    BY <1>1, FlushEmpties, InstructionsMove
  <2>2. QED
    BY <2>1, BubbleIsRight DEF InW, MemRead, OnPath, Computed, insW
<1>2. CASE ~CsrFlush /\ ~StallData(hit, beat)
  <2>1. mw' = dataM /\ insW' = insM /\ ref' = BeforeM /\ LiveM
    BY <1>2, BackMoves
  <2>2. /\ dataM.word = dataM1.word /\ dataM.pc = dataM1.pc
        /\ dataM.aluout = dataM1.aluout /\ dataM.memw_data = dataM1.memw_data
    BY DEF dataM, TypeOK, Memoried
  <2>3. InM
    BY DEF DataInv
  <2>4. OnPath(dataM, BeforeM) /\ Computed(dataM, BeforeM)
    BY <2>1, <2>2, <2>3 DEF InM, OnPath, Computed
  <2>5. MemRead(insM) => dataM.memr_data = Result(insM, BeforeM)
    BY <2>1, <2>3 DEF InM
  <2>6. QED
    BY <2>1, <2>4, <2>5 DEF InW, OnPath, Computed, Result
<1>3. QED
  BY <1>1, <1>2

LEMMA ClockKeepsM ==
    ASSUME TypeOK, PipeInv, DataInv, NEW hit, NEW beat, NEW fin, NEW found, NEW w,
           Clock(hit, beat, fin, found, w)
    PROVE  InM'
<1>0. InM /\ InE /\ InMem /\ MemoryStage(hit, beat) /\ DataCache(hit, beat)
  BY DEF DataInv, Clock
<1>1. CASE CsrFlush
  <2>1. insM'.op = "none"
    BY <1>1, FlushEmpties
  <2>2. QED
    BY <2>1 DEF InM, MemRead, OnPath, Computed, insM
<1>2. CASE ~CsrFlush /\ StallData(hit, beat)
  <2>1. /\ dataM1' = dataM1 /\ BeforeM' = BeforeM /\ (LiveM' <=> LiveM)
        /\ ~MemRead(insM) /\ insM' = insM
    BY <1>2, StallMoves DEF MemRead, insM
  <2>2. QED
    BY <1>0, <2>1 DEF InM, MemRead, OnPath, Computed, Result
<1>3. CASE ~CsrFlush /\ ~StallData(hit, beat)
  <2>1. /\ insM' = insE /\ BeforeM' = BeforeE /\ (LiveM' <=> LiveE)
        /\ dataM1' = Moved(IF insE.op = "dev" THEN RespData ELSE 0)
    BY <1>3, BackMoves
  <2>2. /\ dataM1'.word = em.word /\ dataM1'.pc = em.pc
        /\ dataM1'.aluout = em.aluout /\ dataM1'.memw_data = em.memw_data
        /\ dataM1'.memr_data = IF insE.op = "dev" THEN RespData ELSE 0
    BY <2>1 DEF Moved
  <2>3. LiveE => OnPath(dataM1, BeforeM)' /\ Computed(dataM1, BeforeM)'
    BY <1>0, <2>1, <2>2 DEF InE, OnPath, Computed, Result
  <2>4. insE.op = "ld" => dataM'.memr_data = BeforeE.mem
    <3>1. SUFFICES ASSUME insE.op = "ld" PROVE dataM'.memr_data = BeforeE.mem
      OBVIOUS
    <3>2. mstate' = "MEMORY01" /\ insM'.op = "ld"
      BY <1>0, <1>3, <2>1, <3>1, StageMoves
    <3>3. dreq'.op = "ld"
      BY <3>2 DEF dreq, Resend
    <3>4. dataM'.memr_data = hit_rdata'
      BY <2>1, <3>2, <3>3 DEF dataM, RespData, Moved
    <3>5. hit_rdata' = BeforeE.mem
      BY <1>0 DEF DataCache, InMem
    <3>6. QED
      BY <3>4, <3>5
  <2>5. insE.op = "dev" => dataM'.memr_data = BeforeE.dev
    <3>1. SUFFICES ASSUME insE.op = "dev" PROVE dataM'.memr_data = BeforeE.dev
      OBVIOUS
    <3>2. mstate' = "IDLE"
      BY <1>0, <1>3, <3>1, StageMoves
    <3>3. dataM'.memr_data = RespData
      BY <2>1, <3>1, <3>2 DEF dataM, Moved
    <3>4. QED
      BY <1>0, <1>3, <3>1, <3>3, DeviceIsServed DEF InMem
  <2>6. MemRead(insE) => dataM'.memr_data = Result(insE, BeforeE)
    BY <2>4, <2>5 DEF MemRead, Result
  <2>7. QED
    BY <2>1, <2>3, <2>6 DEF InM, Result
<1>4. QED
  BY <1>1, <1>2, <1>3

LEMMA ClockKeepsE ==
    ASSUME TypeOK, PipeInv, DataInv, NEW hit, NEW beat, NEW fin, NEW found, NEW w,
           Clock(hit, beat, fin, found, w)
    PROVE  InE'
<1> DEFINE stall == StallData(hit, beat)
           doing == MultiDoing(fin)
<1>1. CASE CsrFlush \/ MultiStall(stall, doing)
  <2>1. insE'.op = "none"
    BY <1>1, FlushEmpties, MultiMoves, BubbleIsIdle DEF insE
  <2>2. QED
    BY <2>1 DEF InE, OnPath, Computed, insE
<1>2. CASE ~CsrFlush /\ stall
  <2>1. em' = em /\ BeforeE' = BeforeE /\ (LiveE' <=> LiveE)
    BY <1>2, StallMoves
  <2>2. QED
    BY <2>1 DEF DataInv, InE, OnPath, Computed, Result
<1>3. CASE DecodeStall(stall, doing) \/ Flow(stall, doing, w)
  <2>1. em' = dataE /\ ~CsrFlush /\ ~stall /\ ~doing
    BY <1>3 DEF DecodeStall, Flow
  <2>2. BeforeE' = BeforeD /\ (LiveE' <=> LiveD)
    BY <2>1, BackMoves
  <2>3. dataE.word.ins = insD
    BY DEF dataE, insD
  <2>4. LiveD => OnPath(dataE, BeforeD) /\ Computed(dataE, BeforeD)
    <3>1. CASE insD.op = "none"
      BY <2>3, <3>1, BubbleIsRight
    <3>2. CASE insD.op # "none"
      BY <2>1, <3>2, ExecuteComputes
    <3>3. QED
      BY <3>1, <3>2
  <2>5. QED
    BY <2>1, <2>2, <2>4 DEF InE, OnPath, Computed, Result
<1>4. QED
  BY <1>1, <1>2, <1>3 DEF Clock, Flush, DataStall

\* The unit is busy for the instruction in D/E only, and empty again when that
\* one moves on.
LEMMA UnitMoves ==
    ASSUME TypeOK, PipeInv, DataInv, NEW hit, NEW beat, NEW fin, NEW found, NEW w,
           Clock(hit, beat, fin, found, w)
    PROVE  /\ CsrFlush => ~multi'.doing
           /\ ~CsrFlush /\ StallData(hit, beat) => ~multi'.doing
           /\ ~CsrFlush /\ ~MultiDoing(fin) => ~multi'.doing
           /\ MultiStall(StallData(hit, beat), MultiDoing(fin)) =>
                IF multi.doing THEN multi' = multi
                ELSE multi' = [doing |-> TRUE, a |-> opA, b |-> opB]
<1>1. MultiUnit(fin) /\ UnitInUse
  BY DEF Clock, DataInv
<1>2. CsrFlush => ~multi'.doing
  BY <1>1 DEF MultiUnit
<1>3. ASSUME ~CsrFlush, ~MultiDoing(fin)
      PROVE  ~multi'.doing
  <2>1. CASE multi.doing
    <3>1. fin
      BY <1>1, <1>3, <2>1 DEF MultiDoing, UnitInUse
    <3>2. multi' = [multi EXCEPT !.doing = ~fin]
      BY <1>1, <1>3, <2>1 DEF MultiUnit
    <3>3. QED
      BY <3>1, <3>2 DEF TypeOK
  <2>2. CASE ~multi.doing
    <3>1. insD.op # "mul"
      BY <1>3, <2>2 DEF MultiDoing
    <3>2. multi' = multi
      BY <1>1, <1>3, <2>2, <3>1 DEF MultiUnit
    <3>3. QED
      BY <2>2, <3>2
  <2>3. QED
    BY <2>1, <2>2
<1>4. ~CsrFlush /\ StallData(hit, beat) => ~multi'.doing
  <2>1. ~CsrFlush /\ StallData(hit, beat) => insD.op = "none"
    BY StallMoves
  <2>2. QED
    BY <1>3, <2>1 DEF MultiDoing
<1>5. ASSUME MultiStall(StallData(hit, beat), MultiDoing(fin))
      PROVE  IF multi.doing THEN multi' = multi
             ELSE multi' = [doing |-> TRUE, a |-> opA, b |-> opB]
  <2>1. ~CsrFlush /\ insD.op = "mul" /\ (multi.doing => ~fin)
    BY <1>5, MultiMoves DEF MultiStall
  <2>2. CASE multi.doing
    <3>1. multi' = [multi EXCEPT !.doing = ~fin]
      BY <1>1, <2>1, <2>2 DEF MultiUnit
    <3>2. multi.doing = TRUE /\ (~fin) = TRUE
      BY <2>1, <2>2 DEF TypeOK
    <3>3. QED
      BY <2>2, <3>1, <3>2 DEF TypeOK
  <2>3. CASE ~multi.doing
    BY <1>1, <2>1, <2>3 DEF MultiUnit
  <2>4. QED
    BY <2>2, <2>3
<1>6. QED
  BY <1>2, <1>3, <1>4, <1>5

LEMMA ClockKeepsUnit ==
    ASSUME TypeOK, PipeInv, DataInv, NEW hit, NEW beat, NEW fin, NEW found, NEW w,
           Clock(hit, beat, fin, found, w)
    PROVE  UnitInUse'
<1>1. CASE MultiStall(StallData(hit, beat), MultiDoing(fin))
  <2>1. insD'.op = "mul"
    BY <1>1, MultiMoves DEF insD
  <2>2. QED
    BY <2>1 DEF UnitInUse
<1>2. CASE ~MultiStall(StallData(hit, beat), MultiDoing(fin))
  <2>1. CsrFlush \/ StallData(hit, beat) \/ ~MultiDoing(fin)
    BY <1>2 DEF Clock, Flush, DataStall, DecodeStall, Flow
  <2>2. ~multi'.doing
    BY <2>1, UnitMoves
  <2>3. QED
    BY <2>2 DEF UnitInUse
<1>3. QED
  BY <1>1, <1>2

\* Execute will forward the values decode could not have yet.
LEMMA ForwardedIsRead ==
    ASSUME TypeOK, PipeInv, DataInv, NEW hit, NEW beat, NEW fin, NEW found, NEW w,
           Clock(hit, beat, fin, found, w),
           Flow(StallData(hit, beat), MultiDoing(fin), w), LiveF
    PROVE  opA' = BeforeF.regs[insF.ra1] /\ opB' = BeforeF.regs[insF.ra2]
<1>1. ~CsrFlush /\ ~StallData(hit, beat) /\ ~MultiDoing(fin) /\ ~LoadUse
  BY DEF Flow
<1>2. /\ insE' = insD /\ insD' = insF /\ insM' = insE
      /\ em' = dataE /\ de' = dataD /\ dataM1'.aluout = em.aluout
  BY <1>1, BackMoves, FlowMoves DEF Moved
<1>3. /\ de'.rd1 = Operand(insF.ra1) /\ de'.rd2 = Operand(insF.ra2)
      /\ em'.aluout = dataE.aluout
  BY <1>2 DEF dataD, rd1, rd2
<1>4. \A r \in {insF.ra1, insF.ra2} : BeforeF.regs[r] =
          IF RegWrite(insD) /\ insD.rd = r /\ r # 0 THEN dataE.aluout
          ELSE IF RegWrite(insE) /\ insE.rd = r /\ r # 0 THEN em.aluout
          ELSE Operand(r)
  BY <1>1, DecodeReads
<1>5. opA' = BeforeF.regs[insF.ra1]
  BY <1>2, <1>3, <1>4 DEF opA, Forward, RegWrite
<1>6. opB' = BeforeF.regs[insF.ra2]
  BY <1>2, <1>3, <1>4 DEF opB, Forward, RegWrite
<1>7. QED
  BY <1>5, <1>6

LEMMA ClockKeepsD ==
    ASSUME TypeOK, PipeInv, DataInv, NEW hit, NEW beat, NEW fin, NEW found, NEW w,
           Clock(hit, beat, fin, found, w)
    PROVE  InD'
<1> DEFINE stall == StallData(hit, beat)
           doing == MultiDoing(fin)
<1>1. CASE CsrFlush \/ stall \/ DecodeStall(stall, doing)
  <2>1. insD'.op = "none"
    <3>1. CASE CsrFlush
      BY <3>1, FlushEmpties
    <3>2. CASE ~CsrFlush /\ stall
      BY <3>2, StallMoves DEF insD
    <3>3. CASE DecodeStall(stall, doing)
      BY <3>3, BubbleIsIdle DEF DecodeStall, insD
    <3>4. QED
      BY <1>1, <3>1, <3>2, <3>3
  <2>2. QED
    BY <2>1 DEF InD
<1>2. CASE MultiStall(stall, doing)
  <2>1. /\ de' = de /\ BeforeD' = BeforeD /\ (LiveD' <=> LiveD) /\ insD' = insD
        /\ insD.op = "mul"
    BY <1>2, MultiMoves DEF insD
  <2>2. IF multi.doing THEN multi' = multi
        ELSE multi' = [doing |-> TRUE, a |-> opA, b |-> opB]
    BY <1>2, UnitMoves
  <2>3. SUFFICES ASSUME LiveD
                 PROVE  /\ OnPath(de, BeforeD)'
                        /\ BeforeD'.regs[insD'.ra1] = IF UnitHolds' THEN multi'.a ELSE opA'
                        /\ BeforeD'.regs[insD'.ra2] = IF UnitHolds' THEN multi'.b ELSE opB'
    BY <2>1 DEF InD
  <2>4. /\ OnPath(de, BeforeD)
        /\ BeforeD.regs[insD.ra1] = IF UnitHolds THEN multi.a ELSE opA
        /\ BeforeD.regs[insD.ra2] = IF UnitHolds THEN multi.b ELSE opB
    BY <2>1, <2>3 DEF DataInv, InD
  <2>5. UnitHolds' /\ (UnitHolds <=> multi.doing)
    BY <2>1, <2>2 DEF UnitHolds
  <2>6. /\ multi'.a = IF UnitHolds THEN multi.a ELSE opA
        /\ multi'.b = IF UnitHolds THEN multi.b ELSE opB
    BY <2>2, <2>5
  <2>7. QED
    BY <2>1, <2>4, <2>5, <2>6 DEF OnPath
<1>3. CASE Flow(stall, doing, w)
  <2>1. /\ insD' = insF /\ de' = dataD /\ BeforeD' = BeforeF /\ (LiveD' <=> LiveF)
    BY <1>3, FlowMoves
  <2>2. ~UnitHolds'
    BY <1>3, UnitMoves DEF UnitHolds, Flow
  <2>3. LiveF => OnPath(fd, BeforeF)
    BY DEF DataInv, InF
  <2>4. LiveF => OnPath(de, BeforeD)'
    BY <2>1, <2>3 DEF OnPath, dataD
  <2>5. QED
    BY <1>3, <2>1, <2>2, <2>4, ForwardedIsRead DEF InD
<1>4. QED
  BY <1>1, <1>2, <1>3 DEF Clock, Flush, DataStall

-----------------------------------------------------------------------------
(* Fetch.                                                                  *)

\* A word that is taken is that of pc, and no bubble.
LEMMA WordTaken ==
    ASSUME WordOfPc, NEW w \in FetchedWords, icache.ok \/ ~icache_req_o
    PROVE  w.at = pc /\ w.ins \in Issued /\ w.ins.op # "none"
BY IssuedAssumption DEF WordOfPc, FetchedWords

LEMMA ClockKeepsWord ==
    ASSUME DataInv, NEW hit, NEW beat, NEW fin, NEW found, NEW w \in FetchedWords,
           Clock(hit, beat, fin, found, w)
    PROVE  WordOfPc'
<1> DEFINE stall == StallData(hit, beat)
           doing == MultiDoing(fin)
<1>1. /\ WordOfPc
      /\ raw_instr' = w
      /\ icache' = [ok |-> ireqValid /\ ~icache.ok /\ found, pc |-> pc]
      /\ icache_req_o' = CASE CsrFlush -> TRUE
                           [] ~CsrFlush /\ IDataOk -> ~stall /\ ~LoadUse /\ ~BranchStall
                           [] OTHER -> icache_req_o
  BY DEF DataInv, Clock, FetchStage
<1>2. CASE CsrFlush
  <2>1. icache_req_o' /\ ~icache'.ok
    BY <1>1, <1>2 DEF ireqValid
  <2>2. QED
    BY <2>1 DEF WordOfPc
<1>3. CASE Flow(stall, doing, w)
  <2>1. ~CsrFlush /\ IDataOk /\ ~stall /\ ~LoadUse /\ ~BranchStall
    BY <1>3 DEF Flow
  <2>2. icache_req_o'
    BY <1>1, <2>1
  <2>3. ~icache'.ok
    BY <1>1, <2>1 DEF IDataOk
  <2>4. QED
    BY <2>2, <2>3 DEF WordOfPc
<1>4. CASE ~CsrFlush /\ ~Flow(stall, doing, w)
  <2>1. pc' = pc
    BY <1>4 DEF Clock, Flush, DataStall, MultiStall, DecodeStall
  <2>2. CASE IDataOk
    <3>1. ~icache'.ok
      BY <1>1, <2>2 DEF IDataOk
    <3>2. icache.ok \/ ~icache_req_o
      BY <1>4, <2>2 DEF IDataOk, ireqValid
    <3>3. w.at = pc /\ w.ins \in Issued
      BY <1>1, <3>2, WordTaken
    <3>4. QED
      BY <1>1, <2>1, <3>1, <3>3 DEF WordOfPc
  <2>3. CASE ~IDataOk
    <3>1. icache_req_o' = icache_req_o /\ icache_req_o
      BY <1>1, <1>4, <2>3 DEF IDataOk, ireqValid
    <3>2. icache_req_o'
      BY <3>1, Zenon
    <3>3. icache'.pc = pc'
      BY <1>1, <2>1
    <3>4. QED
      BY <3>2, <3>3 DEF WordOfPc
  <2>4. QED
    BY <2>2, <2>3
<1>5. QED
  BY <1>2, <1>3, <1>4

\* A flush sends fetch to where the program goes on.
LEMMA FlushTarget ==
    ASSUME TypeOK, DataInv, CsrFlush
    PROVE  BeforeM.pc = CsrPcNxt
<1>1. BeforeM.pc = NextPC(insW, ref)
  BY AheadTyped, AfterFields DEF BeforeM, CsrFlush
<1>2. mw.pc = ref.pc /\ mepc = ref.mepc
  BY DEF DataInv, InW, OnPath, DiffTest, CsrFlush, insW
<1>3. QED
  BY <1>1, <1>2 DEF NextPC, CsrPcNxt, CsrFlush

\* At an edge where everything moves the word fetched enters F/D if it is the
\* next of the program.
LEMMA FlowFetches ==
    ASSUME TypeOK, PipeInv, DataInv, NEW hit, NEW beat, NEW fin, NEW found,
           NEW w \in FetchedWords, Clock(hit, beat, fin, found, w),
           Flow(StallData(hit, beat), MultiDoing(fin), w)
    PROVE  InF' /\ InFetch'
<1>1. /\ ~CsrFlush /\ IDataOk /\ ~LoadUse /\ ~BranchStall
      /\ WordOfPc
  BY DEF Flow, DataInv
<1>2. PICK p \in Predictions(w.ins) :
        /\ pc' = IF BpHit THEN Predicted(w.ins, p) ELSE TargetPC
        /\ fd' = IF BranchOrJump(insF) /\ ~BpHit THEN NoFetched
                 ELSE [word |-> w, pc |-> pc, pred |-> p]
  BY DEF Flow
<1>3. BeforeF' = BeforeFetch /\ (LiveF' <=> LiveFetch)
  BY FlowMoves
<1>4. w.at = pc /\ w.ins.op # "none"
  <2>1. icache.ok \/ ~icache_req_o
    BY <1>1 DEF IDataOk, ireqValid
  <2>2. QED
    BY <1>1, <2>1, WordTaken
<1>5. CASE BranchOrJump(insF) /\ ~BpHit
  <2>1. fd' = NoFetched /\ pc' = TargetPC
    BY <1>2, <1>5
  <2>2. insF'.op = "none" /\ fd'.pred = FALSE
    BY <2>1, BubbleIsIdle DEF insF, NoFetched
  <2>3. InF'
    BY <2>2 DEF InF, OnPath, Predictions, insF
  <2>4. BeforeFetch' = BeforeFetch /\ (LiveFetch' => LiveFetch)
    BY <1>3, <2>2 DEF BeforeFetch, After, LiveFetch
  <2>5. LiveFetch => BeforeFetch.pc = TargetPC
    BY <1>1, <1>5, TargetIsNext DEF BranchOrJump
  <2>6. InFetch'
    BY <2>1, <2>2, <2>4, <2>5 DEF InFetch, BranchOrJump
  <2>7. QED
    BY <2>3, <2>6
<1>6. CASE BranchOrJump(insF) => BpHit
  <2>1. fd' = [word |-> w, pc |-> pc, pred |-> p] /\ insF' = w.ins
    BY <1>2, <1>6 DEF insF
  <2>2. LiveFetch => BpHit /\ pc = BeforeFetch.pc
    BY <1>1, <1>6, FetchIsNext
  <2>3. InF'
    BY <1>2, <1>3, <1>4, <2>1, <2>2 DEF InF, OnPath
  <2>4. LiveFetch' => LiveFetch /\ ~Redirects(w.ins)
    BY <1>3, <2>1 DEF LiveFetch, Redirects
  <2>5. LiveFetch' => pc' = Predicted(w.ins, p)
    BY <1>2, <2>2, <2>4
  <2>6. ASSUME LiveFetch', ~BranchOrJump(w.ins)
        PROVE  pc' = BeforeFetch'.pc
    <3>1. p = FALSE
      BY <1>2, <2>4, <2>6 DEF Predictions, Redirects, BranchOrJump
    <3>2. pc' = Plus4(pc)
      BY <2>5, <2>6, <3>1 DEF Predicted
    <3>3. BeforeFetch' = After(w.ins, BeforeFetch)
      BY <1>3, <2>1 DEF BeforeFetch, After
    <3>4. w.ins \in Instrs
      BY IssuedAssumption, <1>4, InstrFields DEF FetchedWords, TypeOK, Word
    <3>5. After(w.ins, BeforeFetch).pc = NextPC(w.ins, BeforeFetch)
      BY <1>4, <3>4, AheadTyped, AfterFields
    <3>6. NextPC(w.ins, BeforeFetch) = Plus4(BeforeFetch.pc)
      BY <2>4, <2>6 DEF NextPC, Redirects, BranchOrJump
    <3>7. QED
      BY <2>2, <2>4, <2>6, <3>2, <3>3, <3>5, <3>6
  <2>7. InFetch'
    BY <2>1, <2>5, <2>6 DEF InFetch, Predicted, BranchOrJump, Plus4
  <2>8. QED
    BY <2>3, <2>7
<1>7. QED
  BY <1>5, <1>6

LEMMA ClockKeepsFetch ==
    ASSUME TypeOK, PipeInv, DataInv, NEW hit, NEW beat, NEW fin, NEW found,
           NEW w \in FetchedWords, Clock(hit, beat, fin, found, w)
    PROVE  InF' /\ InFetch'
<1> DEFINE stall == StallData(hit, beat)
           doing == MultiDoing(fin)
<1>1. CASE CsrFlush
  <2>1. Flush /\ Commit
    BY <1>1 DEF Clock, DataStall, MultiStall, DecodeStall, Flow
  <2>2. /\ insW'.op = "none" /\ insM'.op = "none" /\ insE'.op = "none"
        /\ insD'.op = "none" /\ insF'.op = "none"
    BY <1>1, FlushEmpties
  <2>3. InF'
    BY <2>1, <2>2 DEF Flush, InF, OnPath, Predictions, NoFetched, insF
  <2>4. BeforeFetch' = BeforeM
    BY <2>1, <2>2, RefMoves DEF BeforeFetch, BeforeF, BeforeD, BeforeE, BeforeM, After
  <2>5. pc' = BeforeM.pc
    BY <1>1, <2>1, FlushTarget DEF Flush
  <2>6. QED
    BY <2>2, <2>3, <2>4, <2>5 DEF InFetch, BranchOrJump
<1>2. CASE (~CsrFlush /\ stall) \/ MultiStall(stall, doing) \/ DecodeStall(stall, doing)
  <2>1. /\ UNCHANGED <<pc, fd>> /\ BeforeF' = BeforeF /\ BeforeFetch' = BeforeFetch
        /\ (LiveF' <=> LiveF) /\ (LiveFetch' <=> LiveFetch)
    BY <1>2, StallMoves, MultiMoves, DecodeMoves
  <2>2. insF' = insF /\ InF /\ InFetch
    BY <2>1 DEF insF, DataInv
  <2>3. QED
    BY <2>1, <2>2 DEF InF, InFetch, OnPath, Predictions, BranchOrJump, Plus4
<1>3. CASE Flow(stall, doing, w)
  BY <1>3, FlowFetches
<1>4. QED
  BY <1>1, <1>2, <1>3 DEF Clock, Flush, DataStall

-----------------------------------------------------------------------------
(* The invariant of the data.                                              *)

LEMMA InitDataInv == Init => DataInv
<1> SUFFICES ASSUME Init PROVE DataInv
  OBVIOUS
<1>1. /\ insW.op = "none" /\ insM.op = "none" /\ insE.op = "none"
      /\ insD.op = "none" /\ insF.op = "none"
  BY BubbleIsIdle DEF Init, insW, insM, insE, insD, insF
<1>2. /\ BeforeM = Reset /\ BeforeE = Reset /\ BeforeD = Reset
      /\ BeforeF = Reset /\ BeforeFetch = Reset
  BY <1>1 DEF BeforeM, BeforeE, BeforeD, BeforeF, BeforeFetch, After, Init
<1>3. DiffTest /\ InMem
  BY <1>2 DEF Init, DiffTest, InMem, Reset
<1>4. InW /\ InM /\ InE /\ InD
  BY <1>1, BubbleIsRight DEF InW, InM, InE, InD, MemRead, insW, insM, insE
<1>5. InF
  BY <1>1 DEF InF, OnPath, Predictions, Init, NoFetched, insF
<1>6. InFetch
  BY <1>1, <1>2 DEF InFetch, BranchOrJump, Init, Reset
<1>7. UnitInUse /\ WordOfPc
  BY DEF Init, UnitInUse, WordOfPc
<1>8. QED
  BY <1>3, <1>4, <1>5, <1>6, <1>7 DEF DataInv

LEMMA NextDataInv == TypeOK /\ PipeInv /\ DataInv /\ [Next]_vars => DataInv'
<1> SUFFICES ASSUME TypeOK, PipeInv, DataInv, [Next]_vars PROVE DataInv'
  OBVIOUS
<1>1. CASE Next
  <2>1. PICK hit \in BOOLEAN, beat \in BOOLEAN, fin \in BOOLEAN, found \in BOOLEAN, w \in FetchedWords :
           Clock(hit, beat, fin, found, w)
    BY <1>1 DEF Next, Step, Answers
  <2>2. Commit
    BY <2>1 DEF Clock
  <2>3. DiffTest'
    BY <2>2, ClockKeepsDiffTest
  <2>4. InW' /\ InM' /\ InE' /\ InD' /\ InMem'
    BY <2>1, ClockKeepsW, ClockKeepsM, ClockKeepsE, ClockKeepsD, ClockKeepsMem
  <2>5. InF' /\ InFetch' /\ UnitInUse' /\ WordOfPc'
    BY <2>1, ClockKeepsFetch, ClockKeepsUnit, ClockKeepsWord
  <2>6. QED
    BY <2>3, <2>4, <2>5 DEF DataInv
<1>2. CASE UNCHANGED vars
  <2>1. /\ UNCHANGED <<pc, icache_req_o, raw_instr, icache, fd, de, em, mw, mstate,
                      dataM1, multi, regs, csr, mepc, mem, dev, hit_rdata, ref>>
        /\ UNCHANGED <<insW, insM, insE, insD, insF>>
    BY <1>2 DEF vars, fetchVars, pipeVars, memVars, archVars, insW, insM, insE, insD, insF
  <2>2. UNCHANGED <<BeforeM, BeforeE, BeforeD, BeforeF, BeforeFetch>>
    BY <2>1 DEF BeforeM, BeforeE, BeforeD, BeforeF, BeforeFetch, After
  <2>3. UNCHANGED <<LiveM, LiveE, LiveD, LiveF, LiveFetch>>
    BY <2>1 DEF LiveM, LiveE, LiveD, LiveF, LiveFetch, Redirects
  <2>4. UNCHANGED <<opA, opB, dataM>>
    BY <2>1 DEF opA, opB, Forward, RegWrite, dataM, RespData, dreq, Resend,
       CsrFlush, MemAccess
  <2>5. DiffTest' /\ InMem' /\ UnitInUse' /\ WordOfPc'
    BY <2>1, <2>2 DEF DataInv, DiffTest, InMem, UnitInUse, WordOfPc
  <2>6. InW' /\ InM' /\ InE'
    BY <2>1, <2>2, <2>3, <2>4
    DEF DataInv, InW, InM, InE, OnPath, Computed, Result, MemRead
  <2>7. InD'
    BY <2>1, <2>2, <2>3, <2>4 DEF DataInv, InD, OnPath, UnitHolds
  <2>8. InF' /\ InFetch'
    BY <2>1, <2>2, <2>3
    DEF DataInv, InF, InFetch, OnPath, Predictions, BranchOrJump, Plus4
  <2>9. QED
    BY <2>5, <2>6, <2>7, <2>8 DEF DataInv
<1>3. QED
  BY <1>1, <1>2

\* Every stage holds what the reference will have there, in every state of
\* the pipeline, whatever the caches, the device and the predictor do.
THEOREM DataInvHolds == Spec => []DataInv
BY InitDataInv, NextDataInv, PipelineTypes, PipeInvHolds, PTL DEF Spec

\* The instructions commit in program order, none twice and none left out, each
\* read from the address it is executed for: no prediction, stall or redirect
\* puts another instruction into writeback.
THEOREM PipelineCommits == Spec => []CommitsInOrder
<1>1. DataInv => CommitsInOrder
  BY DEF DataInv, InW, OnPath, CommitsInOrder, insW
<1>2. QED
  BY <1>1, DataInvHolds, PTL

\* The registers, the CSR and mepc are the reference's after every commit: the
\* stalls and the forwarding paths deliver each operand in time.
THEOREM PipelineIsReference == Spec => []DiffTest
<1>1. DataInv => DiffTest
  BY DEF DataInv
<1>2. QED
  BY <1>1, DataInvHolds, PTL

\* When a trap, a return or a CSR write redirects, the instructions behind it
\* have accessed nothing; an access is made once.
THEOREM AccessesArePrecise == Spec => []MemoryIsPrecise
<1>1. ASSUME TypeOK, PipeInv, DataInv PROVE MemoryIsPrecise
  <2>1. SUFFICES ASSUME CsrFlush \/ (~MemAccess(insM) /\ ~MemAccess(insW))
                 PROVE  mem = ref.mem /\ dev = ref.dev
    BY DEF MemoryIsPrecise
  <2>2. ~MemAccess(insM) /\ ~MemAccess(insW)
    BY <2>1, <1>1 DEF CsrFlush, MemAccess, PipeInv, Spaced, Lone
  <2>3. /\ BeforeE.mem = BeforeM.mem /\ BeforeE.dev = BeforeM.dev
        /\ BeforeM.mem = ref.mem /\ BeforeM.dev = ref.dev
    BY <1>1, <2>2, AheadTyped, AfterFields DEF BeforeE, BeforeM, MemAccess
  <2>4. QED
    BY <1>1, <2>3 DEF DataInv, InMem
<1>2. QED
  BY <1>1, PipelineTypes, PipeInvHolds, DataInvHolds, PTL
=============================================================================
