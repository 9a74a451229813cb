------------------------------ MODULE Pipeline ------------------------------
(***************************************************************************)
(* The five-stage pipeline of vsrc/pipeline: fetch with any predictor,     *)
(* decode, execute with a multi-cycle unit, the two cycles of memory,      *)
(* writeback, the hazard unit and the forwarding unit.  One step is one    *)
(* clock edge.                                                             *)
(*                                                                         *)
(* The caches answer after any number of cycles: the instruction cache as  *)
(* ICache.sv does (a hit is looked up in one cycle and answered in the     *)
(* next, never in two cycles in a row), the data cache as DCacheMem shows  *)
(* of it.  The instruction at an address is any of Issued, chosen anew     *)
(* each time it is fetched, so no program is fixed; `ref` executes what    *)
(* commits, as difftest's reference model does.                            *)
(***************************************************************************)
EXTENDS Isa

CONSTANT Issued  \* the instructions the programs are made of

\* No word of a program is zero: decode takes one for a bubble.
ASSUME IssuedAssumption == Issued \subseteq {i \in Instrs : i.op # "none"}

VARIABLES
    pc, icache_req_o, raw_instr,   \* fetch
    icache,                        \* dresp_data_ok and the address looked up
    fd, de, em, mw,                \* pipeline registers dataF_o .. dataM_o
    mstate, dataM1,                \* the memory stage
    multi,                         \* the multi-cycle unit: state, a_store, b_store
    regs, csr, mepc,
    mem, dev, hit_rdata,           \* data memory, device, answer of the data cache
    device_bus,                    \* an uncached request is on the bus
    ref                            \* difftest's reference

fetchVars == <<pc, icache_req_o, raw_instr, icache>>
pipeVars  == <<fd, de, em, mw>>
memVars   == <<mstate, dataM1, mem, dev, hit_rdata, device_bus>>
archVars  == <<regs, csr, mepc, ref>>
vars == <<fetchVars, pipeVars, memVars, multi, archVars>>

\* What each pipeline register holds.  `at` is the address a word was read
\* from, pc the one it is executed for.
Word    == [ins : Issued \union {Bubble}, at : PCs]
Fetched == [word : Word, pc : PCs, pred : BOOLEAN]
Decoded == [word : Word, pc : PCs, rd1 : Values, rd2 : Values]
Executed == [word : Word, pc : PCs, aluout : Values, memw_data : Values]
Memoried == [word : Word, pc : PCs, aluout : Values, memw_data : Values,
             memr_data : Values]

NoWord     == [ins |-> Bubble, at |-> 0]
NoFetched  == [word |-> NoWord, pc |-> 0, pred |-> FALSE]
NoDecoded  == [word |-> NoWord, pc |-> 0, rd1 |-> 0, rd2 |-> 0]
NoExecuted == [word |-> NoWord, pc |-> 0, aluout |-> 0, memw_data |-> 0]
NoMemoried == [word |-> NoWord, pc |-> 0, aluout |-> 0, memw_data |-> 0, memr_data |-> 0]

TypeOK ==
    /\ pc \in PCs /\ icache_req_o \in BOOLEAN /\ raw_instr \in Word
    /\ icache \in [ok : BOOLEAN, pc : PCs]
    /\ fd \in Fetched /\ de \in Decoded /\ em \in Executed /\ mw \in Memoried
    /\ mstate \in {"IDLE", "MEMORY01", "MEMORY10", "MEMORY11"}
    /\ dataM1 \in Memoried
    /\ multi \in [doing : BOOLEAN, a : Values, b : Values]
    /\ regs \in [Regs -> Values] /\ csr \in Values /\ mepc \in PCs
    /\ mem \in Values /\ dev \in Values /\ hit_rdata \in Values
    /\ device_bus \in BOOLEAN
    /\ ref \in States

Init ==
    /\ pc = 0 /\ icache_req_o = TRUE /\ raw_instr = NoWord
    /\ icache = [ok |-> FALSE, pc |-> 0]
    /\ fd = NoFetched /\ de = NoDecoded /\ em = NoExecuted /\ mw = NoMemoried
    /\ mstate = "IDLE" /\ dataM1 = NoMemoried
    /\ multi = [doing |-> FALSE, a |-> 0, b |-> 0]
    /\ regs = Reset.regs /\ csr = 0 /\ mepc = 0
    /\ mem = 0 /\ dev = 0 /\ hit_rdata = 0 /\ device_bus = FALSE
    /\ ref = Reset

-----------------------------------------------------------------------------
(* Writeback.                                                              *)

\* The instruction in each register: dataF_o.instr .. dataM_o.instr, dataM1.
insF == fd.word.ins
insD == de.word.ins
insE == em.word.ins
insM == dataM1.word.ins
insW == mw.word.ins

\* csr_flush: a CSR instruction, a trap or a return redirects the fetch and
\* resets every pipeline register.
CsrFlush == insW.op \in {"csr", "trap", "mret"}

CsrPcNxt == CASE insW.op = "csr" -> Plus4(mw.pc)
              [] insW.op = "trap" -> Mtvec
              [] OTHER -> mepc

\* dataW.write_data.
WriteData == CASE MemRead(insW) -> mw.memr_data
               [] insW.op = "csr" -> csr
               [] OTHER -> mw.aluout

Commit ==
    /\ regs' = IF RegWrite(insW) /\ insW.rd # 0 THEN [regs EXCEPT ![insW.rd] = WriteData]
               ELSE regs
    /\ csr' = IF insW.op = "csr" THEN mw.aluout ELSE csr
    /\ mepc' = IF insW.op = "trap" THEN mw.pc ELSE mepc
    /\ ref' = IF insW.op = "none" THEN ref ELSE Exec(insW, ref)

-----------------------------------------------------------------------------
(* The data side.  `hit` and `beat` are the answers of the data cache and  *)
(* of the device in this cycle.                                            *)

Resend == mstate \in {"MEMORY01", "MEMORY11"}

\* Mutant: the request is not withdrawn by csr_wen.
dreqUngated ==
    IF Resend
    THEN [valid |-> TRUE, op |-> insM.op, data |-> dataM1.memw_data]
    ELSE [valid |-> MemAccess(insE), op |-> insE.op, data |-> em.memw_data]

dreq == IF Resend
        THEN [valid |-> TRUE, op |-> insM.op, data |-> dataM1.memw_data]
        ELSE [valid |-> MemAccess(insE) /\ ~CsrFlush, op |-> insE.op,
              data |-> em.memw_data]

\* The arbiter takes a cycle before a device request can be answered.
AddrOk(hit, beat) == IF dreq.op = "dev" THEN device_bus /\ beat ELSE hit

RespData == IF dreq.op = "dev" THEN dev ELSE hit_rdata

StallData(hit, beat) ==
    \/ mstate = "IDLE" /\ MemAccess(insE) /\ ~CsrFlush /\ ~AddrOk(hit, beat)
    \/ mstate = "MEMORY10" /\ ~AddrOk(hit, beat)
    \/ mstate = "MEMORY11" /\ ~CsrFlush

DataCache(hit, beat) ==
    LET served(op) == dreq.valid /\ dreq.op = op /\ AddrOk(hit, beat) IN
    /\ mem' = IF served("st") THEN dreq.data ELSE mem
    /\ dev' = IF served("dev") THEN (dev + 1) % N ELSE dev
    /\ hit_rdata' = mem
    /\ device_bus' = (dreq.valid /\ dreq.op = "dev" /\ ~AddrOk(hit, beat))

\* dataMtmp, dataM.
Moved(memr) == [word |-> em.word, pc |-> em.pc, aluout |-> em.aluout,
                memw_data |-> em.memw_data, memr_data |-> memr]
dataM == [dataM1 EXCEPT !.memr_data = IF mstate = "IDLE" THEN @ ELSE RespData]

\* The FSM of memory.sv; its reset includes csr_flush.
MemoryStage(hit, beat) ==
    LET ok == dreq.valid /\ AddrOk(hit, beat)
        go(st, memr) == mstate' = st /\ dataM1' = Moved(memr)
        hold(st) == mstate' = st /\ UNCHANGED dataM1
    IN
    CASE CsrFlush -> mstate' = "IDLE" /\ dataM1' = NoMemoried
      [] ~CsrFlush /\ mstate = "IDLE" ->
            IF ~MemAccess(insE) THEN go("IDLE", 0)
            ELSE IF ok THEN go("MEMORY01", 0) ELSE hold("MEMORY10")
      [] ~CsrFlush /\ mstate = "MEMORY01" ->
            go(IF MemAccess(insE) THEN "MEMORY10" ELSE "IDLE", 0)
      [] ~CsrFlush /\ mstate = "MEMORY10" ->
            IF ~ok THEN hold("MEMORY10")
            ELSE IF insE.op = "dev" THEN go(IF MemAccess(insD) THEN "MEMORY10" ELSE "IDLE", RespData)
            ELSE go(IF MemAccess(insD) THEN "MEMORY11" ELSE "MEMORY01", 0)
      [] ~CsrFlush /\ mstate = "MEMORY11" -> hold("MEMORY10")

-----------------------------------------------------------------------------
(* Execute.  The unit takes its operands in the first cycle and stores     *)
(* them; `fin` is the cycle its result is ready.                           *)

\* An older instruction's value for register r: the newest producer first.
Forward(r, otherwise) ==
    CASE RegWrite(insE) /\ insE.rd = r /\ r # 0 -> em.aluout
      [] ~(RegWrite(insE) /\ insE.rd = r) /\ RegWrite(insM) /\ insM.rd = r /\ r # 0 ->
            dataM1.aluout
      [] OTHER -> otherwise

opA == Forward(insD.ra1, de.rd1)
opB == Forward(insD.ra2, de.rd2)

\* Mutant: the end of the operation is not looked at.
MultiDoingStuck(fin) == insD.op = "mul"

MultiDoing(fin) == insD.op = "mul" /\ (multi.doing => ~fin)

MultiUnit(fin) ==
    multi' = CASE CsrFlush -> [doing |-> FALSE, a |-> 0, b |-> 0]
               [] ~CsrFlush /\ multi.doing -> [multi EXCEPT !.doing = ~fin]
               [] ~CsrFlush /\ ~multi.doing /\ insD.op = "mul" ->
                     [doing |-> TRUE, a |-> opA, b |-> opB]
               [] OTHER -> multi

dataE ==
    [word |-> de.word, pc |-> de.pc,
     aluout |-> CASE insD.op = "alu" -> Alu(opA, opB)
                  [] insD.op = "mul" -> Multi(multi.a, multi.b)
                  [] insD.op \in {"jal", "jalr"} -> Plus4(de.pc)
                  [] insD.op = "csr" \/ MemRead(insD) -> opA
                  [] OTHER -> 0,
     memw_data |-> IF insD.op = "st" THEN opB ELSE 0]

-----------------------------------------------------------------------------
(* Decode: operands, the branch decision, the stalls it asks for.          *)

\* Mutant: the register written in this cycle is read too early.
OperandNoW(r) == Forward(r, regs[r])

\* From the memory stages, from the write port, from the register file.
Operand(r) == Forward(r, IF RegWrite(insW) /\ insW.rd = r /\ r # 0 THEN WriteData
                         ELSE regs[r])
rd1 == Operand(insF.ra1)
rd2 == Operand(insF.ra2)

dataD == [word |-> fd.word, pc |-> fd.pc, rd1 |-> rd1, rd2 |-> rd2]

\* instr_commit, bp_hit: only taken or not is compared.
Taken == insF.op \in {"jal", "jalr"} \/ (insF.op = "branch" /\ rd1 = rd2)
BpHit == fd.pred = Taken
TargetPC == CASE ~Taken -> Plus4(fd.pc)
              [] Taken /\ insF.op = "jalr" -> rd1
              [] OTHER -> insF.target

Feeds(i, r) == i.rd = r /\ r # 0
\* Mutant: a load in the M1/M2 register is taken to have its data.
LoadUseShort == \E i \in {insD, insE} :
                    MemRead(i) /\ (Feeds(i, insF.ra1) \/ Feeds(i, insF.ra2))

LoadUse == \E i \in {insD, insE, insM} :
               MemRead(i) /\ (Feeds(i, insF.ra1) \/ Feeds(i, insF.ra2))

BranchStall ==
    BranchOrJump(insF)
    /\ \E r \in {insF.ra1} \union (IF insF.op = "branch" THEN {insF.ra2} ELSE {}) :
          \/ RegWrite(insD) /\ Feeds(insD, r)
          \/ MemRead(insE) /\ Feeds(insE, r)

-----------------------------------------------------------------------------
(* Fetch.  `found` says that the line of pc is in the instruction cache,   *)
(* `taken` what the predictor says of a branch.                            *)

ireqValid == icache_req_o /\ ~CsrFlush
IDataOk   == icache.ok \/ ~ireqValid

\* The words dataF.raw_instr may be in this cycle.
FetchedWords == IF icache.ok THEN {[ins |-> i, at |-> icache.pc] : i \in Issued}
                ELSE {raw_instr}

\* By the opcode alone: what traps may be an illegal branch.
Predictions(i) == CASE i.op \in {"branch", "trap"} -> BOOLEAN
                    [] i.op = "jal" -> {TRUE}
                    [] OTHER -> {FALSE}

\* Mutant: pc + 4 does not wrap.
PredictedNoWrap(i, p) == IF p THEN i.target ELSE pc + 1

Predicted(i, p) == IF p THEN i.target ELSE Plus4(pc)

FetchStage(w, found, stall) ==
    /\ raw_instr' = w
    /\ icache' = [ok |-> ireqValid /\ ~icache.ok /\ found, pc |-> pc]
    /\ icache_req_o' = CASE CsrFlush -> TRUE
                         [] ~CsrFlush /\ IDataOk -> ~stall /\ ~LoadUse /\ ~BranchStall
                         [] OTHER -> icache_req_o

-----------------------------------------------------------------------------
(* The pipeline registers, one action per regime of hazard.sv: a stall of  *)
(* a stage stops those before it and leaves a bubble behind.               *)

\* Mutant: the instruction in decode survives the flush.
FlushKeepsDecode ==
    /\ CsrFlush
    /\ pc' = CsrPcNxt
    /\ fd' = NoFetched /\ de' = dataD /\ em' = NoExecuted /\ mw' = NoMemoried

Flush ==
    /\ CsrFlush
    /\ pc' = CsrPcNxt
    /\ fd' = NoFetched /\ de' = NoDecoded /\ em' = NoExecuted /\ mw' = NoMemoried

DataStall(stall) ==
    /\ ~CsrFlush /\ stall
    /\ mw' = NoMemoried
    /\ UNCHANGED <<pc, fd, de, em>>

MultiStall(stall, doing) ==
    /\ ~CsrFlush /\ ~stall /\ doing
    /\ em' = NoExecuted
    /\ mw' = dataM
    /\ UNCHANGED <<pc, fd, de>>

\* Mutant: decode goes on while the next word is not there.
DecodeStallNoFlush(stall, doing) ==
    /\ ~CsrFlush /\ ~stall /\ ~doing
    /\ ~IDataOk \/ LoadUse \/ BranchStall
    /\ de' = IF LoadUse \/ BranchStall THEN NoDecoded ELSE dataD
    /\ em' = dataE
    /\ mw' = dataM
    /\ UNCHANGED <<pc, fd>>

DecodeStall(stall, doing) ==
    /\ ~CsrFlush /\ ~stall /\ ~doing
    /\ ~IDataOk \/ LoadUse \/ BranchStall
    /\ de' = NoDecoded
    /\ em' = dataE
    /\ mw' = dataM
    /\ UNCHANGED <<pc, fd>>

\* Mutant: the word behind a mispredicted branch is not flushed.
FlowNoFlush(stall, doing, w) ==
    /\ ~CsrFlush /\ ~stall /\ ~doing
    /\ IDataOk /\ ~LoadUse /\ ~BranchStall
    /\ \E p \in Predictions(w.ins) :
         /\ pc' = IF BpHit THEN Predicted(w.ins, p) ELSE TargetPC
         /\ fd' = [word |-> w, pc |-> pc, pred |-> p]
    /\ de' = dataD
    /\ em' = dataE
    /\ mw' = dataM

Flow(stall, doing, w) ==
    /\ ~CsrFlush /\ ~stall /\ ~doing
    /\ IDataOk /\ ~LoadUse /\ ~BranchStall
    /\ \E p \in Predictions(w.ins) :
         /\ pc' = IF BpHit THEN Predicted(w.ins, p) ELSE TargetPC
         /\ fd' = IF BranchOrJump(insF) /\ ~BpHit THEN NoFetched
                  ELSE [word |-> w, pc |-> pc, pred |-> p]
    /\ de' = dataD
    /\ em' = dataE
    /\ mw' = dataM

\* One clock edge with everything the caches, the device and the unit may
\* answer in the cycle before it.
Clock(hit, beat, fin, found, w) ==
    LET stall == StallData(hit, beat)
        doing == MultiDoing(fin)
    IN  /\ \/ Flush
           \/ DataStall(stall)
           \/ MultiStall(stall, doing)
           \/ DecodeStall(stall, doing)
           \/ Flow(stall, doing, w)
        /\ Commit
        /\ MemoryStage(hit, beat)
        /\ DataCache(hit, beat)
        /\ MultiUnit(fin)
        /\ FetchStage(w, found, stall)

\* Whether each answer is looked at.
HitAsked   == dreq.valid /\ dreq.op # "dev"
BeatAsked  == device_bus
FinAsked   == multi.doing
FoundAsked == ireqValid /\ ~icache.ok

Answers(asked) == IF asked THEN BOOLEAN ELSE {FALSE}

Step(hits, beats, fins, founds) ==
    \E hit \in hits, beat \in beats, fin \in fins, found \in founds, w \in FetchedWords :
        Clock(hit, beat, fin, found, w)

Next == Step(Answers(HitAsked), Answers(BeatAsked), Answers(FinAsked), Answers(FoundAsked))

\* The clock ticks; the caches, the device and the multi-cycle unit answer what
\* they are asked for long enough.
Fairness ==
    /\ WF_vars(Next)
    /\ WF_vars(HitAsked /\ Step({TRUE}, Answers(BeatAsked), Answers(FinAsked), Answers(FoundAsked)))
    /\ WF_vars(BeatAsked /\ Step(Answers(HitAsked), {TRUE}, Answers(FinAsked), Answers(FoundAsked)))
    /\ WF_vars(FinAsked /\ Step(Answers(HitAsked), Answers(BeatAsked), {TRUE}, Answers(FoundAsked)))
    /\ WF_vars(FoundAsked /\ Step(Answers(HitAsked), Answers(BeatAsked), Answers(FinAsked), {TRUE}))

Spec == Init /\ [][Next]_vars
FairSpec == Spec /\ Fairness

-----------------------------------------------------------------------------
\* What commits is the program, in order, each instruction once, with the
\* operands its predecessors left: difftest compares pc and registers with its
\* reference at every commit.
CommitsInOrder ==
    insW.op # "none" => mw.pc = ref.pc /\ mw.word.at = mw.pc

DiffTest == regs = ref.regs /\ csr = ref.csr /\ mepc = ref.mepc

\* An access is performed when its instruction enters the M1/M2 register, once,
\* and never before an older instruction that redirects: traps are precise.
MemoryIsPrecise ==
    CsrFlush \/ (~MemAccess(insM) /\ ~MemAccess(insW)) => mem = ref.mem /\ dev = ref.dev

\* Behind a memory access comes a bubble: memory.sv would overwrite a request
\* that follows directly in MEMORY01, and never needs MEMORY11.
BubbleBehindAccess == MemAccess(insE) => insD.op = "none"

\* RAMHelper2 stops the simulation when a request is withdrawn or replaced.
DeviceRequestHeld == device_bus => dreq.valid /\ dreq.op = "dev"

\* Stalls in any combination end: instructions go on committing.
KeepsCommitting == []<>(insW.op # "none")
=============================================================================
