--------------------------------- MODULE Csr ---------------------------------
(***************************************************************************)
(* Traps, returns and interrupts: vsrc/pipeline/csr/csr.sv with the part   *)
(* of writeback.sv that writes the register file.  One step is one clock   *)
(* edge.                                                                   *)
(*                                                                         *)
(* The pipeline in front of writeback is what Pipeline shows of it: it     *)
(* delivers the instructions of the program in order, bubbles in between,  *)
(* and only bubbles in the cycle after a redirection.  The interrupt lines *)
(* are levels that a timer and the stores of any program raise and lower:  *)
(* they take any value in any cycle.  exint takes part in no decision.     *)
(*                                                                         *)
(* x stands for the register file.  The reference `ref` runs the program   *)
(* one instruction at a time, and runs the interrupt or the exception in   *)
(* place of the instruction, as difftest.cpp does.                         *)
(***************************************************************************)
EXTENDS Integers

CONSTANTS
    N,        \* values are 0 .. N - 1
    LastPC,   \* the program is at 1 .. LastPC; 0 is the pc of a bubble
    Mtvec,    \* where software has set the trap vector
    Modes,    \* privilege modes a program uses
    Machine,  \* MACHINE_MODE
    User,     \* USER_MODE, which is 0
    Issued    \* the instructions the programs are made of

\* What may be in writeback: an instruction that computes (addi x, x, 1), a
\* misaligned load, another instruction that faults, csrrw x, mscratch, x,
\* a write of another control register, mret, or a bubble.
CsrOps == {"csrrw", "csr_mstatus", "csr_mepc", "csr_mie"}
Ops    == {"alu", "load", "fault", "mret"} \union CsrOps

ASSUME CsrAssumption ==
    /\ N \in Nat \ {0}
    /\ LastPC \in Nat \ {0}
    /\ Mtvec \in 1 .. LastPC
    /\ {Machine, User} \subseteq Modes
    /\ Issued \subseteq Ops

Values == 0 .. N - 1
PCs    == 1 .. LastPC
Lines  == {"swint", "trint"}

\* Mutant: the pc runs off the end of the program.
Plus4Unbounded(p) == p + 1

Plus4(p) == IF p = LastPC THEN 1 ELSE p + 1

\* mstatus, as far as it matters here.
Mstatus == [mie : BOOLEAN, mpie : BOOLEAN, mpp : Modes]

VARIABLES
    mstatus, ie, mepc, mcause, mscratch, mode,   \* the registers of csr.sv
    x,         \* the register file
    w,         \* dataM_o: the instruction in writeback and its pc
    pc,        \* the pc of the next instruction to reach writeback
    \* History, read by properties only:
    last,      \* the interrupt lines in the previous cycle
    ref,       \* the reference: [x, mscratch]
    clean,     \* no trap has hit an instruction that writes the register file
    frame      \* the interrupted state, until the handler gives it up

csrVars  == <<mstatus, ie, mepc, mcause, mscratch, mode>>
pipeVars == <<x, w, pc>>
history  == <<last, ref, clean, frame>>
vars == <<csrVars, pipeVars, history>>

Causes == [int : BOOLEAN, code : {"reset", "fault", "swint", "trint"}]

TypeOK ==
    /\ mstatus \in Mstatus /\ ie \in SUBSET Lines /\ mepc \in PCs
    /\ mcause \in Causes /\ mode \in Modes
    /\ mscratch \in Values /\ x \in Values
    /\ w \in [op : Ops, pc : PCs] \union {[op |-> "none", pc |-> 0]}
    /\ pc \in PCs
    /\ last \in SUBSET Lines
    /\ ref \in [x : Values, mscratch : Values]
    /\ clean \in BOOLEAN
    /\ frame \in [valid : BOOLEAN, pc : PCs, mode : Modes, mie : BOOLEAN]

Bubble  == [op |-> "none", pc |-> 0]
NoFrame == [valid |-> FALSE, pc |-> 1, mode |-> Machine, mie |-> FALSE]

\* The state after reset; mepc and mcause have one bit set, which no property
\* tells from any other value.
Init ==
    /\ mstatus = [mie |-> FALSE, mpie |-> FALSE, mpp |-> User]
    /\ ie = {} /\ mepc = 1
    /\ mcause = [int |-> FALSE, code |-> "reset"] /\ mode = Machine
    /\ mscratch = 0 /\ x = 0
    /\ w = Bubble /\ pc = 1
    /\ last = {} /\ ref = [x |-> 0, mscratch |-> 0] /\ clean = TRUE
    /\ frame = NoFrame

-----------------------------------------------------------------------------
(* The decisions of the cycle; `lines` are swint and trint.                *)

\* Mutant: only the software interrupt is recognised.
InterruptingOne(lines) == {l \in lines : mstatus.mie /\ l \in ie /\ w.pc # 0 /\ l = "swint"}

\* is_swint, is_trint.
Interrupting(lines) == {l \in lines : mstatus.mie /\ l \in ie /\ w.pc # 0}

IsInterrupt(lines) == Interrupting(lines) # {}

IsExcept == w.op \in {"fault", "load"}

ExcOrInt(lines) == IsExcept \/ IsInterrupt(lines)

CsrWen(lines) == w.op \in CsrOps /\ ~IsInterrupt(lines)

\* Mutant: writing a control register does not restart the fetch.
CsrPcValidTraps(lines) == ExcOrInt(lines) \/ w.op = "mret"

\* csr_flush: every pipeline register is reset, the fetch is redirected.
CsrPcValid(lines) == ExcOrInt(lines) \/ CsrWen(lines) \/ w.op = "mret"

PcNxt(lines) == IF ExcOrInt(lines) THEN Mtvec
                ELSE IF CsrWen(lines) THEN Plus4(w.pc) ELSE mepc

\* Mutant: the cause comes from the enable bits.
IntCodeEnabled(lines) == IF "trint" \in ie THEN "trint" ELSE "swint"

\* mcause_name of an interrupt: from the lines alone, enabled or not.
IntCode(lines) == IF "trint" \in lines THEN "trint" ELSE "swint"

\* A fault keeps its cause when an interrupt is due as well.
Cause(lines) == [int |-> ~IsExcept,
                 code |-> IF IsExcept THEN "fault" ELSE IntCode(lines)]

-----------------------------------------------------------------------------
(* Registers.  `wd` is the value a write of a control register computes,   *)
(* `data` what a misaligned load reads.                                    *)

\* Mutant: an instruction that faults is taken to write a register too.
RegWriteFault == w.op \in {"alu", "csrrw", "load", "fault"}

\* dataW.regwrite_en: neither an interrupt nor a fault withdraws it.
RegWrite == w.op \in {"alu", "csrrw", "load"}

WriteData(data) == IF w.op = "alu" THEN (x + 1) % N
                   ELSE IF w.op = "csrrw" THEN mscratch ELSE data

\* Mutant: the address of the next instruction is saved.
TrapSavesNext(lines) ==
    /\ ExcOrInt(lines)
    /\ mepc' = Plus4(w.pc)
    /\ mcause' = Cause(lines)
    /\ mstatus' = [mie |-> FALSE, mpie |-> mstatus.mie, mpp |-> mode]
    /\ mode' = Machine
    /\ ie' = lines
    /\ UNCHANGED mscratch

Trap(lines) ==
    /\ ExcOrInt(lines)
    /\ mepc' = w.pc
    /\ mcause' = Cause(lines)
    /\ mstatus' = [mie |-> FALSE, mpie |-> mstatus.mie, mpp |-> mode]
    /\ mode' = Machine
    /\ ie' = lines
    /\ UNCHANGED mscratch

\* The write of mie comes after the copy of the lines.
WriteCsr(lines) ==
    /\ ~ExcOrInt(lines) /\ CsrWen(lines)
    /\ IF w.op = "csr_mstatus" THEN mstatus' \in Mstatus ELSE UNCHANGED mstatus
    /\ IF w.op = "csr_mepc" THEN mepc' \in PCs ELSE UNCHANGED mepc
    /\ ie' \in IF w.op = "csr_mie" THEN SUBSET Lines ELSE {lines}
    /\ mscratch' = IF w.op = "csrrw" THEN x ELSE mscratch
    /\ UNCHANGED <<mcause, mode>>

\* Mutant: the interrupt enable is not restored.
MretKeepsMie(lines) ==
    /\ ~ExcOrInt(lines) /\ w.op = "mret"
    /\ mstatus' = [mie |-> mstatus.mie, mpie |-> TRUE, mpp |-> User]
    /\ mode' = mstatus.mpp
    /\ ie' = lines
    /\ UNCHANGED <<mepc, mcause, mscratch>>

Mret(lines) ==
    /\ ~ExcOrInt(lines) /\ w.op = "mret"
    /\ mstatus' = [mie |-> mstatus.mpie, mpie |-> TRUE, mpp |-> User]
    /\ mode' = mstatus.mpp
    /\ ie' = lines
    /\ UNCHANGED <<mepc, mcause, mscratch>>

NoCsr(lines) ==
    /\ ~CsrPcValid(lines)
    /\ ie' = lines
    /\ UNCHANGED <<mstatus, mepc, mcause, mscratch, mode>>

\* What the reference has executed (once the registers differ it follows
\* them), and the state a trap has interrupted while neither the program nor
\* a further trap has touched where it is kept.
History(lines) ==
    LET runs(o) == w.op \in o /\ ~ExcOrInt(lines) IN
    /\ ref' = IF ~clean THEN [x |-> x', mscratch |-> mscratch']
              ELSE IF runs({"alu"}) THEN [x |-> (ref.x + 1) % N, mscratch |-> ref.mscratch]
              ELSE IF runs({"csrrw"}) THEN [x |-> ref.mscratch, mscratch |-> ref.x]
              ELSE ref
    /\ clean' = (clean /\ ~(ExcOrInt(lines) /\ w.op \in {"alu", "csrrw", "load"}))
    /\ frame' = IF ExcOrInt(lines)
                THEN [valid |-> TRUE, pc |-> w.pc, mode |-> mode, mie |-> mstatus.mie]
                ELSE IF runs({"csr_mstatus", "csr_mepc", "mret"}) THEN NoFrame
                ELSE frame

Writeback(lines) ==
    /\ x' \in IF RegWrite THEN {WriteData(data) : data \in Values} ELSE {x}
    /\ Trap(lines) \/ WriteCsr(lines) \/ Mret(lines) \/ NoCsr(lines)
    /\ History(lines)

-----------------------------------------------------------------------------
(* What writeback holds in the next cycle.                                 *)

\* A redirection: the instructions behind this one are gone.
Redirect ==
    \E lines \in SUBSET Lines :
        /\ last' = lines
        /\ CsrPcValid(lines)
        /\ w' = Bubble
        /\ Writeback(lines)
        /\ pc' = PcNxt(lines)

\* The next instruction of the program, or a bubble in its place.
Deliver ==
    \E lines \in SUBSET Lines :
        /\ last' = lines
        /\ ~CsrPcValid(lines)
        /\ w' \in {[op |-> o, pc |-> pc] : o \in Issued}
        /\ Writeback(lines)
        /\ pc' = Plus4(pc)

DeliverBubble ==
    \E lines \in SUBSET Lines :
        /\ last' = lines
        /\ ~CsrPcValid(lines)
        /\ w' = Bubble
        /\ Writeback(lines)
        /\ UNCHANGED pc

Next == Redirect \/ Deliver \/ DeliverBubble

\* The clock runs, and an instruction always arrives in the end, which
\* Pipeline shows.  Nothing is assumed of the lines.
Fairness == WF_vars(Next) /\ WF_vars(Deliver)

Spec == Init /\ [][Next]_vars /\ Fairness

-----------------------------------------------------------------------------
(* Properties.                                                             *)

\* From a trap until the handler writes mstatus or mepc, returns or faults:
\* the interrupted pc, mode and interrupt enable are where mret takes them
\* from, and no interrupt can overwrite them.
FrameIsKept ==
    frame.valid => /\ mepc = frame.pc
                   /\ mstatus.mpp = frame.mode
                   /\ mstatus.mpie = frame.mie
                   /\ ~mstatus.mie
                   /\ mode = Machine

\* mret undoes the trap: the instruction at the interrupted pc is the next
\* to be delivered, in the interrupted mode with the interrupt enable it had.
MretUndoesTrap ==
    [][w.op = "mret" /\ frame.valid =>
          /\ pc' = frame.pc /\ mode' = frame.mode
          /\ mstatus'.mie = frame.mie /\ w' = Bubble]_vars

\* The lines are copied over the enable bits in every cycle, and a write of
\* mie flushes what could have seen it: an instruction always meets the
\* lines of the cycle before, whatever software has written.  So no line is
\* ever masked, and one that is high for a single cycle interrupts nothing.
EnableBitsAreTheLines == w # Bubble => ie = last

\* The cause says what happened: an interrupt only if one was enabled, and
\* then a line that is high; a fault only if the instruction faults.  last'
\* are the lines of the cycle of the trap.
CauseIsTrue ==
    [][ExcOrInt(last') =>
          IF mcause'.int THEN IsInterrupt(last') /\ mcause'.code \in last'
          ELSE IsExcept]_vars

\* difftest.cpp:111-125: where an interrupt or an exception is taken the
\* reference executes it and not the instruction; the registers then agree.
DiffTest == x = ref.x /\ mscratch = ref.mscratch

\* Nothing but a trap taken on an instruction that writes the register file
\* makes the registers differ from the reference's.
OnlyTrappedWritesDiverge == clean => DiffTest

\* A line that stays high while interrupts are enabled is not ignored for
\* ever: it interrupts, or a fault comes first.
InterruptIsTaken ==
    \A l \in Lines : (l \in last /\ mstatus.mie) ~> (l \notin last \/ ~mstatus.mie)

=============================================================================
