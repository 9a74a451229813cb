------------------------------ MODULE CsrProofs ------------------------------
(***************************************************************************)
(* Proofs about Csr, for every program, every number of addresses and      *)
(* values and every behaviour of the interrupt lines.                      *)
(***************************************************************************)
EXTENDS Csr, TLAPS

\* The next address is an address of the program.
LEMMA PlusPCs == ASSUME NEW p \in PCs PROVE Plus4(p) \in PCs
  BY CsrAssumption DEF Plus4, PCs

\* The instruction in writeback is a bubble or has an address.
LEMMA BubbleOrPC == ASSUME TypeOK PROVE w = Bubble \/ (w.op \in Ops /\ w.pc \in PCs)
  BY DEF TypeOK, Bubble

\* A bubble is no instruction.
LEMMA BubbleOp == Bubble.op \notin Ops /\ Bubble.pc = 0
  BY DEF Bubble, Ops, CsrOps

\* One clock edge, whatever the lines are and whatever comes next.
Edge(lines) ==
    /\ lines \in SUBSET Lines
    /\ last' = lines
    /\ Writeback(lines)
    /\ \/ /\ CsrPcValid(lines) /\ w' = Bubble /\ pc' = PcNxt(lines)
       \/ /\ ~CsrPcValid(lines)
          /\ w' \in {[op |-> o, pc |-> pc] : o \in Issued}
          /\ pc' = Plus4(pc)
       \/ /\ ~CsrPcValid(lines) /\ w' = Bubble /\ pc' = pc

\* A step is an edge for some value of the lines.
LEMMA NextIsEdge == Next => \E lines \in SUBSET Lines : Edge(lines)
  BY DEF Next, Redirect, Deliver, DeliverBubble, Edge

\* Every edge preserves the types.
LEMMA TypeStep == ASSUME TypeOK, NEW lines, Edge(lines) PROVE TypeOK'
  <1>. USE DEF Edge
  <1>1. w = Bubble \/ (w.op \in Ops /\ w.pc \in PCs)
    BY BubbleOrPC
  <1>2. ExcOrInt(lines) \/ CsrWen(lines) => w.op \in Ops /\ w.pc \in PCs
    BY <1>1, BubbleOp, CsrAssumption
       DEF ExcOrInt, IsExcept, IsInterrupt, Interrupting, CsrWen, Ops
  <1>3. Machine \in Modes /\ User \in Modes
    BY CsrAssumption
  <1>4. /\ mstatus' \in Mstatus /\ ie' \in SUBSET Lines /\ mepc' \in PCs
        /\ mcause' \in Causes /\ mode' \in Modes /\ mscratch' \in Values
    <2>1. CASE Trap(lines)
      <3>1. Cause(lines) \in Causes
        BY DEF Cause, IntCode, Causes, IsExcept
      <3>. QED BY <2>1, <3>1, <1>2, <1>3 DEF Trap, TypeOK, Mstatus
    <2>2. CASE WriteCsr(lines)
      BY <2>2 DEF WriteCsr, TypeOK, CsrWen, CsrOps
    <2>3. CASE Mret(lines)
      BY <2>3, <1>3 DEF Mret, TypeOK, Mstatus
    <2>4. CASE NoCsr(lines)
      BY <2>4 DEF NoCsr, TypeOK
    <2>. QED BY <2>1, <2>2, <2>3, <2>4 DEF Writeback
  <1>5. x' \in Values
    <2>1. (x + 1) % N \in Values
      BY CsrAssumption DEF TypeOK, Values
    <2>. QED BY <2>1 DEF Writeback, WriteData, TypeOK
  <1>6. pc' \in PCs
    BY <1>2, PlusPCs, CsrAssumption DEF PcNxt, TypeOK, PCs
  <1>7. w' \in [op : Ops, pc : PCs] \union {[op |-> "none", pc |-> 0]}
    BY CsrAssumption DEF TypeOK, Bubble
  <1>8. ref' \in [x : Values, mscratch : Values]
    <2>1. (ref.x + 1) % N \in Values
      BY CsrAssumption DEF TypeOK, Values
    <2>. QED BY <2>1, <1>4, <1>5 DEF Writeback, History, TypeOK
  <1>9. clean' \in BOOLEAN
    BY DEF Writeback, History
  <1>10. frame' \in [valid : BOOLEAN, pc : PCs, mode : Modes, mie : BOOLEAN]
    <2>1. mstatus.mie \in BOOLEAN
      BY DEF TypeOK, Mstatus
    <2>2. NoFrame \in [valid : BOOLEAN, pc : PCs, mode : Modes, mie : BOOLEAN]
      BY <1>3, CsrAssumption DEF NoFrame, PCs
    <2>. QED BY <2>1, <2>2, <1>2 DEF Writeback, History, TypeOK
  <1>. QED BY <1>4, <1>5, <1>6, <1>7, <1>8, <1>9, <1>10 DEF TypeOK

-----------------------------------------------------------------------------
(* The invariant is the conjunction of the three; each is preserved by an  *)
(* edge from the types and itself.                                         *)

CsrInv == TypeOK /\ FrameIsKept /\ EnableBitsAreTheLines /\ OnlyTrappedWritesDiverge

\* While the frame is valid interrupts are off, so that only a fault, a write
\* of mstatus or mepc, or mret changes what is kept: the first makes a new
\* frame, the others give it up.
LEMMA FrameStep ==
    ASSUME TypeOK, FrameIsKept, NEW lines, Edge(lines)
    PROVE  FrameIsKept'
  <1>. USE DEF Edge, FrameIsKept
  <1>1. CASE ExcOrInt(lines)
    <2>1. Trap(lines)
      BY <1>1 DEF Writeback, WriteCsr, Mret, NoCsr, CsrPcValid
    <2>2. frame' = [valid |-> TRUE, pc |-> w.pc, mode |-> mode, mie |-> mstatus.mie]
      BY <1>1 DEF Writeback, History
    <2>. QED BY <2>1, <2>2 DEF Trap
  <1>2. CASE ~ExcOrInt(lines) /\ w.op \in {"csr_mstatus", "csr_mepc", "mret"}
    <2>1. frame' = NoFrame
      BY <1>2 DEF Writeback, History
    <2>. QED BY <2>1 DEF NoFrame
  <1>3. CASE ~ExcOrInt(lines) /\ w.op \notin {"csr_mstatus", "csr_mepc", "mret"}
    <2>1. UNCHANGED <<frame, mepc, mstatus, mode>>
      BY <1>3 DEF Writeback, History, Trap, WriteCsr, Mret, NoCsr
    <2>. QED BY <2>1
  <1>. QED BY <1>1, <1>2, <1>3

\* Only a write of mie leaves other bits than the lines behind, and it puts a
\* bubble in writeback.
LEMMA EnableStep ==
    ASSUME NEW lines, Edge(lines)
    PROVE  EnableBitsAreTheLines'
  <1>. USE DEF Edge, EnableBitsAreTheLines
  <1>1. CASE CsrPcValid(lines)
    BY <1>1
  <1>2. CASE ~CsrPcValid(lines)
    <2>1. NoCsr(lines)
      BY <1>2 DEF Writeback, Trap, WriteCsr, Mret, CsrPcValid
    <2>. QED BY <2>1 DEF NoCsr
  <1>. QED BY <1>1, <1>2

\* An instruction that is not trapped writes what the reference writes; one
\* that is trapped and writes the register file ends the comparison.
LEMMA CleanStep ==
    ASSUME TypeOK, OnlyTrappedWritesDiverge, NEW lines, Edge(lines)
    PROVE  OnlyTrappedWritesDiverge'
  <1>. USE DEF Edge, OnlyTrappedWritesDiverge, DiffTest
  <1>. SUFFICES ASSUME clean' PROVE DiffTest'
    OBVIOUS
  <1>1. clean /\ ~(ExcOrInt(lines) /\ w.op \in {"alu", "csrrw", "load"})
    BY DEF Writeback, History
  <1>2. CASE ExcOrInt(lines)
    <2>1. Trap(lines) /\ x' = x
      BY <1>1, <1>2 DEF Writeback, WriteCsr, Mret, NoCsr, CsrPcValid, RegWrite
    <2>2. ref' = ref
      BY <1>1, <1>2 DEF Writeback, History
    <2>. QED BY <1>1, <2>1, <2>2 DEF Trap
  <1>3. CASE ~ExcOrInt(lines) /\ w.op = "alu"
    <2>1. x' = (x + 1) % N /\ mscratch' = mscratch
      BY <1>3 DEF Writeback, RegWrite, WriteData, Trap, WriteCsr, Mret, NoCsr
    <2>2. ref' = [x |-> (ref.x + 1) % N, mscratch |-> ref.mscratch]
      BY <1>1, <1>3 DEF Writeback, History
    <2>. QED BY <1>1, <2>1, <2>2
  <1>4. CASE ~ExcOrInt(lines) /\ w.op = "csrrw"
    <2>1. x' = mscratch
      <3>1. x' \in {WriteData(data) : data \in Values}
        BY <1>4 DEF Writeback, RegWrite
      <3>. QED BY <3>1, <1>4 DEF WriteData
    <2>2. mscratch' = x
      BY <1>4 DEF Writeback, Trap, WriteCsr, Mret, NoCsr, CsrPcValid, CsrWen,
                  CsrOps, ExcOrInt
    <2>3. ref' = [x |-> ref.mscratch, mscratch |-> ref.x]
      BY <1>1, <1>4 DEF Writeback, History
    <2>. QED BY <1>1, <2>1, <2>2, <2>3
  <1>5. CASE ~ExcOrInt(lines) /\ w.op \notin {"alu", "csrrw"}
    <2>1. x' = x
      BY <1>5 DEF Writeback, RegWrite, ExcOrInt, IsExcept
    <2>2. mscratch' = mscratch
      BY <1>5 DEF Writeback, Trap, WriteCsr, Mret, NoCsr
    <2>3. ref' = ref
      BY <1>1, <1>5 DEF Writeback, History
    <2>. QED BY <1>1, <2>1, <2>2, <2>3
  <1>. QED BY <1>2, <1>3, <1>4, <1>5

\* Every reset state has the invariant.
LEMMA InitInv == Init => CsrInv
  <1>. SUFFICES ASSUME Init PROVE CsrInv
    OBVIOUS
  <1>1. TypeOK
    BY CsrAssumption DEF Init, TypeOK, Mstatus, Causes, PCs, Values, Bubble, NoFrame
  <1>2. FrameIsKept /\ EnableBitsAreTheLines /\ OnlyTrappedWritesDiverge
    BY DEF Init, FrameIsKept, NoFrame, EnableBitsAreTheLines,
           OnlyTrappedWritesDiverge, DiffTest
  <1>. QED BY <1>1, <1>2 DEF CsrInv

\* The conjunction is inductive.
LEMMA StepInv == CsrInv /\ [Next]_vars => CsrInv'
  <1>. SUFFICES ASSUME CsrInv, [Next]_vars PROVE CsrInv'
    OBVIOUS
  <1>1. CASE Next
    <2>1. PICK lines \in SUBSET Lines : Edge(lines)
      BY <1>1, NextIsEdge
    <2>2. TypeOK'
      BY <2>1, TypeStep DEF CsrInv
    <2>3. FrameIsKept'
      BY <2>1, FrameStep DEF CsrInv
    <2>4. EnableBitsAreTheLines'
      BY <2>1, EnableStep
    <2>5. OnlyTrappedWritesDiverge'
      BY <2>1, CleanStep DEF CsrInv
    <2>. QED BY <2>2, <2>3, <2>4, <2>5 DEF CsrInv
  <1>2. CASE UNCHANGED vars
    BY <1>2 DEF CsrInv, TypeOK, FrameIsKept, EnableBitsAreTheLines,
                OnlyTrappedWritesDiverge, DiffTest, vars, csrVars, pipeVars, history
  <1>. QED BY <1>1, <1>2

\* The invariant holds in every reachable state.
THEOREM Invariance == Spec => []CsrInv
  BY InitInv, StepInv, PTL DEF Spec

\* Types.
THEOREM CsrTypeCorrect == Spec => []TypeOK
  <1>1. CsrInv => TypeOK
    BY DEF CsrInv
  <1>. QED BY <1>1, Invariance, PTL

\* The state a trap interrupted is kept until the handler gives it up, and no
\* interrupt comes in between.
THEOREM HandlerKeepsFrame == Spec => []FrameIsKept
  <1>1. CsrInv => FrameIsKept
    BY DEF CsrInv
  <1>. QED BY <1>1, Invariance, PTL

\* Software cannot mask a line: an instruction meets the lines themselves.
THEOREM MieIsTheLines == Spec => []EnableBitsAreTheLines
  <1>1. CsrInv => EnableBitsAreTheLines
    BY DEF CsrInv
  <1>. QED BY <1>1, Invariance, PTL

\* The registers differ from the reference's only after a trap on an
\* instruction that writes them.
THEOREM DivergenceNeedsTrappedWrite == Spec => []OnlyTrappedWritesDiverge
  <1>1. CsrInv => OnlyTrappedWritesDiverge
    BY DEF CsrInv
  <1>. QED BY <1>1, Invariance, PTL

\* mret leads back to the interrupted instruction, mode and interrupt enable.
THEOREM MretReturns == Spec => MretUndoesTrap
  <1>1. CsrInv /\ [Next]_vars =>
          [w.op = "mret" /\ frame.valid =>
              /\ pc' = frame.pc /\ mode' = frame.mode
              /\ mstatus'.mie = frame.mie /\ w' = Bubble]_vars
    <2>. SUFFICES ASSUME CsrInv, Next, w.op = "mret", frame.valid
                  PROVE  /\ pc' = frame.pc /\ mode' = frame.mode
                         /\ mstatus'.mie = frame.mie /\ w' = Bubble
      OBVIOUS
    <2>1. PICK lines \in SUBSET Lines : Edge(lines)
      BY NextIsEdge
    <2>2. FrameIsKept
      BY DEF CsrInv
    <2>3. ~ExcOrInt(lines)
      BY <2>2 DEF FrameIsKept, ExcOrInt, IsExcept, IsInterrupt, Interrupting
    <2>4. Mret(lines)
      BY <2>1, <2>3 DEF Edge, Writeback, Trap, WriteCsr, CsrWen, CsrOps, NoCsr, CsrPcValid
    <2>5. w' = Bubble /\ pc' = mepc
      BY <2>1, <2>3 DEF Edge, CsrPcValid, PcNxt, CsrWen, CsrOps
    <2>. QED BY <2>2, <2>4, <2>5 DEF FrameIsKept, Mret
  <1>. QED BY <1>1, Invariance, PTL DEF Spec, MretUndoesTrap

\* mcause names an interrupt only if one was taken, and then a high line; a
\* fault that meets an interrupt is reported as a fault.
THEOREM CauseTells == Spec => CauseIsTrue
  <1>1. CsrInv /\ [Next]_vars =>
          [ExcOrInt(last') =>
              IF mcause'.int THEN IsInterrupt(last') /\ mcause'.code \in last'
              ELSE IsExcept]_vars
    <2>. SUFFICES ASSUME Next, ExcOrInt(last')
                  PROVE  IF mcause'.int THEN IsInterrupt(last') /\ mcause'.code \in last'
                         ELSE IsExcept
      OBVIOUS
    <2>1. PICK lines \in SUBSET Lines : Edge(lines)
      BY NextIsEdge
    <2>2. last' = lines /\ ExcOrInt(lines)
      BY <2>1 DEF Edge
    <2>3. mcause' = Cause(lines)
      BY <2>1, <2>2 DEF Edge, Writeback, Trap, WriteCsr, Mret, NoCsr, CsrPcValid
    <2>4. IsInterrupt(lines) => IntCode(lines) \in lines
      BY DEF IsInterrupt, Interrupting, IntCode, Lines
    <2>. QED BY <2>2, <2>3, <2>4 DEF Cause, ExcOrInt
  <1>. QED BY <1>1, Invariance, PTL DEF Spec, CauseIsTrue

=============================================================================
