--------------------------------- MODULE Isa ---------------------------------
(***************************************************************************)
(* The machine the pipeline must look like from outside: one instruction   *)
(* at a time.  It stands for the reference model that difftest runs in     *)
(* lock step with the core, cut down to what an in-order pipeline can get  *)
(* wrong: where operands come from, which instruction is next, and what    *)
(* happens once, more than once or not at all.                             *)
(*                                                                         *)
(* An address of code and a value are both a number below N, so that a     *)
(* register may hold a jump target.  Memory is one cached word, one device *)
(* register that counts the times it is read, and one CSR.                 *)
(***************************************************************************)
EXTENDS Integers

CONSTANTS
    N,      \* instruction addresses and values are numbers below N
    Regs,   \* the register numbers in use
    Mtvec   \* where traps go

ASSUME IsaAssumption == N \in Nat \ {0} /\ 0 \in Regs /\ Mtvec \in 0 .. N - 1

PCs == 0 .. N - 1
Values == PCs

\* A class of instructions per path through the pipeline: "mul" for every
\* multi-cycle one, "dev" for a load from a device, "csr" for csrrw, "trap" for
\* ecall and illegal instructions; "none" is a bubble, the zero of a register.
Ops == {"none", "alu", "mul", "ld", "st", "dev", "branch", "jal", "jalr",
        "csr", "trap", "mret"}

Instrs == [op : Ops, rd : Regs, ra1 : Regs, ra2 : Regs, target : PCs]

Bubble == [op |-> "none", rd |-> 0, ra1 |-> 0, ra2 |-> 0, target |-> 0]

\* ctl: regwrite_en, memr_en, memr_en or memw_en, and the bj of decode.
RegWrite(i) == i.op \in {"alu", "mul", "ld", "dev", "jal", "jalr", "csr"}
MemRead(i)  == i.op \in {"ld", "dev"}
MemAccess(i) == i.op \in {"ld", "st", "dev"}
BranchOrJump(i) == i.op \in {"branch", "jal", "jalr"}

\* Two operations that tell operands and their order apart.
Plus4(pc)   == (pc + 1) % N
Alu(a, b)   == (a + b + 1) % N
Multi(a, b) == (2 * a + b) % N

\* The state software sees.
States == [pc : PCs, regs : [Regs -> Values], mem : Values, dev : Values,
           csr : Values, mepc : PCs]

Reset == [pc |-> 0, regs |-> [r \in Regs |-> 0], mem |-> 0, dev |-> 0,
          csr |-> 0, mepc |-> 0]

Result(i, s) ==
    LET a == s.regs[i.ra1]
        b == s.regs[i.ra2]
    IN  CASE i.op = "alu" -> Alu(a, b)
          [] i.op = "mul" -> Multi(a, b)
          [] i.op = "ld"  -> s.mem
          [] i.op = "dev" -> s.dev
          [] i.op = "csr" -> s.csr
          [] OTHER -> Plus4(s.pc)

NextPC(i, s) ==
    LET a == s.regs[i.ra1] IN
    CASE i.op = "jal" -> i.target
      [] i.op = "jalr" -> a
      [] i.op = "branch" /\ a = s.regs[i.ra2] -> i.target
      [] i.op = "trap" -> Mtvec
      [] i.op = "mret" -> s.mepc
      [] OTHER -> Plus4(s.pc)

\* The state after instruction i.
Exec(i, s) ==
    [pc   |-> NextPC(i, s),
     regs |-> IF RegWrite(i) /\ i.rd # 0 THEN [s.regs EXCEPT ![i.rd] = Result(i, s)]
              ELSE s.regs,
     mem  |-> IF i.op = "st" THEN s.regs[i.ra2] ELSE s.mem,
     dev  |-> IF i.op = "dev" THEN (s.dev + 1) % N ELSE s.dev,
     csr  |-> IF i.op = "csr" THEN s.regs[i.ra1] ELSE s.csr,
     mepc |-> IF i.op = "trap" THEN s.pc ELSE s.mepc]
=============================================================================
