----------------------------- MODULE MCPipeline -----------------------------
(***************************************************************************)
(* Instances of Pipeline for TLC: programs over register 1 made of a few   *)
(* instructions.                                                           *)
(***************************************************************************)
EXTENDS Pipeline

Ins(op, rd, ra1, ra2, target) ==
    [op |-> op, rd |-> rd, ra1 |-> ra1, ra2 |-> ra2, target |-> target]

\* Producers and consumers of a register, near and far from each other, and
\* the jumps that may be predicted wrong.
DataProgram ==
    {Ins("alu", 1, 1, 0, 0), Ins("mul", 1, 0, 1, 0),
     Ins("ld", 1, 1, 0, 0), Ins("st", 0, 1, 1, 0),
     Ins("branch", 0, 1, 0, 0), Ins("jal", 1, 0, 0, 2), Ins("jalr", 1, 1, 0, 0)}

\* Redirects from writeback, and on the path they leave accesses, a
\* multi-cycle instruction; the trap may be an illegal branch, predicted taken.
ControlProgram ==
    {Ins("st", 0, 0, 1, 0), Ins("dev", 1, 0, 0, 0), Ins("mul", 0, 1, 0, 0),
     Ins("csr", 1, 1, 0, 0), Ins("trap", 0, 0, 0, 2), Ins("mret", 0, 0, 0, 0)}
=============================================================================
