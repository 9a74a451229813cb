----------------------------- MODULE MultiCycle -----------------------------
(***************************************************************************)
(* The multi-cycle unit of execute: vsrc/pipeline/execute/mult, a divider  *)
(* that shifts and subtracts one bit a cycle and a multiplier of two       *)
(* cycles, both on absolute values.  One step is one clock edge.           *)
(*                                                                         *)
(* W is the width of a register, W \div 2 that of the "W" instructions, so *)
(* 64 and 32 in the code.  The operands of an instruction are right in the *)
(* cycle the unit starts it and any values in the cycles after, when what  *)
(* produced them has left the stages execute forwards from; Pipeline shows *)
(* that they are right again when the unit starts it a second time.        *)
(***************************************************************************)
EXTENDS Integers

\* 1 << n.
Pow2[n \in Nat] == IF n = 0 THEN 1 ELSE 2 * Pow2[n - 1]

CONSTANTS
    W,         \* bits of a register
    LowBits,   \* bits of the two low slices of the first factor, 25 in the code
    Operands,  \* values operands take
    Later      \* values the inputs take once the unit is started

ASSUME MultiCycleAssumption ==
    /\ W \in Nat \ {0} /\ W % 4 = 0
    /\ LowBits \in 1 .. W \div 2
    /\ Operands \subseteq 0 .. Pow2[W] - 1
    /\ Later \subseteq 0 .. Pow2[W] - 1

MulOps == {"mul", "mulw"}
DivOps == {"div", "divu", "rem", "remu", "divw", "divuw", "remw", "remuw"}
Words  == 0 .. Pow2[W] - 1

Half == W \div 2
IsWord(op)   == op \in {"mulw", "divw", "divuw", "remw", "remuw"}
IsSigned(op) == op \in {"mul", "mulw", "div", "rem", "divw", "remw"}
IsRem(op)    == op \in {"rem", "remu", "remw", "remuw"}

\* The width an operation works on.
Bits(op) == IF IsWord(op) THEN Half ELSE W

Low(v, bits)  == v % Pow2[bits]
Msb(v, bits)  == Low(v, bits) >= Pow2[bits - 1]
Neg(v, bits)  == (Pow2[bits] - Low(v, bits)) % Pow2[bits]
\* {{32{v[31]}}, v[31:0]} for a "W" instruction.
Sext(v, bits) == IF Msb(v, bits) THEN Pow2[W] - Neg(v, bits) ELSE Low(v, bits)

VARIABLES
    ins,               \* the instruction in execute since an earlier cycle,
                       \* with its operands; op is "none" if there is none
    mul_state, mul_store, slices,      \* multiplier: p0 .. p11 are slices
    div_state, count, p, div_store     \* divider

mulVars == <<mul_state, mul_store, slices>>
divVars == <<div_state, count, p, div_store>>
vars == <<ins, mulVars, divVars>>

Instrs == [op : MulOps \union DivOps, a : Operands, b : Operands]
None   == [op |-> "none", a |-> 0, b |-> 0]
Store  == [a : Words, b : Words]
Slices == {0, 1, 2} \X (0 .. 3)

\* u41 in the code: 25 bits of the longest slice of one factor, 16 of the other.
SliceBits == (IF LowBits > W - 2 * LowBits THEN LowBits ELSE W - 2 * LowBits) + W \div 4

TypeOK ==
    /\ ins \in Instrs \union {None}
    /\ mul_state \in {"INIT", "DOING"} /\ mul_store \in Store
    /\ slices \in [Slices -> 0 .. Pow2[SliceBits] - 1]
    /\ div_state \in {"INIT", "DOING"} /\ count \in 0 .. W
    /\ p \in 0 .. Pow2[2 * W] - 1 /\ div_store \in Store

ZeroStore == [a |-> 0, b |-> 0]

Init ==
    /\ ins = None
    /\ mul_state = "INIT" /\ mul_store = ZeroStore /\ slices = [s \in Slices |-> 0]
    /\ div_state = "INIT" /\ count = 0 /\ p = 0 /\ div_store = ZeroStore

-----------------------------------------------------------------------------
(* The combinational part, for the inputs `in` of the cycle.               *)

\* A and B of both units: absolute values for the signed operations.
Magnitude(v, op) == IF IsSigned(op) /\ Msb(v, Bits(op)) THEN Neg(v, Bits(op))
                    ELSE Low(v, Bits(op))

\* Mutant: a divisor that is zero later counts as a division by zero.
DivByZeroAlways(in) == in.op \in DivOps /\ Low(in.b, Bits(in.op)) = 0

\* These leave at once.
DivByZero(in) == /\ in.op \in DivOps /\ Low(in.b, Bits(in.op)) = 0
                 /\ div_state = "INIT"

DivValid(in) == in.op \in DivOps /\ ~DivByZero(in)
MulValid(in) == in.op \in MulOps

\* done: state_nxt is INIT.
MulDone(in) == mul_state = "DOING" \/ ~MulValid(in)
DivDone(in) == IF div_state = "DOING" THEN count = 0 ELSE ~DivValid(in)
Doing(in)   == ~(MulDone(in) /\ DivDone(in))

\* a and b: the inputs in the first cycle, the stored ones later.
MulOperands(in) == IF ~MulDone(in) /\ MulValid(in) THEN [a |-> in.a, b |-> in.b]
                   ELSE mul_store
DivOperands(in) == IF DivValid(in) /\ div_state = "INIT" THEN [a |-> in.a, b |-> in.b]
                   ELSE div_store

\* e, f, g and m, n, p, q.
ASlice(v, i) == IF i = 2 THEN v \div Pow2[2 * LowBits]
                ELSE (v \div Pow2[i * LowBits]) % Pow2[LowBits]

\* Mutant: a slice keeps the bits above it.
BSliceWide(v, j) == v \div Pow2[j * (W \div 4)]

BSlice(v, j) == (v \div Pow2[j * (W \div 4)]) % Pow2[W \div 4]

Partial(s) == slices[s] * Pow2[s[1] * LowBits + s[2] * (W \div 4)]
Row(j)     == Partial(<<0, j>>) + Partial(<<1, j>>) + Partial(<<2, j>>)
Product    == (Row(0) + Row(1) + Row(2) + Row(3)) % Pow2[2 * W]

Quotient  == p % Pow2[W]
Remainder == p \div Pow2[W]

\* The result is negated.
DivSign(op, o) ==
    /\ IsSigned(op)
    /\ Msb(o.a, Bits(op)) # (IF IsRem(op) THEN Msb(Remainder, Bits(op)) ELSE Msb(o.b, Bits(op)))
MulSign(op, o) == IsSigned(op) /\ Msb(o.a, Bits(op)) # Msb(o.b, Bits(op))

Signed(neg, v, bits) == Sext(IF neg THEN Neg(v, bits) ELSE v, bits)

MulC(in) == Signed(MulSign(in.op, MulOperands(in)), Product, Bits(in.op))

DivC(in) ==
    IF DivByZero(in)
    THEN IF IsRem(in.op) THEN Sext(in.a, Bits(in.op)) ELSE Pow2[W] - 1
    ELSE Signed(DivSign(in.op, DivOperands(in)),
                IF IsRem(in.op) THEN Remainder ELSE Quotient, Bits(in.op))

\* multi_c.
MultiC(in) == IF in.op \in MulOps THEN MulC(in) ELSE DivC(in)

-----------------------------------------------------------------------------
(* The registers.                                                          *)

Multiplier(in) ==
    LET o == MulOperands(in)
        A == IF MulValid(in) THEN Magnitude(o.a, in.op) ELSE 0
        B == IF MulValid(in) THEN Magnitude(o.b, in.op) ELSE 0
    IN  /\ mul_state' = IF MulDone(in) THEN "INIT" ELSE "DOING"
        /\ mul_store' = IF MulDone(in) THEN mul_store ELSE [a |-> in.a, b |-> in.b]
        /\ slices' = [s \in Slices |-> ASlice(A, s[1]) * BSlice(B, s[2])]

\* One bit of the quotient.
DivStep(B) ==
    LET shifted == (2 * p) % Pow2[2 * W]
        high == shifted \div Pow2[W]
    IN  IF high >= B THEN shifted - B * Pow2[W] + 1 ELSE shifted

\* Mutant: the divider goes round once more.
DividerNoEnd(in) ==
    LET o == DivOperands(in)
        A == IF DivValid(in) THEN Magnitude(o.a, in.op) ELSE 0
        B == IF DivValid(in) THEN Magnitude(o.b, in.op) ELSE 0
    IN  /\ div_state' = IF DivDone(in) /\ div_state = "INIT" THEN "INIT" ELSE "DOING"
        /\ count' = IF div_state = "INIT" THEN IF DivValid(in) THEN W ELSE count
                    ELSE IF count = 0 THEN W ELSE count - 1
        /\ div_store' = IF DivValid(in) /\ div_state = "INIT" THEN [a |-> in.a, b |-> in.b]
                        ELSE div_store
        /\ p' = IF div_state = "INIT" THEN A ELSE DivStep(B)

\* count has one bit, shifted down to nothing: here the number of the bit.
Divider(in) ==
    LET o == DivOperands(in)
        A == IF DivValid(in) THEN Magnitude(o.a, in.op) ELSE 0
        B == IF DivValid(in) THEN Magnitude(o.b, in.op) ELSE 0
    IN  /\ div_state' = IF DivDone(in) THEN "INIT" ELSE "DOING"
        /\ count' = IF div_state = "INIT" THEN IF DivValid(in) THEN W ELSE count
                    ELSE IF count = 0 THEN 0 ELSE count - 1
        /\ div_store' = IF DivValid(in) /\ div_state = "INIT" THEN [a |-> in.a, b |-> in.b]
                        ELSE div_store
        /\ p' = IF div_state = "INIT" THEN A ELSE DivStep(B)

-----------------------------------------------------------------------------
(* Execute.  The instruction leaves when the unit is not doing and the     *)
(* stages behind are not stalled.                                          *)

InitState == mul_state = "INIT" /\ div_state = "INIT"

\* What the unit may see in this cycle: an instruction that has just come,
\* or that it starts again, with its operands; later any operands.
Inputs == IF ins = None THEN Instrs \union {None}
          ELSE IF InitState THEN {ins}
          ELSE {[op |-> ins.op, a |-> a, b |-> b] : a, b \in Later}

\* The instruction in execute, given the inputs.
Current(in) == IF ins = None THEN in ELSE ins

Run ==
    \E in \in Inputs :
        /\ Multiplier(in) /\ Divider(in)
        /\ \/ Doing(in) /\ ins' = Current(in)
           \/ ~Doing(in) /\ ins' = None

\* A data stall holds an instruction that could leave: it starts again.
RunStalled ==
    \E in \in Inputs :
        /\ in # None /\ ~Doing(in)
        /\ Multiplier(in) /\ Divider(in)
        /\ ins' = Current(in)

\* csr_flush resets the unit and the register before it.
Flush ==
    /\ mul_state' = "INIT" /\ mul_store' = ZeroStore /\ slices' = [s \in Slices |-> 0]
    /\ div_state' = "INIT" /\ count' = 0 /\ p' = 0 /\ div_store' = ZeroStore
    /\ ins' = None

Next == Run \/ RunStalled \/ Flush

\* The clock runs, which matters while an instruction is under way.
Spec == Init /\ [][Next]_vars /\ WF_vars(ins # None /\ Next)

-----------------------------------------------------------------------------
(* The reference: the instruction set's definitions, on integers.          *)

Number(v, op) == LET u == Low(v, Bits(op)) IN
              IF IsSigned(op) /\ Msb(v, Bits(op)) THEN u - Pow2[Bits(op)] ELSE u

Abs(i) == IF i < 0 THEN -i ELSE i

\* The quotient rounded towards zero: the remainder is smaller than the
\* divisor and has the sign of the dividend.
QuotientOf(a, b) ==
    CHOOSE q \in -Pow2[W] .. Pow2[W] :
        LET r == a - b * q IN Abs(r) < Abs(b) /\ (r # 0 => (r < 0 <=> a < 0))

Reference(i) ==
    LET a == Number(i.a, i.op)
        b == Number(i.b, i.op)
        result == CASE i.op \in MulOps -> a * b
                    [] i.op \in DivOps /\ ~IsRem(i.op) ->
                          IF b = 0 THEN -1 ELSE QuotientOf(a, b)
                    [] i.op \in DivOps /\ IsRem(i.op) ->
                          IF b = 0 THEN a ELSE a - b * QuotientOf(a, b)
    IN  Sext(result % Pow2[Bits(i.op)], Bits(i.op))

-----------------------------------------------------------------------------
(* Properties.                                                             *)

\* In a cycle in which the instruction may leave, multi_c is what it should
\* compute from the operands it had when the unit started it, whatever
\* reaches the unit's inputs now and whatever ran in it before.
ResultIsRight ==
    \A in \in Inputs \ {None} : ~Doing(in) => MultiC(in) = Reference(Current(in))

\* A division leaves its unit in the end, with a flush or a stall at any time.
UnitIsFreed == []<>InitState

=============================================================================
