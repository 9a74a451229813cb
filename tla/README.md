# Verification of my-riscv-cpu

TLA+ models, TLC runs and TLAPS proofs about the processor in `src/vsrc` and
the C++ bench in `src/verilate` that tests its data cache. The processor is a
five-stage RV64IM core with machine-mode CSRs, a branch predictor, multi-cycle
multiplication and division, two write-back caches with 16-word lines behind
one bus, and the memory of the simulation it runs against.

The modules describe the hardware clock edge by clock edge: a VARIABLE is a
register or a RAM, an operator without primes is combinational logic, a step is
a rising edge of the clock.

Contents: [inventory](#1-inventory), [modules](#2-modules-and-the-code),
[runs](#3-runs), [fairness](#4-fairness), [proofs](#5-proofs),
[findings](#6-findings), [limits](#7-what-is-not-modelled),
[plan](#8-plan).

## 1. Inventory

### The parts and how they interact

```
   fetch -> decode -> execute -> memory (M1/M2) -> writeback
     |  ^      ^         |          |                 |
     |  |      +---------+----------+--- forwarding --+     hazard unit: stalls, flushes
     |  +-- predictor, redirect, csr flush                  csr: traps, interrupts
     v                              v
  ICache (ireq/iresp)          DCache (dreq/dresp)
     |                              |
     +-------- CBusArbiter ---------+      (one transfer at a time, data cache first)
                    |
        RAMHelper2 (simulation)  or  CBusToAXI (board)
```

| component | state | operations | correct when |
|---|---|---|---|
| data cache `cache/DCache.sv` | valid/dirty, tag RAM, data RAM (two ports, registered outputs), miss FSM, beat offset, loaded words, write buffer | hit, hit under miss, miss, fill beat, write-back beat, uncached pass-through | loads return the last store; no word lost in an eviction; one way per line |
| replacement, same file | seven select bits per set | record a hit, choose a victim | lines used last survive |
| memory stage `pipeline/memory/memory.sv` | FSM `IDLE`, `MEMORY01`, `MEMORY10`, `MEMORY11`; E/M and M1/M2 registers | send, re-send, take the answer, stall | each instruction's access happens once, each load gets its own answer |
| instruction cache `cache/ICache.sv` | as the data cache | fetch, miss, fill | the word returned is that of the pc |
| bus arbiter `util/CBusArbiter.sv` | `busy`, `index` | select, lock, route | a beat reaches its requester; nobody waits for ever |
| memory of the simulation `difftest/.../ram.sv`, `ram.cpp` | FSM, delay and beat counter, wrap addresses, saved request | latch, delay, burst, last | bursts wrap in the line; requests do not change under way |
| fetch, predictor `pipeline/fetch`, `pipeline/bpb` | pc, two-bit counters, histories | fetch, predict, redirect | only instructions of the right path commit |
| decode `pipeline/decode` | none (table) | decode, branch decision | matches the RISC-V manual |
| multiplier, divider `pipeline/execute/mult` | FSMs, stored operands, slices, shift register | start, step, finish, restart, flush | the result is the instruction set's for every operand; the unit becomes free |
| execute `pipeline/execute` | multiplier and divider FSMs, stored operands | ALU, multiply, divide | the result is the ISA's, with forwarded operands of its first cycle |
| hazard unit, forwarding `pipeline/hazard`, `pipeline/forward` | pipeline registers | stall, flush, forward | the pipeline commits what a one-instruction-at-a-time machine does |
| CSRs `pipeline/csr`, `pipeline/writeback` | machine-mode CSRs, mode | csr instructions, ecall, mret, exceptions, interrupts | traps are precise; an instruction executes once; the interrupted state survives until mret; an interrupt that stays is taken |
| cache test bench `verilate/vsrc/VCacheTop`, `bus.h` | queue of tasks, request port, reference memory | submit, tick, answer, fence, reset | every answer goes to its task and is compared with the right value; a fence ends |
| memory device of the bench `cbus_device.cpp`, `axi.h`, `memory.cpp` | transaction (address, beat), memory, on/off | response, request, sync, pause | its assertions hold; its addresses are those the cache means |
| byte lanes `writedata.sv`, `readdata.sv`, `LoadOp` of `bus.h` | none | place, pick, extend | a load sees exactly the bytes stores left |
| test runner, simulator shell `verilate/vsrc` | options, logs, worker processes | parse, run, report | (not modelled) |
| AXI bridge `util/CBusToAXI.sv` | `addr_sent`, `data_sent` | address, data, response handshakes | each CBus beat is one AXI beat |

Interaction is by signals in the same cycle: a request is driven by a register
of one component and read combinationally by the next, and the answer may
depend on the request of the same cycle (`addr_ok` and `data_ok` of an uncached
access are the bus's own `ready` and `last`). Two components therefore step
together, at the same edge, with the outputs of the state before it.

### What is hard here

Nothing in this design is a thread, but a lot happens at the same edge, and the
duration of everything that leaves the core is random. The hazards, with the
line where each bites, are listed in `PROJECT.json`. In short:

- *Hits under the miss.* While a line is filled word by word starting at the
  word missed, the core may load and store words of the same line that have
  arrived, and any word of other lines of the same set.
- *Eviction through a window.* The victim's way is given to the new line at
  once. Its old words leave `data_ram` one beat before the new ones overwrite
  them, pass a RAM output register, and enter the write buffer two edges later,
  under control of flags the next miss may already reset.
- *Counters on both sides.* The cache and the memory count beats and wrap
  addresses apart, in opposite directions, and never compare notes.
- *A protocol kept by timing.* The memory stage never looks at `data_ok`; an
  uncached request would be sent twice if its first cycle were answered; a
  memory instruction directly behind another would be lost. What prevents each
  is the latency of another module.
- *One bus.* Two caches drive requests combinationally from registers that
  change at the edges of their own beats, and the memory stops the simulation
  if a request is modified.
- *Stalls, flushes and redirects in any combination*: a load/use stall in
  decode while the multi-cycle unit is busy and a fetch is under way, a trap in
  writeback that withdraws an access, a fetch and a multiplication at once.
- *Interrupts* are levels that change in any cycle, are copied into the enable
  register in each, and hit whatever instruction is in writeback.
- *Sampling around the clock edge.* The bench reads the answer before a tick
  that still carries the request, and puts the next one there after it.
- *Pauses and resets.* The device of the bench goes silent inside a burst; a
  test may end with a fill under way.

## 2. Modules and the code

`PROJECT.json` maps each definition to its lines.

| module | models | EXTENDS / uses |
|---|---|---|
| `AtomicMemory` | the promise of the data side: a one-port atomic memory | |
| `DCache` | `DCache.sv` and the RAMs in it | |
| `DCacheMem` | `memory.sv` + `DCache` + the memory behind the bus; the refinement mapping to `AtomicMemory` | `DCache`, `AtomicMemory` |
| `MCDCacheMem` | instances of `DCacheMem` for TLC | `DCacheMem` |
| `PLRU` | select bits and victim choice of one set | |
| `CBus` | both miss FSMs seen from the bus, `CBusArbiter.sv`, `ram.sv` | |
| `Isa` | a machine that executes one instruction at a time, the reference of the pipeline | |
| `Pipeline` | `core.sv` and the stages in it: fetch, decode, execute, memory, writeback, hazard unit, forwarding | `Isa` |
| `MCPipeline` | the programs TLC runs `Pipeline` with | `Pipeline` |
| `DCacheProofs` | theorems on `DCache`: types, places, and what an edge does to the words, for any client and memory | `DCache`, TLAPS |
| `DCacheMemProofs` | theorems on `DCacheMem`, among them the refinement of `AtomicMemory` | `DCacheMem`, `DCacheProofs` |
| `CBusProofs` | theorems on `CBus` | `CBus`, TLAPS |
| `PipelineProofs` | theorems on `Pipeline` | `Pipeline`, TLAPS |
| `Csr` | `csr.sv` and the register write of `writeback.sv`, with interrupts | |
| `CsrProofs` | theorems on `Csr` | `Csr`, TLAPS |
| `MultiCycle` | `multicycle.sv`, `multiplier*.sv`, `divider*.sv` | |
| `MultiCycleProofs` | theorems on `MultiCycle` | `MultiCycle`, TLAPS |
| `CacheBench` | the C++ bench, its device and reference around the data cache | `DCache` |
| `MCCacheBench` | the tasks TLC runs `CacheBench` with | `CacheBench`, `ByteLanes` |
| `CacheBenchProofs` | theorems on `CacheBench` | `CacheBench`, `DCacheProofs` |
| `ByteLanes` | the bytes of a word in the core and in the bench | |
| `ByteLanesProofs` | theorems on `ByteLanes` | `ByteLanes`, TLAPS |

**DCache.** The variables carry the names of the registers; `wb` groups
`wb_tag`, `wb_meta`, `wb_wen` and `wb_offset`. `Edge(r, c)` is one clock edge with
request `r` on `dreq` and response `c` on `cresp`. Its disjuncts are the cases of
the miss FSM: `StartMiss` (`fsm_to_miss`, whether from `IDLE` or from the last
beat of a write-back), `IdleEdge`, `LoadWait`, `LoadBeat`, `WritebackEdge`; each
includes `Datapath`, which is what the `always_ff` blocks and the two ports of
`data_ram` do at every edge, and, unless a miss starts, the dirty bit of a store
that hits. A RAM returns the word it held before the edge, as the simulation
branch of `RAM_TrueDualPort.sv` does. Abstractions: a word is one value and a
store writes all of it; the tag `IOTag` stands for the addresses with bit 31
clear; among valid ways any victim may be taken, a superset of what the select
bits choose, so that everything shown holds for any replacement policy.
Registers that are not reset (`creq_addr`, `writebuffer`) start with any value.

**DCacheMem.** `dataE_o` and `dataM1` are the requests of the instructions in the
E/M and M1/M2 registers. `Accept`, `AcceptUncached`, `Stall` and `Pass` are the
branches of the FSM in `memory.sv`. `Advance` lets any instruction of `Issued`
enter behind a bubble: the instruction cache answers every second cycle at best
(its own `dresp_data_ok` toggles), so two memory instructions are never adjacent.
The memory takes the request of the bus (`Grant`: arbiter and `RAMHelper2` latch
it in cycles of their own, so never in the cycle it appears with a beat) and
transfers a beat at any later edge (`Transfer`). An edge without a beat is
`Quiet`.

**PLRU.** `Touch` is what a hit writes to `select_ram`, `SelectedWay` and `MissWay`
what a miss reads from it. `recent` and `scan` are history variables. The line a
miss filled is the next that hits, because the memory stage holds its request.

**CBus.** Words are their addresses. `Arbiter` is the registered selection of
`CBusArbiter.sv`; `Latch`, `CountDelay`, `StartBurst`, `RamBeat` are the states
of `RAMHelper2`. `NextOf` is what a miss FSM drives next: a miss starts from `IDLE`
or with the last beat of a write-back (`Starts`), a dirty victim is written back after
its fill (`Writebacks`), and an uncached access, whose `skip` is combinational, is on the
bus in the very cycle it finds the FSM at rest (`Skips`). `need` says what the request
in front of each cache still waits for; it is *served* when it has its answer, which for
a miss is a beat of the fill, not its end. So the next access may arrive while a fill
goes on, wait for its end, and then go ahead of a fetch that has waited longer.

When requests arrive is decided by the pipeline, of which three facts are kept, in
`pipe`; they are parts of the invariant `PipeInv` of `PipelineProofs`. `Move`: the pc goes on, and an access gets
to D/E, only when neither cache keeps its stage waiting (`regstall_en.pc`), and not
behind an access in D/E, where the next word is still to be fetched (`FetchLags`).
`Arrive`: the access in D/E is in the memory stage one edge later, behind a bubble
(`Spaced`, `BubbleBehindAccess`); that is at the first edge at which the cache can
start the fill for the pc behind it, so one more access may come while a fetch waits.
`Redirect`: a flush from writeback meets no waiting access (`StageFollowsAccess`),
withdraws the fetch, and leaves nothing behind that could redirect or access again before
the new fetch is served. `Stall` is any other edge. An access that is withdrawn in its first
cycle (`csr_wen`) is one that needs nothing.

**Isa, Pipeline.** `fd`, `de`, `em`, `mw` are the outputs of the four `pipereg`s
(`dataF_o`, `dataD_o`, `dataE_o`, `dataM_o`), `dataM1` and `mstate` those of
`memory.sv`. A step, `Clock`, is one edge: one of the five regimes of
`hazard.sv` (`Flush`, `DataStall`, `MultiStall`, `DecodeStall`, `Flow`) moves the
pipeline registers and the pc, and in the same edge `Commit` writes the register
file and the CSRs, `MemoryStage` is the FSM of `memory.sv`, `DataCache` what its
request does outside, `MultiUnit` the multiplier or divider, `FetchStage` the
request register of `fetch.sv`. The regimes are disjoint, and their order is the
priority that `pipereg` gives: reset by a redirect, then stall, then flush.

What an instruction is, is a class: one per path through the pipeline.
An address of code and a value are both a number below `N`, so that a jump
target can be computed by the instruction before it. `Alu` and `Multi` tell their
operands and their order apart, which is all that forwarding can get wrong. The
word fetched from an address is chosen anew at each fetch, so one run covers all
programs over the instructions of `Issued` (and programs that change under way,
which difftest would not know the difference of either: `ref` executes what
commits). Every word carries the address it was read from, `at`.
The predictor may answer anything its opcode check allows (`Predictions`): a
superset of the two-bit counters. The data cache answers after any number of
cycles, as `DCacheMem` shows it does; the arbiter's cycle before a device is
answered is `device_bus`; the instruction cache looks up in one cycle, answers
in the next and not in two in a row, as `dresp_data_ok` does.

**Csr.** One step is one edge with an instruction, or a bubble, in writeback.
`lines` are the two interrupt inputs that matter; they take any value in any
cycle. `Interrupting`, `Cause`, `PcNxt` are the combinational logic; `Trap`,
`WriteCsr`, `Mret`, `NoCsr` the branches of the `unique if` that computes
`regs_nxt`, each with the copy of the lines into `mie` that precedes it. `Redirect`,
`Deliver`, `DeliverBubble` say what is in writeback next: the pipeline in front
is what `Pipeline` shows of it (in order, bubbles between, empty after a
redirection). `x` stands for the register file. `ref`, `clean`, `frame` and `last`
are history variables: what `difftest.cpp` would have executed, whether a trap
has hit an instruction that writes a register, the interrupted state while it
is owed to the handler, and the lines of the cycle before.

**MultiCycle.** All registers of the multiplier (two cycles, twelve partial
products of slices) and of the divider (one subtraction a cycle on a shift
register of twice the width) at a width `W`; the "W" instructions work on half of
it. A shift is a product with, or a division by, a power of two (`Pow2`), bits cut
off are a remainder. The slices of one factor are `W \div 4` bits, those of the
other `LowBits`, twice, and the rest: 16, and 25, 25 and 14 in the code. `Row` is one
of `t0` to `t3`. `Run` holds the instruction in execute until the unit is done,
`RunStalled` is a stall from elsewhere that outlasts it and makes it start again,
`Flush` a redirect. The inputs of later cycles are any of `Later`, which the proofs
let be every word.

**CacheBench.** `Tick` is `MyCache::_tick` and what `DBusPipelineGen::tick` does around
it: the answer is read (`Answered`), the cache and the device take an edge with
the request still on the port, then the queue moves and the port is driven
again. `Resp` is `eval_resp`; the disjuncts of `DeviceEdge` are the branches of
`eval_req` and `sync`: off, last beat, next beat, begin, nothing to do.
`NextAddr` is the wrap of `AXITransaction::sync`. `Submit` runs a task on the
reference and queues it; `Reset` is what happens between tests: it may come in
the middle of a fill, which the 100000 ticks with reset held abandon (with the
request memset to zero the cache is idle and the device is then reset too).
Between `Submit`s any number of ticks may pass, which covers the pipelined and
the synchronous test styles. An address is the number of its word.

**ByteLanes.** A word is a function from lanes to bytes, a strobe or mask the set of
lanes it selects. Both sides of the same convention are in it: the tables of
`writedata.sv` and `readdata.sv`, and `LoadOp` of the bench with `parse`, `strobe`,
`mask`, `place` and the two `apply`. It has no state. This is what entitles the other
modules to move whole words.

## 3. Runs

| run | instance | distinct states | what it shows |
|---|---|---|---|
| `DCacheMem` | 2 ways, 1 set, 4 words, 3 tags + uncached | 867 784 | the seven invariants and `RequestIsHeld` |
| `DCacheMem_refines` | 2 ways, 1 set, 2 words, 3 tags + uncached | 111 746 | the hierarchy implements `AtomicMemory`, safety and liveness |
| `DCacheMem_sets` | 1 way, 2 sets, 2 words, 2 tags + uncached | 107 408 | the same when a miss in one set meets the fill or write-back of another |
| `PLRU` | all eight ways | 2 020 | the two ways hit last are not the next victim |
| `PLRU_scan` | all eight ways | violation | section 6 |
| `Pipeline_data` | ALU, multi-cycle, load, store, branch, jal, jalr | 186 887 | operands, order, bubbles, and that instructions go on committing |
| `Pipeline_control` | store, device access, multi-cycle, CSR write, trap, mret | 2 165 956 | redirects from writeback lose and repeat nothing; accesses are precise |
| `CBus` | 4-word lines, 3 lines, delays 0..2 | 72 049 | routing, held requests, fetches and accesses are served |
| `Csr` | 2 addresses, 2 values, 2 modes, 8 operations | 98 480 | frame, causes, enables; an interrupt that stays is taken |
| `Csr_retry` | the same | violation | section 6 |
| `MultiCycle` | width 4, all 10 operations, 6 operand values, 2 later inputs | 135 463 | results, and that the unit becomes free |
| `CacheBench` | 1 way, 2 sets, 4 words, 2 tags, queue of 2 | 440 692 | answers, device assertions, resets, fences |

**Properties of the data side.**
`ImplementsMemory` is the main one: under the mapping that takes a word from the
way that holds it, else from the eviction pipeline, else from memory, every step
of the hierarchy is a step of the atomic memory or leaves it alone. It covers
lost stores, stale reads, double execution of an access and (with fairness)
requests that are never served.
`CleanLineMatchesMemory`: a clean line can be dropped.
`EvictedIsNowhere`: an evicted line has no copy in the cache until memory has it.
`HitIsOneHot`: the encoder of `idx`, an OR of hit bits, never sees two.
`BusAgrees`: at every beat the memory and the FSM mean the same word.
`AcceptedIsAnswered`: the memory stage may ignore `data_ok`, as it does.
`UncachedIsNotResent`: a device sees an uncached access once.
`RequestIsHeld`: what `RAMHelper2` asserts of its input.

**Properties of the bus.** `BeatIsExpected`, `RequestUnmodified`, and `RequestsAreServed`.
A fetch that waits is served though the data cache is always preferred.
What may go ahead of it is a fill, its write-back and the fill (and write-back) or uncached
access of the one instruction that was in D/E; then the pipeline, which waits for the
fetch, sends nothing more. Without the stall of the fetch in `hazard.sv` the data cache
goes from fill to write-back to fill and keeps the bus (the mutant `MoveUnstalled`).
An access that waits is served, behind whatever its own cache and the
other are doing. The property speaks of a request somebody waits for. A fill whose fetch was given
up in a redirect may itself be put off for as long as the instructions fetched instead
hit and keep missing in the data cache; nobody waits for it.

**Properties of the pipeline.** `CommitsInOrder`: what commits is the program, each
instruction once, at the pc the reference is at, and read from that pc.
`DiffTest`: registers, CSR and `mepc` agree with the reference at every edge,
which is what `difftest.cpp` compares. Together they cover forwarding, load/use
and branch stalls, misprediction, the multi-cycle unit and the flush.
`MemoryIsPrecise`: a store or a device access happens once, and not if an older
instruction redirects. `BubbleBehindAccess` and `DeviceRequestHeld` are the two
facts about the pipeline that `DCacheMem` takes for granted (its `Advance` lets
an access in behind a bubble only, and its requests are held).
`KeepsCommitting`: no combination of stalls lasts for ever.

**Properties of traps.** `FrameIsKept`: from the trap until the handler writes
`mstatus` or `mepc`, returns or faults, what `mret` needs is where it takes it from.
`MretUndoesTrap`: and `mret` does restore it. `CauseIsTrue`: the cause names a line
that was high and an interrupt that was enabled (not necessarily the same line:
the cause is taken from the raw inputs). `EnableBitsAreTheLines`: an instruction
meets the lines of the cycle before as enable bits, whatever software wrote to
`mie`; so nothing is ever masked by `mie`, and a line that is high for one cycle only
interrupts nothing. `csr_pkg.sv:75` calls the register "Machine interrupt-enable
register". `OnlyTrappedWritesDiverge`: the divergence of section 6 is the only one.
`InterruptIsTaken`: a line that stays high with interrupts enabled interrupts, or
a fault comes first. When a fault and an interrupt coincide the fault is
reported (`csr.sv:138`), where difftest prefers the interrupt; the line is still
high afterwards, so this is a choice and not a loss.

**Properties of the multi-cycle unit.** `ResultIsRight` states multiplication, quotient and
remainder over the integers, with the three special cases of the manual
(division by zero, the most negative number by -1, 32-bit operands sign
extended). `UnitIsFreed`: no sequence of starts, stalls and flushes leaves the
FSMs where `doing` stays high.

**Properties of the bench.** `ReadsMatchReference` is the bench's own assertion together with the
one it does not make: an answer belongs to the task at the head of the queue.
`TransactionIsHeld` are the five assertions of `CBusDevice::eval_req`. `BeatsAgree`:
device and cache mean the same word. `TasksAreAnswered`: as long as there are
tasks some are answered, so `fence()` returns. `MCCacheBench` also evaluates the
promises of `ByteLanes` on two words for every pair of accesses.

**Why the bounds are enough.** In the pipeline at most five instructions are in flight
behind the one that commits; programs are not bounded, only the instructions
they are made of and the register they use. One register besides x0 is the
hardest case for forwarding, since every instruction produces what the next
ones consume; x0 as destination is in the control program. `N = 3` is the least
for which pc, pc + 4, the target of a jump and the trap vector can differ, and
for which `Multi` tells its operands apart. Traps, CSR writes and `mret` are in
a run of their own because a redirect from writeback empties the pipeline: what
matters is the few instructions around it, which are an access, a multi-cycle
instruction, another redirect, or a word on the path of a wrong prediction (the
trap may be an illegal branch, which is predicted by its opcode). The cache's cases are about *the* missed line,
*the* victim and one other line of the set, in the same or another set: two ways
and three tags give all of them in one set, one way and two sets give the rest.
Four words are the least for which the beat after the first, the last one and a
middle one differ; two are enough for the first and the last, and keep the
refinement run small. One address takes every value (`WatchOne`), the others are
written with the initial value, so that a word taken from or to a wrong address
shows; the word watched is the first of a line, and every fill may start at any
offset. `CBus` needs a delay of none, of one cycle, and of more. The
counter of the code has eight bits and is loaded from `$random() % 31 + 2`, which
may be negative and wrap to up to 255: only the length of a wait changes.
`PLRU` is not cut down.
`Csr` keeps two values, the least that differ, and two addresses, so that pc, pc + 4
and the vector coincide in every way they can; the state of a trap does not
depend on the program beyond that. `MultiCycle` at four bits has two-bit halves,
the least with a sign and a magnitude, and slices of one and two bits, so that
every partial product can carry; the operands contain zero, one, -1, the most
negative and most positive numbers and one more; the inputs of later cycles are zero,
which turns any division into one by zero, and all ones. The proofs have no such
bounds. In `CacheBench` every address of
the set conflicts with the other tag, so fills, write-backs and hits under the
miss of both sets meet; a queue of two has a task behind the one answered.

Deadlock is checked in every run.

## 4. Fairness

`DCacheMem`'s `FairSpec` assumes that the clock ticks (`WF(Next)`), that the memory
takes a request that stays on the bus (`WF(Grant)`) and that it transfers the
beats of what it took (`WF(Transfer)`). `RAMHelper2` counts down a delay of at most
255 cycles, and the run `CBus` shows that every access that waits gets through the arbiter
when the clock ticks alone (`RequestsAreServed`). The abstract memory has `WF(Serve)`: a
request on the port is served. No fairness is assumed of the instruction
stream. `CBus` assumes only `WF(Next)`, that the clock ticks: delays are counted.
`Pipeline`'s `FairSpec` assumes that the clock ticks and that what is asked long
enough is answered: a cached access (`ImplementsMemory`), a device, the
multi-cycle unit (two cycles, or the 65 of the divider), a fetch
(`RequestsAreServed`). Nothing is assumed of the program or the predictor.
`Csr` assumes that the clock ticks and that an instruction is delivered again and
again, which is `KeepsCommitting` of `Pipeline`; nothing of the interrupt lines.
`MultiCycle` assumes that the clock ticks while an instruction is in the unit.
`CacheBench` assumes that the bench ticks while its queue is not empty (`fence()` and
`await()` are loops that do) and that the device is on infinitely often: in every
cycle it is on with probability `1 - p_disable`, so for `p_disable < 1` this fails with
probability zero.

## 5. Proofs

All obligations are discharged by TLAPS. For the cache they hold for every number
of ways, sets and words (at least two words), every set of tags and values, and
every instruction stream `Issued`: the assumptions are `DCacheAssumption` and
`IssuedAssumption`. TLC checked every inductive invariant below on the instance
of its run before it was proved.

*The cache alone* (`DCacheProofs!CacheCorrect`), with any request and any
response at every edge. The inductive invariant is `CacheInv`: types,
`HitIsOneHot`, `EvictedIsNowhere`, `NoUncachedLine` and `FillOwnsItsWay`.
One-hotness holds because a miss writes the tag that did not hit;
`EvictedIsNowhere` needs one-hotness at the moment of the miss (the victim is the
only copy) and afterwards the guard of `ToMiss`, which lets nothing be allocated
until the write-back ends. `NoUncachedLine` needs that an uncached request does
not miss, and `FillOwnsItsWay` that no other tag is written during the fill.

*The hierarchy* (`DCacheMemProofs!MemCorrect`). `MemInv` adds to `CacheInv`:

- `WritesBack`: the registers are those of a valid evicted line during
  `WRITEBACK`, and the line on the bus is a cached one;
- `Handshake`: in `MEMORY01` the request accepted in the last cycle still hits,
  and its word is loaded, which is what makes `data_ok` high
  (`AcceptedIsAnswered`) and is preserved because only a miss changes tags and
  a request accepted was a hit, not a miss;
- `Countdown`: the beats the memory has left are the distance of the FSM's offset
  from the end of the burst;
- `BusAgrees`, which makes `last` of the memory the last beat of the FSM, and an
  uncached transaction one of an idle cache. An uncached request is answered only
  after a `Grant`, in whose cycle the stage moved to `MEMORY10`: hence
  `UncachedIsNotResent`.

`RequestIsHeld` follows from `MemInv` step by step. The theorems that `PROJECT.json`
lists are corollaries, one per property of the run.

*The words of the cache* (`DCacheProofs!EdgeData`), with any client and any memory `m`
behind the bus that answers as `BusMoves` says: a fill carries the words of `m`, a
write-back stores the words of the write buffer, the last beat is the last. The
invariant `DataInv(m)` is about a line that is half here and half there. `Behind(o)`
says that a word lies between the first offset of the transfer and the next one,
around the end of the line. `Filled`: the bits of `miss_data_loaded` are the words
behind. `WrittenTo`: memory has the words behind, the eviction pipeline (write
buffer, the word in flight from the RAM, the way that is still read) has every
word, and the word in flight is never the one memory wants next. `CleanOver`: a clean
line equals memory wherever it is loaded. `EdgeData` is the result: an edge with any
request keeps `DataInv`, and `WordOver(m, a)`, the word the way, the pipeline and
memory together stand for, stays as it is for every address but the one a store
hits. The miss itself is the hard case: in one edge the line leaves its way for the
pipeline, with words of it still to be read out of the RAM while the fill goes on.

*The data of the hierarchy* (`DCacheMemProofs!WordsCorrect`, `MemImplementsMemory`).
`WordInv` joins `MemInv`, `DataInv(mem)` and `OneAtATime`: the stage holds one access,
and in `MEMORY01` the store it accepted has been made. `CleanLineMatchesMemory` is its
corollary. For the refinement, `PortCases` says what the refinement mapping makes of
the port in each state of the stage, and `Served` what happens to memory at the
edge that accepts or finishes an access: by `EdgeData` all words stay, but the one
stored, and `hit_rdata` or `memr_data` is the word of the abstract memory. Hence every
step is `Ask`, `Serve`, `Release` or a stutter: `Spec => Memory!Safety`, the safety
part of `ImplementsMemory`. An uncached access is a `Serve` in the cycle of its beat.

*The pipeline* (`PipelineProofs`), for every `N`, set of registers, program and
timing of caches, device, multi-cycle unit and predictor. `PipelineTypes` is type
correctness. `PipeInv` has four parts: `Spaced` (behind any instruction in E/M, M1/M2 or
writeback but a multi-cycle one there is a bubble), `FetchLags` (when such an instruction
is in D/E, fetch has just gone on and its next word is at least a cycle away),
`StageFollowsAccess` (`MEMORY10` waits with its access in E/M and a bubble in writeback,
`MEMORY01` has none in E/M, `MEMORY11` is never entered) and `DeviceWaits`. The argument
is circular over one step and so needs all four: the bubble behind an access in E/M is
there because the access left D/E in a fetch stall; it left D/E at once because only
another access could have held it there, and that one has a bubble behind it.
`AccessesAreApart` and `DeviceRequestIsHeld` follow.

`DataInv` is about the data, and it looks from writeback towards fetch. The machine
of `Isa` is run ahead of the reference through the instructions in the pipeline:
`BeforeM` is the state after what is in writeback, `BeforeE` after what is in memory
too, and so on to `BeforeFetch`. Every stage holds what the machine in front of it
says: the instruction at its pc (`OnPath`), the result, store data and loaded value it
has computed so far (`Computed`, `InW`, `InM`, `InE`), the operands as forwarding
delivers them (`InD`: the values of `opA` and `opB`, or what the multi-cycle unit has
stored of them), a prediction its opcode allows (`InF`), and a pc that is the next
instruction's or the prediction's (`InFetch`). What is behind an instruction that
redirects from writeback is on no path and is compared with nothing (`LiveM` to
`LiveFetch`). Two more parts are needed. `WordOfPc`: the word on its way from the
instruction cache is that of the pc. `InMem`: memory and device are as far as the
machine in front of E/M, which is why an access must not leave E/M beside an instruction
that may redirect. An edge that commits moves `ref` over the instruction in writeback,
so that a stage that advances is compared with the same state as before; what is
left to show is that the comparison survives the work of the stage. Load-use stalls
appear as the lemmas that decode and a branch in fetch read nothing which is not
there to forward (`DecodeReads`, `BranchReads`); with one stall less they are false.
`PipelineCommits`, `PipelineIsReference` and `AccessesArePrecise` are `CommitsInOrder`,
`DiffTest` and `MemoryIsPrecise`.

`Pipeline` assumes of a program that it has no word zero (`IssuedAssumption`). To the
manual that is an illegal instruction; the code takes it for a bubble and skips it
(`decode.sv:57` asks for `raw_instr != 0` before it faults, and `core.sv:182` does not
report its commit).

*Traps* (`CsrProofs`), for every number of addresses and values, every set of
modes and every program. `CsrInv` joins types, `FrameIsKept`,
`EnableBitsAreTheLines` and `OnlyTrappedWritesDiverge` with what makes them
inductive. `FrameIsKept` needs that a trap in the handler can only be a fault,
because `mie` is low, and that a fault starts a frame of its own;
`EnableBitsAreTheLines` needs that a write of `mie` leaves a bubble behind it. The two
action properties follow from the invariant.

*The bench* (`CacheBenchProofs!BenchCorrect`), for every geometry, set of tasks, queue
length and pattern of pauses. `BenchInv` joins `CacheInv`, proved once for any
client and bus in `DCacheProofs`, with `PortIsHead` (the request on the port is
that of the head of the queue, so no request is uncached and the bus carries the
miss alone), `TxIsMiss` (the transaction is the miss's; the offset of the FSM is as
many words from the first as the device has counted, cyclically) and `MissAtStart`
(before the transaction begins the FSM is at the first word). `LastWraps` is the
heart: after as many beats as the line has words the FSM stands at the first word
again, which is where a write-back and the next miss expect it. `SyncWraps` equates
the AXI formula, a division by the length of the burst, with the FSM's counter.
`HeldTransaction` and `AgreeingBeats` follow. A pause is a step in which neither
counter moves, and `Reset` ends in a state that satisfies the invariant with no
line valid.

`BenchReadsMatch` needs the words too: `WordInv` joins `BenchInv`, `DataInv` over the
bench's memory (numbered by words: `AsAddrs`), and three facts about the queue.
`RefIsAhead`: the reference has of every address what the last store to it in the
queue writes, and else what the cache stands for. `LoadsExpect`: the load at place
k expects what the tasks before it leave. `HitIsDone`: in the cycle in which a hit is
flagged, the store of the head has been made, or `hit_rdata` is what the head
expects; without the toggle of `dresp_data_ok` this would hold for the wrong task.
A tick pops the head and shifts all three; `Submit` adds a place behind them, and
after `Reset` they hold because both memories are zeroed.

*The bus* (`CBusProofs!BusCorrect`), for every length of a line, number of lines and
delay. The arbiter remembers an owner, the memory counts down and wraps its address
at the line, the cache counts what it expects and wraps its offset. `BusInv` ties
them: `Owned` (the owner asks, and the memory works only for an owner), `Fresh` (a
transaction without beats stands at its first word, so that a new owner and a new
burst start together), `InStep` (word, beats left and direction agree at every beat)
and `WrapsAtLine`. `InStep` is kept around the end of the line because both sides wrap
there (`NextWordOfLine`), which is false for a burst aligned to anything else.
`BeatIsExpected` and `RequestUnmodified` follow.

*Bytes* (`ByteLanesProofs`), for every word, width, address and sign.
`LoadSeesStoreAlways`: after an aligned store a load of any width and place sees the
byte-addressed memory of the manual, sign extension included.
`MisalignedStoreIsHarmless`: a store that faults changes no byte, although its
request is sent. `BenchStoresAsCore`, `AssertSeesLoad` and `ApplyFallsThrough` are the
same for `LoadOp`: its stores write the bytes the core would, the comparison of
`apply_assert` is one of what a load delivers, and the missing `break`s of
`LoadOp::apply` change nothing.

*The multi-cycle unit* (`MultiCycleProofs`), for every width that is a multiple of four,
every place to cut the first factor, all operands and any inputs in later cycles: 64
bits and slices of 25 in particular. `UnitTypes` is type correctness: no partial product
overflows its 41 bits, no step of the divider its 128. `UnitIsRight` is `ResultIsRight`.
The argument has four layers.

- *Powers of two.* `Pow2` is a recursive function. `NatSetInduction`, induction for sets,
  follows from the least-number principle of the library; it shows that the recursion has
  a solution (`Pow2Def`) and that powers multiply (`Pow2Add`). Division with a remainder is
  used through `DivModUnique` and `ModCong` only.
- *Numbers.* `NegIs`, `SextLow` and `NumberOf` say what two's complement, sign extension
  and magnitude are on integers, so that a result is right if it is right modulo the
  width of the instruction (`SignedIs`).
- *Multiplication.* `ASlices` and `BSlices`: a factor is the sum of its slices in their
  places. By distribution the twelve partial products add up to the product
  (`ProductIs`), which is below the square of the largest word and loses nothing.
- *Division.* `Progress` is the invariant of the loop. After k steps p is, from the
  left, a remainder less than the divisor, the bits of the dividend still to come, and k
  bits of quotient: `p = r * 2^W + t * 2^k + q` with
  `a = (q * b + r) * 2^(W - k) + t`. `DivAdvances` keeps it in the subtracting and in the
  other case, and `DivEnds` reads the quotient and the remainder off. `DivisionOf` takes
  the signs into account, and `QuotientIs` shows that the quotient rounded towards zero
  is unique, so that the `CHOOSE` of the reference names this one.

`UnitInv` joins them to the state machine: while the multiplier is doing, its stored
operands are those of the instruction and its slices those of their magnitudes; while
the divider is doing, `Progress` holds of the same, with `W - count` for k; one of them is
at rest. This is where stalls, restarts and inputs that change under way are dealt with:
an instruction that is started again finds both units at rest, and a divisor that turns
zero later is not looked at.

*Only model-checked:*

- The properties of `PLRU`: there are eight ways in the code too, so TLC's run is
  already complete, and `RecentSurvive` is about two remembered ways only.
- Everything about liveness, which is out of the prover's reach: `RequestsAreServed`,
  `KeepsCommitting`, `InterruptIsTaken`, `UnitIsFreed`, `TasksAreAnswered`, and that the
  atomic memory serves what it is asked, the fairness in `ImplementsMemory`.

## 6. Findings

`PLRU_scan`: a comment at `DCache.sv:101` calls the select bits "psudo LRU". Line
162 updates `selects[4]` from `selects[5]` on a hit in the lower half, and line
177 reads the two pair bits for the opposite halves. TLC's counterexample is a
full set in which the fifth miss in a row evicts the line the first one brought
in; a pseudo-LRU tree visits all eight ways first. No data is lost (the run
`DCacheMem` allows any victim), and the two lines used last do survive
(`RecentSurvive`), but working sets of five to eight lines thrash.

`Csr_retry`: an instruction that is interrupted or faults in writeback still writes
its register: `regwrite_en` (`writeback.sv:45`) is the control bit alone. Its own pc
is saved in `mepc`, so after the handler it runs once more on the changed register.
`addi x, x, 1` then counts twice, `csrrw sp, mscratch, sp`, which handlers use, loses
the old `mscratch`, and a misaligned load writes its register although it faults.
`difftest.cpp:111` to `125` take the interrupt in place of the commit, so the
reference differs. The co-simulation of the repository does not see it:
`core.sv` has no `DifftestArchEvent`, so no interrupt is ever reported to it.

## 7. What is not modelled

- In the modules with caches a word is one value: `ByteLanes` looks inside it. A
  misaligned access sends its request all the same (`memory.sv:50` does not ask);
  to a device that is a read.
- In `DCacheMem`, `csr_wen` and `MEMORY11` of `memory.sv`; both are in `Pipeline`.
- In `Pipeline` one CSR and `mepc` stand for the CSRs, and there are no interrupts;
  in `Csr` there are no accesses. So an interrupt on a multi-cycle instruction with
  a device access directly behind it (`csr.sv:43`) is in neither.
- `mtvec`, `mcycle`, `mip`, `mtval`, `satp` as data; `exint`, which decides nothing.
- The counters of the predictor: in `Pipeline` it may say anything of a branch.
- The AXI bridge.
- Of `src/verilate`: the worker pool of `testbench.cpp` and the hooks around a test;
  command line, logs, waveforms, statistics (`common.cpp`, `model.cpp`, `runner.h`);
  `Confreg`, `MemoryRouter` and the memory cells of a full-system simulation that
  `VCacheTop` does not build; what `REFERENCE_CACHE` would compile in (`check_internal`,
  `check_memory` are empty otherwise); the vendored headers `CLI11.hpp` and
  `nameof.hpp`, which are two thirds of its lines.
- A test that drives the port by hand, without the queue: `async_load`, `async_store` and
  `clear` in the tests "void", "fake load", "fake store" and "ad hoc" of `tests.inl`. What
  is shown of the bench is shown for every sequence of queued or awaited tasks.
- The decoder and the ALU's operations: tables whose reference is the RISC-V
  manual, with 64-bit data.
- The upper eleven bits of `e` in the multiplier, which is declared with 25 bits and
  assigned only 14 (`multiplier.sv:23` and `26`). They are undriven; `MultiCycle` takes
  them for the zeros a two-state simulation gives them.
- The vendor-primitive branches of the RAMs, the board designs, `difftest`
  apart from the memory model, and bus adapters no top module instantiates.
- An instruction fetch from an uncached address (the reset vector is cached).

## 8. Plan

In this order, most important first. Modules that are to be proved about use
no RECURSIVE operator.

1. `DCache`, `DCacheMem`, `AtomicMemory` with proofs (done); `PLRU`, `CBus` (done).
2. `Isa`, `Pipeline` with the first proofs (done).
3. `Csr`, `MultiCycle` with proofs (done).
4. `CacheBench`, `ByteLanes` with proofs (done).
5. Interrupts in `Pipeline`; `ICache`: fetch, redirect under a miss, `fetch.sv` in
   front of it; `CBusToAXI`: channel handshakes.
6. Proofs: `CleanLineMatchesMemory`, the safety part of the refinement,
   `ReadsMatchReference`, the arbiter, and `CommitsInOrder`, `DiffTest` and
   `MemoryIsPrecise` of the pipeline for every program, `ResultIsRight` at every width
   (done). Left: `PipeInv` with interrupts, once they are in `Pipeline`.
