# Formal models of the cdriscv-32s-20 safety subsystem

cdriscv-32s-20 is a 32-bit RISC-V safety subsystem written in SystemVerilog (`src/rtl`): a core with
a lockstep copy, tightly coupled memories with ECC, a small interconnect, safety peripherals, a boot
loader and a JTAG observation port. Around it stand Python programs (`src/scripts`, `src/verif/core`)
that generate part of it, build what it runs, and judge whether it is right. These modules describe
the control of both in TLA+, TLC checks them on small instances, and TLAPS proves the results that
matter most for every value of the constants.

In the models of hardware one step is one edge of a clock, with the inputs sampled at that edge; a
reset or a bit flip that strikes between two edges is a step of its own. (The boot loader moves by
bytes and bus events, a script by the operations that read or change a file, start a process or book
a result.) Registers keep their names (`count_q`), combinational signals are operators of the state
and the inputs, and everything that has no counterpart in the code is marked as history. Data are
abstracted to what the properties tell apart: a word is known by the address it was read from, a
fault is an element of a set, a code word is its data and its flipped bits, a file the set of
mutants it carries.

## 1. Inventory

The hardware:

| Component | State | Operations | What makes it correct | Status |
|---|---|---|---|---|
| Fetch stage `if_stage` | two-entry buffer, one outstanding transaction, discard mark | request, response, redirect, fault injection for denied words | no word lost, repeated or taken from before a redirect | `IfStage`, proved |
| Realigner `if_align` | held low half, half position, error mark | hold, deliver 16 or 32 bits, redirect | each instruction has its own parcels, address and error | `IfAlign`, proved |
| Load/store unit `lsu` | idle, wait for grant, wait for response | access | every access answered once, in its own turn | in `Bus`, `Core` |
| Interconnect `bus` | owner of the I-TCM, error responder | arbitrate, route the response | answers reach the one who asked | `Bus`, proved |
| Memories `tcm` | array, read register, read-modify-write phase | load, store, partial store | atomic accesses, correct or reported | `Tcm`, proved |
| APB bridge | four states | transfer | one transfer at a time; survives a warm reset | in `Bus`, `SafetySystem` |
| CLINT | time, compare, prescaler | count, write in halves | time goes on; no interrupt before its deadline | `Clint`, proved; the APB timer is left out |
| Watchdog `wdog` | count, period, window, keys, lock | tick, service, configure, clear | never quiet for longer than a period once enabled | `Wdog`, proved |
| Safety controller | status, reactions, pin, injection, parity | latch, clear, configure, lock, upset | no fault lost, every new one acted on, upsets reported | `SafetyCtrl`, proved |
| Reset tree | synchronisers, warm reset count | external reset, request | the core is held for exactly the length promised | `ResetTree`, proved |
| Reaction loop | watchdog + controller + reset tree + software | all of them | the core always runs again | `SafetySystem` |
| JTAG TAP | controller state, shift registers | scan | a scan is exact whatever pauses it | `JtagTap`, proved |
| Debug bridge | toggles and synchronisers in two clock domains | request, acknowledge, resets | an access once, answered with its own data | `DbgBridge`, proved |
| Debug port | TAP + bridge + window | read a register | it reads what it asked | `DebugPort`, proved |
| Core control `core` | five states, Zcmp step | issue, wait, retire, trap, sleep | each instruction takes effect whole or traps without effect; interrupts in between | `Core`, proved |
| CSR file `csr` | trap registers, counters, PMP registers | read, write, trap, return | no event lost, locks hold | trap registers in `Core` |
| Zcmp sequencer `zcmp` | step | push, pop, move | a faulting sequence can be executed again | in `Core`, without the double moves |
| Lockstep `lockstep` | delay pipelines of inputs, outputs and reset | compare, inject | no false alarm after any reset, no missed difference | `Lockstep`, proved |
| Memory self test `mbist` | march position, first failure | start, abort, automatic start, step | fails exactly on a memory that is bad | `Mbist`, proved |
| Clock monitor `clkmon` | counters in two domains, limits, fault, clear | heartbeat, measure, report, clear | a clock out of range is reported, and again while it stays so | `ClkMon` |
| Interrupt controller `irq_ctrl` | pending, enable, mode | latch, clear | no edge lost | `IrqCtrl`, proved |
| Mixed-signal interface `ams_if` | sequence, time-out, status | convert, time out, stop | a result belongs to its channel; none out of range is lost | `AmsIf`, the first proved |
| Boot loader `qspi_boot` | header, byte and word in hand, write port, retries | attempt, write, check, retry | the core is released only on the whole verified payload, where the header read puts it; the loader ends | `BootLoader`, the first proved |
| PMP, end-to-end link | none; a held address | match; check | - | not modelled, section 5 |
| Decoder, decompressor, ALU, multiplier, divider, register file | data paths | - | exhaustive benches and co-simulation in `src/verif` | not modelled |

The programs:

| Program | State | What makes it correct | Status |
|---|---|---|---|
| `mutate_*.py`, five scripts | the RTL in the working tree, the originals in memory, the score | one mutant at a time and none left behind; "all killed" means it | `MutationRun`, proved |
| `fi_campaign.py`, `fi_boot_campaign.py` | fault list, pool of jobs, tallies | the report does not depend on the order in which jobs end; the verdict is that of the tallies | `FaultCampaign`, proved |
| `gen_secded.py`, `mkimage.py` | the columns of the code, the emitted encoder and decoder | every single flip corrected, every double one detected, images readable; the shipped file is the generated one | `SecDed`, the code proved |
| `gen_padring.py` | port table, pinout, three files | every bit of every port that is read as declared padded once, the files agree | `PadRing`, proved |
| `gen_random_prog.py`, `random_regress.py`, `cosim.py` | program, two logs, tally | every program ends; a seed passes exactly if the core retired what Spike did | `Cosim`, the second proved |
| `check_zcmp.py` | a model of registers and memory | a table with a step wrong, missing or too many fails; one with accesses out of order too, the only order it sees | `ZcmpCheck`, proved |
| `check_decompress.py` | tallies | a wrong row fails | `DecompressCheck`, proved |
| `fmeda.py` | counts by element | with a netlist, the metrics are computed from exactly the one the table counts | `Fmeda`, the recount, proved |
| `mkbootimg.py` | the image | the loader accepts what it packs, and delivers it | in `BootLoader` |
| reports, netlist filters, RISCOF plug-ins, benches, flow | - | - | not modelled, section 5 |

How they interact. The fetch stage and the load/store unit are the two masters of `bus`; they share
the I-TCM, where the data side wins. The boot loader is its data master until it releases the core.
The APB bridge takes the core's accesses to the peripherals. The watchdog and every checker raise
faults into the safety controller, which asks the reset tree for a warm reset; that takes the core,
the bus and the CLINT, and leaves the memories, the bridge and the other peripherals as they are. The
debugger reads a window of registers through the TAP and the clock crossing and cannot write. The
programs meet the hardware in files: the generated decoder and pad ring, the tables that benches
dump, the logs they print, and the sources that the mutation scripts edit in place.

What is hard. Answers with no tag, whose owner the bus has to remember; a two-cycle store between
two masters; redirects in the same cycle as grants and answers; a reset that takes one end of a
conversation; data crossing between clocks beside a toggle; a sticky status that requests the
reset of the software which is to clear it; bits that flip in the registers that decide whether flips
are reported; status bits set and cleared on one edge; attempts that fail with a write under way;
jobs that end out of order, benches that overrun, scripts that are killed with the sources edited,
checks that pass because they compared too little, and programs that read less of a source than they say. PROJECT.json lists these hazards at their
lines, with the properties aimed at each.

## 2. Modules, in the order in which they depend on each other

| Module | Models | Built on |
|---|---|---|
| `FetchStream` | promise of the prefetcher: a stream of words | - |
| `IfStage` | `core/..._if_stage.sv` | implements `FetchStream` |
| `InstrStream` | promise of the fetch unit: a stream of instructions | - |
| `IfAlign` | `core/..._if_align.sv` | instance of `FetchStream` as its input; implements `InstrStream` |
| `Hart` | promise of the core to its software: instructions, traps, interrupts, sleep | - |
| `Core` | `core/..._core.sv`, with the step table of `zcmp`, the phases of `lsu` and the trap registers of `csr` | implements `Hart` |
| `WordMemory` | promise of a memory: atomic accesses, answers or errors | - |
| `Tcm` | `bus/..._tcm.sv`, SEC-DED by what it does | - |
| `Bus` | `bus/..._bus.sv`, `core/..._lsu.sv`, `periph/..._clint_obi.sv`, bridge | `Tcm`; its I-TCM implements `WordMemory` |
| `Sync` | `common/..._sync.sv` | - |
| `RemoteAccess` | promise of the debug crossing | - |
| `DbgBridge` | `debug/..._dbg_bridge.sv` | `Sync` |
| `JtagTap` | `debug/..._jtag_tap.sv` | - |
| `DebugPort` | TAP, bridge and window as connected in `subsys` | instances of both; implements `RemoteAccess` |
| `Wdog` | `safety/..._wdog.sv` | - |
| `SafetyCtrl` | `safety/..._safety_ctrl.sv`, `common/..._cfg_parity.sv` | - |
| `ResetTree` | reset logic of `..._subsys.sv` | `Sync` |
| `SafetySystem` | the reaction loop, with the APB bridge and software | instances of `Wdog`, `SafetyCtrl`; `ResetTree` |
| `Lockstep`, `Mbist`, `IrqCtrl`, `Clint`, `AmsIf` | the block of that name | - |
| `ClkMon` | `safety/..._clkmon.sv` | `Sync` |
| `BootLoader` | `boot/..._qspi_boot.sv`, the hold of `subsys`, and `mkbootimg.py`, whose images it reads | - |
| `MutationRun` | the loop the five `mutate_*.py` share, and their tables | - |
| `FaultCampaign`, `SecDed`, `PadRing`, `Cosim`, `ZcmpCheck`, `DecompressCheck`, `Fmeda` | the programs named above | - |

`MCTransport`, `MCBlocks` and `MCTools` declare the constants of their units and instantiate them; the values of the run are definitions at their end that only the .cfg names. `MCBus` extends `Core` and instantiates `Bus` beside it.
`BusProofs`, `TransportProofs`, `BlockProofs`, `ToolProofs` and `CheckProofs` extend them, so a theorem there is about the very definition a run checks and for every value of those constants: `Align!Spec => InstrSpec`
is about the realigner alone, and in the run the same instance moves while `running` names it. `SafetyProofs` is about `SafetyCtrl` and `ResetTree`, and the other `*Proofs` modules about the module they are named after.

Correspondence. In `IfStage`, `Advance` and `Redirect` are the two branches of the clocked process,
with the request, the response and the injected fault of that edge as parameters; `PmpWrite` changes the denied
addresses, which the code receives as an input. `IfAlign` has an action for each way a parcel moves, guarded by the alignment
state. In `Core` an action is what one edge does in one state of the control FSM: the three ways an instruction leaves `ST_RUN` (in its
cycle, to a state that waits, as a trap), and the steps of each waiting state. The instruction is on offer from the fetch unit as `InstrStream` has it; the
memory changes when the bus answers. In `Bus`, `Clk` is one edge of everything clocked: `LsuEdge`, `BusEdge`, `FetchEdge`, the memories and
the bridge, each as its always block states it; `WarmReset` is the asynchronous reset of its part. In
`Wdog` and `SafetyCtrl` an action is a register write or an edge without one, and every action contains
the whole edge (count, time-out, latching, parity). In `DbgBridge` the actions are an edge of either clock or of both,
and the two resets with their releases. `SafetySystem` has one action for each thing the software or the bridge can be doing at an edge.
In the peripherals there is one action for each register write and one for an edge without one, each containing the whole
edge. `BootLoader` has an action for a byte, for each event on the bus and for each state of the loader; `Failed` is the failure handler, which
every action that can fail ends in. In `MutationRun` an action is what happens up to the next file operation or bench, and `Kill` may come
between any two; `Finally` is the `finally` clause. `FaultCampaign` separates the end of a job from its booking. The generators (`SecDed`, `PadRing`) make
their choice in one step and check it in another; the checkers read one row of their input in a step.

What an abstract module hides in the refinements: the buffer of `IfStage` is one word on offer, the
held half of `IfAlign` one instruction on offer, the second phase of a partial store in `Tcm` is a
stutter (the contents are those after the merge from the moment of acceptance), the waits of `Core` are one instruction that has
begun, and the toggles of the debug crossing are one outstanding request.

## 3. Runs

| Run | Question | Instance |
|---|---|---|
| `core_bus` | interconnect: do answers reach their owner, are accesses atomic, is nobody starved? Core: are traps precise, pushes and pops restartable, requests held, and does nothing hang? | the head of `MCBus`: one word of two lanes, all five kinds of slaves, flips, one warm reset; two instruction addresses, registers ra, s0, a0, four data addresses of which two have memory, every kind of instruction, any program |
| `transport` | fetch stage and realigner: is every instruction the one at its address, and do both keep going? TAP, crossing and debug port: are scans exact and accesses atomic? | three wrapping word addresses, at most one denied at a time, all layouts of instruction lengths; two-bit data registers for the TAP alone and one-bit ones for the port; three requests, two samples, two-stage synchronisers, any clock ratio, resets of both sides |
| `safety` | controller: are faults latched, acted on, reported, and is nothing invented? loop: is the core held exactly, and does it always run again? | one internal, one external fault, one upset; warm reset of two cycles, period of five |
| `blocks` | the watchdog, the self test, the interrupt controller, the CLINT, the conversion sequence, the clock monitor, the lockstep, the boot loader: what section 1 says makes each correct | the head of `MCBlocks` |
| `tools` | eight programs: does each accept, and produce, what it should, and what does it let through? | the head of `MCTools` |
| `bus_warm_reset`, `dbg_clk_reset`, `safety_pin_upset`, `safety_cause`, `clint_high_first`, `ams_range_lost`, `boot_header` | claims of the documents | violations, see below |

`core_bus`, `transport`, `safety`, `blocks` and `tools` hold units that share no state: one is chosen at the start and the others rest in an initial state,
so that their state spaces add and do not multiply. `blocks` and `tools` do not check deadlock, since a boot loader that is done and a program that has ended stop.

Why the bounds are enough. The buffer of the prefetcher holds two words and one more can be in flight,
so three addresses that wrap tell every word in it from every other, and let a stale word carry the very address expected next.
A straddling instruction touches two words, and three leave one that is not involved. A push or
pop of two registers has a first and a last beat, and at the end of the address space it wraps and meets a word that does not exist; two instruction addresses tell a handler
from the code it interrupts. The I-TCM
treats all words alike; one word with two lanes has a lane that is stored and one that must be kept. Two
flips are as bad as it gets: the decoder does not tell three from two, and a third flip is outside the promise of the code.
The synchronisers have the two stages of the code. The watchdog's counts are compared with zero, with one and with
each other only, and 0..3 has all of these apart. The controller handles its faults bit by bit, with one internal and one synchronised
input standing for the others.

The march treats its words by their order, and a defect involves one word or two; three words have a first, a last and one between, on either
side of a coupling. The time and the compare have two digits of base three: a value below, equal to and above the one in the other half.
Two channels are a current and a next one, and one of them may be masked. The clock monitor's window is one count wide, with a ratio inside it and one on either side.
The lockstep delay is two, against one for the mutation that shortens one of its three pipelines. The loader's memories hold two words of two
bytes, so that a segment can fill one, miss it by a word, or straddle its end; with one retry, two glitches give a first failure, a last one, and success after each.
Two jobs suffice for answers out of order; two seeds for a failure that must not stop or hide the other program; bodies of two
instructions for a branch over one. `SecDed` runs the repository's own geometry, two with no column to spare, and one with too few.
A list of four registers has a first, a last and inner beats, and with spimm 0 and 1 a frame of each size; two moved registers give equal and unequal pairs
(the script has twelve lists, four adjustments and eight registers, up to which the theorem holds). The defects of a table are every field of a step, a step left out, two neighbours
exchanged, and an instruction missing or too many. A header may be misread in any one field, an address as any place of either memory or of neither. Two edits of the pad ring are a change and the mistake made with it: a port
added to the subsystem on a line of each kind, changed or removed, in the subsystem or the table, and pads put, taken out or moved.
Seven lines of a netlist hold the three flip-flops of the table, each with its net, and one line more; in shorter ones flip-flops are missing,
too many, or without a net while the nets of other cells follow. The mutation tables are the repository's own.

Bounds, by name: `MaxResets` (warm resets in `Bus`), `MaxUpsets` (flipped bits in
`SafetyCtrl` and `Lockstep`), `PartialCredit` (instructions the core can execute from words it has already fetched, in `Bus`), `MaxDrifts` (changes of the clocks' ratio),
`MaxGlitches` (misreads, bus errors and stalls while booting), `MaxKills` (of mutation scripts; the proof has any number), `MaxOverruns`, `MaxEdits` (of port table and pinout), `MaxHits` (flips in a code word),
`MaxRetired` (entries kept of a random program's execution), `MaxList`, `MaxSpimm`, `MaxMoved`, `MaxRows`, `MaxLines`, and the saturating
history counters of `ResetTree` and `Wdog`. The host of `DebugPort` loads only the four instructions the TAP has: all other codes select the bypass register.

Observations about the constants and the environments. `CoreRunsAgain` holds only when a watchdog period is longer than the restart itself; the locked watchdog
with a shorter one holds the core in reset for good, so the run uses the shortest period that does not.
`AnswersOwn` needs a warm reset of at least three edges, the longest transfer of an on-chip peripheral, which the `WarmRstLen` of the code satisfies by a wide margin.
`VerdictRight` is about a march that nothing cut short, history variable `clean`: a start that takes effect between the two cycles
of a read, on the edge that finds a mismatch, or on the last edge of a test leaves a result that belongs to neither march. An abort, followed by a fresh start, is inside the property. `ResultOwn` excepts a converter that still answers for a conversion abandoned by a time-out or by software: the code cannot tell, and
its result goes to the next channel. `DeliversPayload` assumes that a write which times out is not answered later, and a CRC collision is not in the model. Of the ways to misread a header one gets through, an address that
becomes another legal one (`Misplaced`): the property says where the payload then is, and `boot_header` what the documents say. `TableVerdict` names the exchanges of steps that pass (`OrderUnseen`): all but that of
two accesses, since the script sorts the register writes and interprets every step over the state before the instruction. `RecountExact` has nothing to compare without `--netlist`, where the metrics are those
of the table, and excepts a netlist in which the net of another cell is taken for a flip-flop's that has none (`stale`). `ChipIsWired` speaks of the ports that the script reads as they are declared (`ReadRight`), and
`DriftIsWritten` says of the others that they are not wired as declared. In the boot campaign an outcome with an unknown status or exit value has no class, and ends the campaign without a report (`StopsAt`). `OneMutantAtATime` says nothing of a script started after another was
killed with a mutant in the tree, beyond that it restores what it found: it takes the mutated file for the original, which `MaxKills` = 1 exhibits and the property's `kills = 0` names.

### Fairness

Clocks run: `WF` of the edge, or `[]<><<...>>` where the edge is too large an action for TLC to enable cheaply. An upset and a reset
have none, nor does anything software or a debugger chooses. `IfStage` assumes that a request held up is granted and answered;
`Bus` checks just that under a running clock alone (`NobodyStarves`), where the only assumption on the
core is that it cannot execute instructions it has not fetched (`PartialCredit`). `IfAlign` assumes that
words arrive, which `KeepsGoing` checks of `IfStage`. `DbgBridge` assumes both clocks, and that a reset is released. `Core` assumes that whatever can move on with fetching
enabled does: that instructions are delivered, the bus grants and answers and a division ends; it does not assume that a state can be left.
`BootLoader` assumes that the loader and the bus step and that the self test ends; its watchdog is a step that may or may not strike. `Clint` assumes its clock, `ClkMon` the next edge of
whichever clock is due: its two clocks run at one of the ratios, and a clock that stops altogether is modelled only as one too slow for the window. `Cosim` assumes that a hart which can retire does.

### Where the code and its documents disagree

`PROJECT.json` "findings" quotes the lines. In short:

- `bus_warm_reset`: a transfer to a slow external peripheral outlives the warm reset and answers the first access of the restarted core.
- `dbg_clk_reset`: a system reset between a debug request and its answer leaves the debugger busy until it resets the TAP.
- `safety_pin_upset`: a flip of the pin's polarity or mode returns the pin to its healthy level, after one edge.
- `safety_cause`: a clear of the status issued just before the warm reset is performed after it and erases its cause.
- `clint_high_first`: the order in which the manuals write the two halves of the compare passes through values in the past; the order in the header of the code does not, which `blocks` checks.
- `ams_range_lost`: any status write loses a range bit that is set on the same edge.
- `boot_header`: a header whose address is misread as another legal one fails none of the checks that are said to catch a corrupt header.
- the watchdog's window (`WindowKept` in `blocks`): a service with the count equal to the window is accepted, where the manual and the header of the code say below it.
- the order of push and pop steps (`ChecksAreExact` in `tools`): a table with the write of the stack pointer out of place passes, where the script says it fails.
- ports the pad ring generator does not read right (`ChipIsWired` in `tools`): the chip top is written without their pads, where the script says that drift aborts the run.

## 4. Proofs

The theorems hold for every value of the constants that satisfies the named assumptions, which TLC evaluates in the runs. Every safety property of the passing runs has one,
except `ShippedIsGenerated` (below). For most of them the work is the invariant: what has to be true between two steps for the property to survive the next.

**`TransportProofs`.**
- *Fetch stage.* That a response has room depends on how the outstanding flag, the buffer and the transaction in flight fit together, and that
words are in order on where each of them comes from. `IInv` says it: the words in the buffer and the one in flight, unless marked stale, are
consecutive addresses up to the fetch address, and they never exceed two. On top of it `Implements` shows that each edge moves the stream of `FetchStream`, redirects it, or stutters.
- *Realigner* (`Realigns`). `HeldIsFirst`: a held half is the first half of the instruction at the program counter, its error mark is that of its word, and the word on offer is the next.
Together with the half position this places every parcel; redirects and errors preserve it.
- *Crossing* (`CrossesSafely`, `AccessesAreAtomic`). At any time one token is between the clocks: at rest, an edge in the request synchroniser, the pulse, or an edge in the
acknowledge synchroniser (`Resting`, `Asking`, `Pulsing`, `Answering`), for any number of stages from two on, and any order of edges. Data are written only at the two ends of its way.
With resets of either side the token may be lost or doubled, so the first theorem speaks of a crossing that no reset has struck on one side alone (`clean`); the refinement of `RemoteAccess` is stated for `Resets = {}`.
- *TAP* (`ScansAreExact`). The selected register is the last bits of what was captured followed by what was shifted in (`Holds`), which every shift preserves and every pause leaves alone; `AfterOnes` gives the states that k
edges with tms high can leave.
- *Debug port* (`DebugIsAtomic`). The token again, with one more fact, `Told`: the answer on its way is to the request that was made last.

**`CoreProofs`.** `CoreTypeOK` is inductive because it relates the registers: an access is under way exactly in the states and steps that wait for it, and outside a sequence its step and
its outstanding beat are clear. That the request is held follows one action at a time. `ImplementsHart` adds `HartInv` and `SeqInv`: what of a push or a pop has been done is what the step says, in the order of the list, and
the registers and the stack pointer its restart needs are as they were. Then each edge is a step of `Hart` (an instruction that retires or traps, an interrupt, a wake-up) or a stutter. It assumes of a frame that it has room for the list and does not
overlap itself, and of the list that its registers are distinct and `a0` not among them, as the encodings of Zcmp have it.

**`BusProofs`.** `MemInv` holds the types and what the second phase of a partial store remembers; the refinement of `WordMemory` goes by what an edge does to the I-TCM. `EachItsOwn` needs
`OwnInv`: of each answer that is on its way, at which slave it is, that the slave's owner is the master that waits for it, and that nobody else's is. A warm reset clears the masters and not the bridge, so it holds only
because the transfer ends before the masters restart: hence its assumptions `~SlowSlot` and `WarmRstLen >= 3`. The run `bus_warm_reset` shows what happens without the first.

**`SafetyProofs`.**
- *Safety controller.* One lemma reduces every register write to the edge they share; what that edge latches, requests and drops gives the first three theorems, with any sets of faults and any racing clear. `GuardIsExact` rests on `Guarded`:
while no upset has struck, the guard sees no error, and while one is unreported, it sees one. A flip of any guarded bit changes their parity (`FlipsParity`, over sets and the divider's own parity), and the parity stored is compared only when no write came in between. It assumes `MaxUpsets <= 1`, which is what a single parity bit promises.
- *Reset tree* (`ExactReset`). The invariant gives each flip-flop of the two chains by the ages of the last external
reset and of the last request; the core's release then follows for all lengths of the warm reset and of the chains.

**`BlockProofs`.**
- *Watchdog.* `IInv` adds to the types that count and quiet edges sum to the period, and that the key detector is armed exactly after an unused first key; the window theorem, an equivalence at the very edge where the count equals the window, is an action property from the same.
- *Interrupt controller* (`EdgesKept`): an edge that is owed is pending (`OwedPending`), because the set is the last to be computed on an edge.
- *CLINT* (`GuardedOrderIsQuiet`): `DeadlineStage` says after each of the three writes what the two halves hold, and that this value is never below both deadlines. It is stated for `Order = "guarded"`; `clint_high_first` is the other order.
- *Conversion sequence* (`ResultsOwn`): a converter at work for nobody (`ForNobody`) was abandoned.
- *Lockstep* (`MismatchIsExact`): the checker is where the undisturbed core was `Delay` edges ago, and slot i of every pipeline holds what was there i edges ago (`InStep`, `IsPast`), once the pipeline of the reset has let it go.
- *Memory self test* (`VerdictsRight`): for each class of defect, which words of the array hold what they should (`Holding`), and which element of the march has still to read the place where they do not (`ToRead`). A sound memory never fails, and a defect is
either found or still ahead.
- *Boot loader* (`PayloadIsDelivered`): the bytes that came are the words stored, the word on the bus and the one that is not complete (`Stored`, `Held`), all at the places of the header as it was read (`Positioned`), and every failure that counts took a glitch or an image that cannot be loaded (`Blamed`). So
the image is where the flash has it unless an address was misread (`Misplaced`): a misread length changes what the checksum is over. It assumes words of two bytes or more; the code's have four.

**`ToolProofs`.**
- *Mutation scripts.* That a bench judges one mutant alone is inductive only with what `finally` can rely on: that the files of the script are the only ones that
differ when it begins (`Restorable`), that without a kill the originals are the repository's (`OriginalsPristine`), and that every mutant before the current one has been counted,
and a killed one seen failing (`Tallied`). Scripts, tables and the number of kills are arbitrary.
- *SEC-DED* (`CodeIsSecDed`): turning a bit over toggles the syndrome by the column of that bit; the columns that pass `Check` are odd and distinct; and the symmetric difference of two sets is odd exactly if one of the two is.
So the syndrome after one flip is its column, and after two it is even and not empty. What the check of the generator verifies is just what the proof uses: it does not ask how the columns were chosen.
- *Pad ring* (`EveryPortHasItsPad`): the rows of the four sides, joined, are the places of the pinout, each once; there are as many different names as pads, so at a bit of a port there is at most one pad, and the check of each port gives one. The cell
follows the direction because both come from the table, which was compared with what the script read of the RTL (`ReadingIs`); where that is what is declared (`ReadRight`), the port is wired as declared (`ChipWired`). The converse holds as well: a port that is
not in the table has no pads, and one whose width is misread has as many as were read (`ConnectedIs`, `ChipDrifts`), so of a port not read right the pads are wrong whatever else was edited. The places of the three files are those of one pinout. `PadRingAssumption` says what the constructors of the pads give, and that the ports whose pads
the script writes out by name (`HardCoded`) are padded, are as wide as the script takes them, are declared plainly, and are not among those edited. The proof
attempt corrected the property: the script asks of no signal pad that it is not at a port of the flash's bidirectional bus, and where another bus lost a bit in the same edit its counts hold as well, so that port has a pad too many.
Of those ports the property now counts the bidirectional pads alone; TLC had not met the case within `MaxEdits`.
- *Fault campaigns* (`ReportsAreSequential`): an outcome stands at the place of its fault, so the counts are those of the outcomes the count has passed. Counting needs that the lists are finite and their targets in the table, for the boot campaign by induction over its targets.
- *Co-simulation* (`RegressionIsExact`): a branch goes forward, so what is retired is at most the loops done times the body plus the place in this one (`Retired`), which is below the bound of the log; and no log but the right one has the
architecture's entries and then the end label. It assumes a body of at least two instructions and a slack of at least two; the code has 400 by default and 4096.

**`CheckProofs`**, the three programs that judge a table.
- *Decompression checker* (`NoWrongRowPasses`): the class of a row that can be compared is a discrepancy exactly if the row is wrong.
- *Failure metrics* (`NetlistsAreRecounted`): the counts are those of the flip-flops by their first rule (`FmedaAssumption`: finitely many rules, by number), and the sum over a finite set of rules is the number of flip-flops
that have one; so totals that agree leave none unmatched. A flip-flop without a net shows in the total, as long as no other cell's net was counted in its place (`stale`); without `--netlist` the theorem says only that the table adds up.
- *Push and pop table* (`PushPopTableIsJudged`). That the right table passes needs the model to be the hart's state before each case, and that the sequencer's steps, each interpreted over that state, write what Spike writes (`SequencerIsRight`). That a wrong one fails
needs every single defect to show (`DefectTells`): no step writes what another step writes, so a step that is changed or left out changes a register, an access or the return, and two accesses exchanged change their order (`SwapTells`). For the same reason any other two neighbours
can be exchanged without a trace (`SwapUnseen`), so the theorem says exactly which wrong tables pass. A defect can be told because the seeds in front of a case (`SetUpFor`) give
every register and slot a value that is neither zero nor another's. The invariant `ZcmpKept` carries the model, the seeds between `Seed` and `Commit`, and the counts: what was checked, used and found bad are the cases done so far (`CountsAre`). The sizes are all up
to the script's own (`ZcmpAssumption`). The interpreter is a recursive function of the steps; that each step only adds its own events (`EventsAre`) goes by induction over their number, with `SetInduction`.
`ChecksJudgeExactly` puts the three judging programs together, as the run does in `ChecksAreExact`.

Induction over data. The provers cannot instantiate the library's induction theorems, whose parameter is an operator. Where a proof needs one, the predicate is given as a set: `SetInduction` in `ToolProofs`, from the well-foundedness of `<` on Nat, `SubsetInduction` in `CheckProofs` over finite sets, and the same in place in the others.

Only model-checked, and why:
- liveness, which the prover cannot reach: `NobodyStarves`, `NothingHangs`, `InterruptTaken`, `KeepsGoing`, `PinKeepsMoving`, `CoreRunsAgain`, `TimeMoves`, `BadClockReported`, `BootEnds`, `ProgramEnds`;
- `ShippedIsGenerated`: the generator for the shipped geometry, one computation of 32 columns chosen out of 35 and compared with the masks and the syndromes in the decoder of the repository. TLC does all of it, and no constant enlarges it.

## 5. Left out

The values an instruction computes are a choice in `Core`: of a load, a push or a pop only the registers and words involved matter. Its trap vectors and `mie` are constants or part of the
interrupt input, of the cause it keeps the vector that was taken, and the stack pointer is written by no load. Widths (counters have a parameter), the APB address decode, register read-back, alignment and sign
extension of loads, the select of the error bit, the raw BIST port of the memories, and formatting of every kind. A
reset that takes a whole module back to its initial state adds no behaviour and is left out there; a
reset that takes one part of a composition is modelled (`Bus`, `DbgBridge`, `SafetySystem`). In `Bus` and `Tcm` SEC-DED is modelled by its distances, which the
repository's bench proves exhaustively for the matrix used. Metastability is the two-stage delay alone; beyond that it is electrical.

Not modelled, and why. The decoder, the decompressor and the arithmetic are functions of 32 bits with exhaustive benches or co-simulation. The match of the PMP is combinational; what a denial
does is in `IfStage` and `Core`. The end-to-end link holds one address and a parity. The APB timer repeats the compare of the CLINT with a reload, and the 64-bit counter computes its carry a cycle
early, which is arithmetic. The counters, the safety status and the PMP registers of `csr`, the double moves of Zcmp, the injection and raw ports of the memories, and the read-back of `clkmon` are left out of modules that model the rest.
The metrics of `fmeda.py` are decimal arithmetic over a table. Coverage reports, SDF, STA and netlist filters and symbol generators make one pass over a text with no state beyond a line;
the RISCOF plug-ins assemble command lines for a third-party framework. Benches and flow scripts were read for what they claim.

## 6. What could come next

The safety part of `SafetySystem` (that its parts, composed, keep the invariants each has alone);
a composition of `IfAlign` and `Core` in place of the free instructions, and of `BootLoader` and `Bus`; PMP and CSR locks.
