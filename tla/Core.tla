-------------------------------- MODULE Core --------------------------------
(***************************************************************************)
(* The control of the core, cdriscv_32s_20_core, with the Zcmp sequencer,  *)
(* the load/store unit and the trap registers of the CSR file.  One step   *)
(* is one edge of clk with the inputs sampled at it:                       *)
(*   en   fetch_enable_i       deny  misaligned, or not allowed by the PMP *)
(*   gnt  data_gnt_i           rv, err  data_rvalid_i, data_err_i          *)
(* The fetch unit (IfAlign) offers the instruction at pc, any instruction, *)
(* and keeps it on offer until it retires or a redirect withdraws it.  An  *)
(* instruction is its kind and, where it names registers, a length n of    *)
(* the list of saved registers, or the n-th of them.  Of an instruction    *)
(* that completes within its cycle only the choice of the result is left.  *)
(***************************************************************************)
EXTENDS Integers, Sequences

CONSTANTS Pc, NextPc, BootPc, ExcVector, IrqVector, ZeroPc, Mem, Wrap, Saved, Frame,
          Instruction   \* what programs are made of

ASSUME CoreAssumption ==
    /\ NextPc \in [Pc -> Pc]
    /\ {BootPc, ExcVector, IrqVector, ZeroPc} \subseteq Pc
    /\ Wrap \in Nat \ {0} /\ Mem \subseteq 0..Wrap - 1
    /\ Saved \in Seq(STRING) /\ Frame \in Nat /\ Len(Saved) <= Frame
    /\ Frame <= Wrap         \* a frame does not overlap itself
    /\ \A k \in 1..Len(Saved) : Saved[k] # "a0"
    /\ \A j, k \in 1..Len(Saved) : Saved[j] = Saved[k] => j = k
    /\ \A i \in Instruction : i.n \in 1..Len(Saved)

VARIABLES
    state_q, seq_idx_q, seq_pend_q,   \* the control FSM
    lsu_q,                            \* state_q of the load/store unit
    pc, instr,                        \* instr_pc and the instruction on offer
    reg, sp, mem,                     \* registers and the data memory
    mstatus_mie_q, mstatus_mpie_q, mepc_q,
    irq                               \* irq_wake_o: an enabled line is up

fsmVars == <<state_q, seq_idx_q, seq_pend_q, lsu_q>>
fetchVars == <<pc, instr>>
dataVars == <<reg, sp, mem>>
trapVars == <<mstatus_mie_q, mstatus_mpie_q, mepc_q>>
coreVars == <<fsmVars, fetchVars, dataVars, trapVars>>
vars == <<coreVars, irq>>

Reg == {Saved[k] : k \in DOMAIN Saved} \cup {"a0"}
Stacks == {"push", "pop", "popret", "popretz"}

\* IRQ_PENDING needs MIE, waking does not.
Due == irq /\ mstatus_mie_q

-----------------------------------------------------------------------------
(* The step table of the Zcmp sequencer.                                    *)

IsMem(i) == seq_idx_q < i.n
IsZero(i) == i.op = "popretz" /\ seq_idx_q = i.n
IsLast(i) == ~IsMem(i) /\ ~IsZero(i)

BeatReg(i) == Saved[IF IsMem(i) THEN i.n - seq_idx_q ELSE 1]   \* the last reads ra
BeatAddr(i) == (IF i.op = "push" THEN sp - (seq_idx_q + 1)
                                 ELSE sp + Frame - (seq_idx_q + 1)) % Wrap
SpFinal(i) == (IF i.op = "push" THEN sp - Frame ELSE sp + Frame) % Wrap

\* The access on the data port, a function of what the core holds.
Access(i) ==
    IF state_q = "SEQ"
    THEN [we |-> i.op = "push", addr |-> BeatAddr(i), reg |-> BeatReg(i)]
    ELSE [we |-> i.op = "store", addr |-> sp, reg |-> Saved[i.n]]

-----------------------------------------------------------------------------
Init ==
    /\ state_q = "RUN" /\ seq_idx_q = 0 /\ seq_pend_q = FALSE /\ lsu_q = "IDLE"
    /\ pc = BootPc /\ instr = {}
    /\ reg = [r \in Reg |-> ZeroPc] /\ sp = 0
    /\ mem = [a \in Mem |-> ZeroPc]
    /\ mstatus_mie_q = FALSE /\ mstatus_mpie_q = FALSE
    /\ mepc_q = ZeroPc
    /\ irq = FALSE

\* The fetch unit: may offer while it has nothing on offer.
Offers == {{}} \cup {{i} : i \in Instruction}
Waits == pc' = pc /\ IF instr = {} THEN instr' \in Offers ELSE UNCHANGED instr
InLine == pc' = NextPc[pc] /\ instr' \in Offers
Redirect(target) == pc' = target /\ instr' = {}

\* The control FSM and the sequence counters behind it.
Go(state) ==
    /\ state_q' = state
    /\ state = "SEQ" \/ (seq_idx_q' = 0 /\ seq_pend_q' = FALSE)

LsuNext(req, gnt, rv) ==
    CASE lsu_q = "IDLE" -> IF req THEN (IF gnt THEN "DATA" ELSE "ADDR") ELSE "IDLE"
      [] lsu_q = "ADDR" -> IF gnt THEN "DATA" ELSE "ADDR"
      [] lsu_q = "DATA" -> IF rv THEN "IDLE" ELSE "DATA"

LsuAdvance(req, gnt, rv) == lsu_q' = LsuNext(req, gnt, rv)
LsuQuiet == UNCHANGED lsu_q

-----------------------------------------------------------------------------
(* Traps.                                                                   *)

\* In direct mode the vectors are the same.
TakeTrap(vector) ==
    /\ Redirect(vector)
    /\ mepc_q' = pc
    /\ mstatus_mpie_q' = mstatus_mie_q /\ mstatus_mie_q' = FALSE
    /\ UNCHANGED dataVars

InstrExec(en) == instr # {} /\ en /\ state_q = "RUN"
TakeIrqAnyState(en) == instr # {} /\ en /\ Due        \* mutant: not at a boundary
TakeIrq(en) == InstrExec(en) /\ Due

Interrupt(en) == TakeIrq(en) /\ TakeTrap(IrqVector) /\ Go("RUN") /\ LsuQuiet

Executes(en, i) == InstrExec(en) /\ ~TakeIrq(en) /\ i \in instr

\* Illegal, ecall, ebreak, a fetch error, a misaligned target; or a data access
\* refused before it is issued.
Exception(en, i, deny) ==
    /\ Executes(en, i)
    /\ i.op = "bad" \/ (i.op \in {"load", "store"} /\ deny)
    /\ TakeTrap(ExcVector) /\ Go("RUN") /\ LsuQuiet

-----------------------------------------------------------------------------
(* Instructions that complete in their cycle.                               *)

Writes(r, values) == \E v \in values : reg' = [reg EXCEPT ![r] = v]

Alu(en, i) ==
    /\ Executes(en, i) /\ i.op = "alu"
    /\ \/ (\E r \in Reg : Writes(r, Pc)) /\ UNCHANGED sp
       \/ sp' \in 0..Wrap - 1 /\ UNCHANGED reg
    /\ InLine /\ Go("RUN")
    /\ UNCHANGED <<mem, trapVars, lsu_q>>

\* Branches taken, jumps, fences: all of them redirect; a call links.
Jump(en, i, target) ==
    /\ Executes(en, i) /\ i.op = "jump"
    /\ UNCHANGED reg \/ \E r \in Reg : Writes(r, {NextPc[pc]})
    /\ Redirect(target) /\ Go("RUN")
    /\ UNCHANGED <<sp, mem, trapVars, lsu_q>>

\* mstatus, and mepc, whose old value is read as well.  The vectors keep their
\* values, what mie enables shows in irq, and no other register matters here.
Csr(en, i) ==
    /\ Executes(en, i) /\ i.op = "csr"
    /\ \/ /\ mstatus_mie_q' \in BOOLEAN /\ mstatus_mpie_q' \in BOOLEAN
          /\ UNCHANGED <<mepc_q, reg>>
       \/ /\ mepc_q' \in Pc
          /\ UNCHANGED reg \/ \E r \in Reg : Writes(r, {mepc_q})
          /\ UNCHANGED <<mstatus_mie_q, mstatus_mpie_q>>
    /\ InLine /\ Go("RUN")
    /\ UNCHANGED <<sp, mem, lsu_q>>

Mret(en, i) ==
    /\ Executes(en, i) /\ i.op = "mret"
    /\ mstatus_mie_q' = mstatus_mpie_q /\ mstatus_mpie_q' = TRUE
    /\ Redirect(mepc_q) /\ Go("RUN")
    /\ UNCHANGED <<dataVars, mepc_q, lsu_q>>

Wfi(en, i) ==
    /\ Executes(en, i) /\ i.op = "wfi"
    /\ Redirect(NextPc[pc]) /\ Go("SLEEP")
    /\ UNCHANGED <<dataVars, trapVars, lsu_q>>

WakeFetchOnly(en) == ~en                             \* mutant: interrupts do not wake
Wakes(en) == irq \/ ~en

Sleep(en) ==
    /\ state_q = "SLEEP"
    /\ Waits /\ Go(IF Wakes(en) THEN "RUN" ELSE "SLEEP")
    /\ UNCHANGED <<dataVars, trapVars, lsu_q>>

NothingToDo(en) ==
    /\ state_q = "RUN" /\ ~InstrExec(en)
    /\ Waits /\ Go("RUN")
    /\ UNCHANGED <<dataVars, trapVars, lsu_q>>

-----------------------------------------------------------------------------
(* Divisions, loads and stores.                                             *)

StartMd(en, i) ==
    /\ Executes(en, i) /\ i.op = "div"
    /\ Waits /\ Go("WAIT_MD")
    /\ UNCHANGED <<dataVars, trapVars, lsu_q>>

WaitMd(done) ==
    /\ state_q = "WAIT_MD"
    /\ IF done
       THEN /\ \E r \in Reg : Writes(r, Pc)
            /\ InLine /\ Go("RUN")
       ELSE Waits /\ Go("WAIT_MD") /\ UNCHANGED reg
    /\ UNCHANGED <<sp, mem, trapVars, lsu_q>>

StartLsu(en, i, deny, gnt) ==
    /\ Executes(en, i) /\ i.op \in {"load", "store"} /\ ~deny
    /\ LsuAdvance(TRUE, gnt, FALSE)
    /\ Waits /\ Go("WAIT_LSU")
    /\ UNCHANGED <<dataVars, trapVars>>

\* What an answer does to the registers and to the memory.
Perform(i, err) ==
    LET a == Access(i) IN
    /\ mem' = IF a.we /\ ~err THEN [mem EXCEPT ![a.addr] = reg[a.reg]] ELSE mem
    /\ reg' = IF ~a.we /\ ~err THEN [reg EXCEPT ![a.reg] = mem[a.addr]] ELSE reg

\* There is an answer only in the data phase, and no word where none exists.
LsuValid(rv) == lsu_q = "DATA" /\ rv
MayAnswer(i, rv, err) ==
    /\ rv => lsu_q = "DATA"
    /\ err => rv
    /\ rv /\ Access(i).addr \notin Mem => err

WaitLsu(i, gnt, rv, err) ==
    /\ state_q = "WAIT_LSU" /\ i \in instr /\ MayAnswer(i, rv, err)
    /\ LsuAdvance(FALSE, gnt, rv)
    /\ Go(IF LsuValid(rv) THEN "RUN" ELSE "WAIT_LSU")
    /\ CASE LsuValid(rv) /\ err -> TakeTrap(ExcVector)
         [] LsuValid(rv) /\ ~err -> InLine /\ Perform(i, err) /\ UNCHANGED <<sp, trapVars>>
         [] OTHER -> Waits /\ UNCHANGED <<dataVars, trapVars>>

-----------------------------------------------------------------------------
(* The Zcmp sequence, one step at a time.                                   *)

StartSeq(en, i) ==
    /\ Executes(en, i) /\ i.op \in Stacks
    /\ Waits /\ Go("SEQ") /\ UNCHANGED <<seq_idx_q, seq_pend_q>>
    /\ UNCHANGED <<dataVars, trapVars, lsu_q>>

SeqIssue(i) == IsMem(i) /\ ~seq_pend_q
SeqStepDone(i, rv, err) == IF IsMem(i) THEN LsuValid(rv) /\ ~err ELSE TRUE

IdxAtIssue(i, issued, done) ==                       \* mutant: counts accesses issued
    IF issued \/ ~IsMem(i) THEN seq_idx_q + 1 ELSE seq_idx_q
IdxNext(i, issued, done) == IF done THEN seq_idx_q + 1 ELSE seq_idx_q

PendSticky(issued, answered) == issued \/ seq_pend_q \* mutant: never cleared
PendNext(issued, answered) == IF issued THEN TRUE
                              ELSE IF answered THEN FALSE ELSE seq_pend_q

SeqDenied(i, deny) ==
    /\ state_q = "SEQ" /\ i \in instr
    /\ SeqIssue(i) /\ deny
    /\ TakeTrap(ExcVector) /\ Go("RUN") /\ LsuQuiet

SeqFault(i, rv, err) ==
    /\ state_q = "SEQ" /\ i \in instr
    /\ MayAnswer(i, rv, err) /\ LsuValid(rv) /\ err
    /\ LsuAdvance(FALSE, FALSE, rv)
    /\ TakeTrap(ExcVector) /\ Go("RUN")

SeqMem(i, gnt, rv, err) ==
    /\ state_q = "SEQ" /\ i \in instr /\ IsMem(i)
    /\ MayAnswer(i, rv, err) /\ ~err
    /\ LsuAdvance(SeqIssue(i), gnt, rv)
    /\ Waits /\ Go("SEQ")
    /\ seq_pend_q' = PendNext(SeqIssue(i), LsuValid(rv))
    /\ seq_idx_q' = IdxNext(i, SeqIssue(i), SeqStepDone(i, rv, err))
    /\ IF LsuValid(rv) THEN Perform(i, err) ELSE UNCHANGED <<reg, mem>>
    /\ UNCHANGED <<sp, trapVars>>

SeqZero(i) ==
    /\ state_q = "SEQ" /\ i \in instr /\ IsZero(i)
    /\ reg' = [reg EXCEPT !["a0"] = ZeroPc]
    /\ Waits /\ Go("SEQ")
    /\ seq_idx_q' = IdxNext(i, FALSE, TRUE)
    /\ UNCHANGED <<seq_pend_q, sp, mem, trapVars, lsu_q>>

SeqLast(i) ==
    /\ state_q = "SEQ" /\ i \in instr /\ IsLast(i)
    /\ sp' = SpFinal(i)
    /\ IF i.op \in {"popret", "popretz"} THEN Redirect(reg[BeatReg(i)]) ELSE InLine
    /\ Go("RUN")
    /\ UNCHANGED <<reg, mem, trapVars, lsu_q>>

-----------------------------------------------------------------------------
Run(en) ==
    \/ NothingToDo(en) \/ Sleep(en) \/ Interrupt(en)
    \/ \E i \in instr, deny \in BOOLEAN :
          \/ Exception(en, i, deny)
          \/ Alu(en, i) \/ Csr(en, i) \/ Mret(en, i) \/ Wfi(en, i)
          \/ \E target \in Pc : Jump(en, i, target)
          \/ StartMd(en, i) \/ StartSeq(en, i)
          \/ \E gnt \in BOOLEAN : StartLsu(en, i, deny, gnt)

Wait ==
    \/ \E done \in BOOLEAN : WaitMd(done)
    \/ \E i \in instr, gnt, rv, err, deny \in BOOLEAN :
          \/ WaitLsu(i, gnt, rv, err)
          \/ SeqDenied(i, deny)
          \/ SeqFault(i, rv, err)
          \/ ~(SeqIssue(i) /\ deny) /\ SeqMem(i, gnt, rv, err)
          \/ SeqZero(i) \/ SeqLast(i)

Next == (Wait \/ \E en \in BOOLEAN : Run(en)) /\ irq' \in BOOLEAN

Spec == Init /\ [][Next]_vars

\* The clock runs, fetching is enabled, the fetch unit delivers, the bus grants
\* and answers, and a division ends: what can move on moves on.
FairSpec == Spec /\ WF_coreVars((Wait \/ Run(TRUE)) /\ irq' \in BOOLEAN)

-----------------------------------------------------------------------------
(* Properties.                                                              *)

FetchOK == pc \in Pc /\ instr \in Offers
DataOK == reg \in [Reg -> Pc] /\ sp \in 0..Wrap - 1 /\ mem \in [Mem -> Pc]
TrapOK == /\ mstatus_mie_q \in BOOLEAN /\ mstatus_mpie_q \in BOOLEAN
          /\ mepc_q \in Pc /\ irq \in BOOLEAN
ControlOK ==
    /\ state_q \in {"RUN", "WAIT_LSU", "WAIT_MD", "SEQ", "SLEEP"}
    /\ lsu_q \in {"IDLE", "ADDR", "DATA"}
    /\ seq_idx_q \in 0..Len(Saved) + 1 /\ seq_pend_q \in BOOLEAN
    /\ state_q \in {"WAIT_LSU", "WAIT_MD", "SEQ"} => instr # {}
    /\ state_q # "SEQ" => seq_idx_q = 0 /\ ~seq_pend_q
    /\ lsu_q # "IDLE" <=> state_q = "WAIT_LSU" \/ seq_pend_q
    /\ \A i \in instr : seq_pend_q => IsMem(i)

\* Every register keeps its range, and what the control FSM, the sequence and
\* the load/store unit remember fits together: an access is under way only in
\* the states and steps that wait for one.
CoreTypeOK == FetchOK /\ DataOK /\ TrapOK /\ ControlOK

\* The core implements the promise of Hart: each instruction takes effect once
\* and whole or traps without effect, interrupts come between instructions, and
\* a push or pop that traps half way has the same outcome when executed again.
Promise == INSTANCE Hart WITH
    begun <- state_q \in {"WAIT_LSU", "WAIT_MD", "SEQ"}, asleep <- state_q = "SLEEP",
    mie <- mstatus_mie_q, mpie <- mstatus_mpie_q, mepc <- mepc_q

HartSpec == Promise!Spec

\* The load/store unit drives its address phase from the core's request as it
\* is: the core holds address, direction and data until the answer, and a trap
\* reports that very address (lsu.sv:87-92).
Request(i) == <<Access(i), reg[Access(i).reg]>>
RequestHeld ==
    [][\A i \in instr : lsu_q # "IDLE" /\ lsu_q' # "IDLE" => Request(i)' = Request(i)]_vars

\* An access, a division or a sequence ends, and a sleeping core wakes for every
\* line that stays up, whether or not interrupts are enabled.
NothingHangs == []<>(state_q = "RUN" \/ (state_q = "SLEEP" /\ ~irq))

\* An interrupt that is due does not stay due: it is taken, unless its line falls
\* or the program disables it.
InterruptTaken == []<>~Due
=============================================================================
