-------------------------------- MODULE Hart --------------------------------
(***************************************************************************)
(* What the core promises the software: instructions take effect whole, in *)
(* program order, or trap with no effect at all.  The instruction on offer *)
(* is the environment's choice.  An instruction that takes several cycles  *)
(* begins only while no interrupt is due, and ends before the next one is  *)
(* taken.  A push or pop may do part of its work early, and may trap after *)
(* it, provided that executing it again still has the same outcome.        *)
(***************************************************************************)
EXTENDS Integers, Sequences

CONSTANTS
    Pc,       \* instruction addresses, which are also the values of registers
    NextPc,   \* the address after each one
    ExcVector, IrqVector,   \* the trap handlers
    ZeroPc,   \* the value 0
    Mem,      \* addresses of the data words that exist
    Wrap,     \* size of the data address space
    Saved,    \* the registers a push saves, in list order: ra, s0, ...
    Frame     \* words by which a push or pop moves the stack pointer

VARIABLES
    pc, instr,              \* the next instruction, {} while it is awaited
    begun, asleep,
    reg, sp, mem,
    mie, mpie, mepc,        \* mstatus.MIE and MPIE, mepc
    irq                     \* an enabled interrupt line is up

dataVars == <<reg, sp, mem>>
trapVars == <<mie, mpie, mepc>>
hartVars == <<pc, instr, begun, asleep, dataVars, trapVars>>

Reg == {Saved[k] : k \in DOMAIN Saved} \cup {"a0"}
Due == irq /\ mie

Pops == {"pop", "popret", "popretz"}
Stacks == {"push"} \cup Pops           \* the sequences that access memory
Returns == {"popret", "popretz"}

-----------------------------------------------------------------------------
(* The outcome of a sequence, all of it executed from here.                 *)

Slot(i, k) == (IF i.op = "push" THEN sp - i.n + k - 1
                                ELSE sp + Frame - i.n + k - 1) % Wrap
Place(i, a) == {k \in 1..i.n : Slot(i, k) = a}       \* list places kept at a
Holder(i, r) == {k \in 1..i.n : Saved[k] = r}

MemAfter(i) ==
    [a \in Mem |-> IF i.op = "push" /\ Place(i, a) # {}
                   THEN reg[Saved[CHOOSE k \in Place(i, a) : TRUE]] ELSE mem[a]]

Loaded(i, r) == Slot(i, CHOOSE k \in Holder(i, r) : TRUE)
RegAfter(i) ==
    [r \in Reg |-> CASE i.op \in Pops /\ Holder(i, r) # {} /\ Loaded(i, r) \in Mem
                           -> mem[Loaded(i, r)]
                     [] i.op = "popretz" /\ r = "a0" -> ZeroPc
                     [] OTHER -> reg[r]]

SpAfter(i) == (IF i.op = "push" THEN sp - Frame ELSE sp + Frame) % Wrap
PcAfter(i) == IF i.op \in Returns THEN RegAfter(i)[Saved[1]] ELSE NextPc[pc]

Outcome(i) == <<MemAfter(i), RegAfter(i), SpAfter(i)>>

-----------------------------------------------------------------------------
Init ==
    /\ instr = {} /\ ~begun /\ ~asleep
    /\ ~mie /\ ~mpie

Await == instr = {} /\ UNCHANGED <<pc, begun, asleep, dataVars, trapVars>>

\* One register, or the stack pointer, gets some value.
WriteBack ==
    /\ \/ (\E r \in Reg : reg' = [reg EXCEPT ![r] = reg'[r]]) /\ UNCHANGED sp
       \/ UNCHANGED reg
    /\ UNCHANGED mem

Link ==
    /\ \/ UNCHANGED reg
       \/ \E r \in Reg : reg' = [reg EXCEPT ![r] = NextPc[pc]]
    /\ UNCHANGED <<sp, mem>>

InOneCycle(i) ==
    /\ ~asleep /\ ~Due /\ ~begun
    /\ begun' = FALSE
    /\ CASE i.op = "alu"  -> pc' = NextPc[pc] /\ WriteBack
                             /\ UNCHANGED <<trapVars, asleep>>
         [] i.op = "jump" -> pc' \in Pc /\ Link /\ UNCHANGED <<trapVars, asleep>>
         [] i.op = "csr"  -> pc' = NextPc[pc] /\ WriteBack /\ UNCHANGED asleep
         [] i.op = "mret" -> pc' = mepc /\ mie' = mpie /\ mpie' = TRUE
                             /\ UNCHANGED <<dataVars, mepc, asleep>>
         [] i.op = "wfi"  -> pc' = NextPc[pc] /\ asleep' = TRUE
                             /\ UNCHANGED <<dataVars, trapVars>>
         [] OTHER -> FALSE

Begin(i) ==
    /\ i.op \in {"div", "load", "store"} \cup Stacks
    /\ ~asleep /\ ~Due /\ ~begun
    /\ begun' = TRUE
    /\ UNCHANGED <<pc, instr, asleep, dataVars, trapVars>>

Early(i) ==
    /\ begun /\ i.op \in Stacks
    /\ Outcome(i)' = Outcome(i)
    /\ UNCHANGED <<pc, instr, begun, asleep, sp, trapVars>>

Finish(i) ==
    /\ begun /\ begun' = FALSE
    /\ CASE i.op = "div"   -> pc' = NextPc[pc] /\ WriteBack
         [] i.op = "load"  -> /\ sp \in Mem /\ pc' = NextPc[pc]
                              /\ reg' = [reg EXCEPT ![Saved[i.n]] = mem[sp]]
                              /\ UNCHANGED <<sp, mem>>
         [] i.op = "store" -> /\ sp \in Mem /\ pc' = NextPc[pc]
                              /\ mem' = [mem EXCEPT ![sp] = reg[Saved[i.n]]]
                              /\ UNCHANGED <<reg, sp>>
         [] OTHER          -> /\ \A k \in 1..i.n : Slot(i, k) \in Mem
                              /\ mem' = MemAfter(i) /\ reg' = RegAfter(i)
                              /\ sp' = SpAfter(i) /\ pc' = PcAfter(i)
    /\ UNCHANGED <<asleep, trapVars>>

Trap(vector) ==
    /\ pc' = vector /\ mepc' = pc
    /\ mie' = FALSE /\ mpie' = mie
    /\ begun' = FALSE
    /\ UNCHANGED <<asleep, dataVars>>

Except(i) ==
    /\ i.op \in {"bad", "load", "store"} \cup Stacks
    /\ ~asleep /\ (begun \/ ~Due)
    /\ Trap(ExcVector)

Interrupt == Due /\ ~asleep /\ ~begun /\ Trap(IrqVector)

Wake == asleep /\ asleep' = FALSE /\ UNCHANGED <<pc, begun, dataVars, trapVars>>

Next ==
    \/ Await
    \/ Wake
    \/ Interrupt
    \/ \E i \in instr : InOneCycle(i) \/ Begin(i) \/ Early(i) \/ Finish(i) \/ Except(i)

Spec == Init /\ [][Next]_hartVars
=============================================================================
