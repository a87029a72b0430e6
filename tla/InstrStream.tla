---------------------------- MODULE InstrStream ----------------------------
(***************************************************************************)
(* What the fetch unit promises to the execute stage: the instructions of  *)
(* the program in memory, one after the other from the latest redirect     *)
(* target, each with its own address and made of exactly the halfwords     *)
(* (parcels) that encode it, or an access error at that address.           *)
(* The execute stage never retires an instruction marked with an error.    *)
(***************************************************************************)
CONSTANTS
    Pc,       \* word addresses
    NextPc    \* the word address after each one

VARIABLES
    long,     \* the program: the halfwords that begin a 32-bit instruction
    ipc,      \* address of the next instruction to retire in line
    instr     \* the set of the one instruction on offer, or {}

instrVars == <<long, ipc, instr>>

\* A halfword address is a word address and 0 (low) or 1 (high).
Halves == Pc \X {0, 1}
After(h) == IF h[2] = 0 THEN <<h[1], 1>> ELSE <<NextPc[h[1]], 0>>

Parcels(h) == IF h \in long THEN <<h, After(h)>> ELSE <<h>>
Following(h) == IF h \in long THEN After(After(h)) ELSE After(h)

Instructions(h) ==
    { [pc |-> h, parcels |-> Parcels(h), err |-> FALSE],
      [pc |-> h, parcels |-> << >>, err |-> TRUE] }

Init ==
    /\ ipc \in Halves
    /\ instr = {}

Offer ==
    /\ instr = {}
    /\ \E i \in Instructions(ipc) : instr' = {i}
    /\ UNCHANGED <<long, ipc>>

Retire ==
    /\ \E i \in instr : ~i.err
    /\ ipc' = Following(ipc)
    /\ \/ instr' = {}
       \/ \E i \in Instructions(ipc') : instr' = {i}
    /\ UNCHANGED long

Redirect ==
    /\ ipc' \in Halves
    /\ instr' = {}
    /\ UNCHANGED long

Next == Offer \/ Retire \/ Redirect

Spec == Init /\ [][Next]_instrVars

=============================================================================
