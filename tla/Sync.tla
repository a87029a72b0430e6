-------------------------------- MODULE Sync --------------------------------
(***************************************************************************)
(* The clock-domain crossing cells of cdriscv_32s_20_sync, as operators:   *)
(* a synchroniser is a chain of Stages flip-flops, its last one the        *)
(* output.  A pulse synchroniser is a toggle in the source domain, a chain *)
(* in the destination domain and one more flip-flop to find the edges.     *)
(***************************************************************************)
EXTENDS Naturals

Chain(stages) == [1..stages -> BOOLEAN]
Cleared(stages) == [i \in 1..stages |-> FALSE]

ShiftIn(chain, d) == [i \in DOMAIN chain |-> IF i = 1 THEN d ELSE chain[i - 1]]
Output(stages, chain) == chain[stages]

\* An edge of the toggle has reached the output and is one cycle old.
Toggled(stages, chain, last) == Output(stages, chain) # last

=============================================================================
