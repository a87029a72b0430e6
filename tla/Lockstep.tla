------------------------------ MODULE Lockstep ------------------------------
(***************************************************************************)
(* The lockstep wrapper, cdriscv_32s_20_lockstep: a main core, a checker   *)
(* that runs Delay edges behind it on delayed inputs, and the comparison.  *)
(* The core is any machine with a reset state.  A step is an edge of clk,  *)
(* or an upset of one of the cores between two edges, or the reset.        *)
(***************************************************************************)
EXTENDS Naturals, Sequences

CONSTANTS
    Delay,          \* edges the checker runs behind
    State, Reset,   \* states of a core, the one it is reset to
    Input,          \* everything a core samples; ZeroInput is what the delay
    ZeroInput,      \*   line holds after the reset
    StepTo, Out,    \* next state and output of a core, of state and input
    ZeroOut,
    MaxUpsets       \* bound: upsets of a core

LockstepAssumption ==
    /\ Delay \in Nat \ {0}
    /\ Reset \in State /\ ZeroInput \in Input
    /\ StepTo \in [State \X Input -> State]
    /\ DOMAIN Out = State \X Input
    /\ MaxUpsets \in Nat

VARIABLES
    rst_ni, main, checker,
    in_vec,         \* the inputs of this cycle
    in_pipe_q, out_pipe_q, rst_pipe_q,
    inj_en,
    upsets, struck, \* how many, and the core the upsets of this run hit
    ideal           \* history: what the outputs of the last Delay edges, and
                    \* the state, would be without an upset

vars == <<rst_ni, main, checker, in_vec, in_pipe_q, out_pipe_q, rst_pipe_q,
          inj_en, upsets, struck, ideal>>

Zeros(z) == [s \in 1..Delay |-> z]
Shift(pipe, d) == [s \in 1..Delay |-> IF s = 1 THEN d ELSE pipe[s - 1]]

-----------------------------------------------------------------------------

CheckRstShort == rst_ni /\ rst_pipe_q[1]          \* mutant: released at once
CheckRstN == rst_ni /\ rst_pipe_q[Delay]

MainOut == Out[<<main, in_vec>>]
CheckOut == Out[<<checker, in_pipe_q[Delay]>>]
CompareVec == <<CheckOut, inj_en>>

\* The self test flips one bit of the checker's output vector.
FaultLockstep == CheckRstN /\ CompareVec # <<out_pipe_q[Delay], FALSE>>

-----------------------------------------------------------------------------

NoPast == [state |-> Reset, outs |-> Zeros(ZeroOut)]

Init ==
    /\ rst_ni = FALSE
    /\ main = Reset /\ checker = Reset
    /\ in_pipe_q = Zeros(ZeroInput)
    /\ out_pipe_q = Zeros(ZeroOut)
    /\ rst_pipe_q = Zeros(FALSE)
    /\ ideal = NoPast
    /\ in_vec \in Input
    /\ inj_en = FALSE
    /\ upsets = 0
    /\ struck = "none"

Inputs == in_vec' \in Input /\ inj_en' \in BOOLEAN

ClkEdge ==
    /\ rst_ni
    /\ main' = StepTo[<<main, in_vec>>]
    /\ checker' = IF CheckRstN THEN StepTo[<<checker, in_pipe_q[Delay]>>] ELSE Reset
    /\ in_pipe_q' = Shift(in_pipe_q, in_vec)
    /\ out_pipe_q' = Shift(out_pipe_q, MainOut)
    /\ rst_pipe_q' = Shift(rst_pipe_q, TRUE)
    /\ ideal' = [state |-> StepTo[<<ideal.state, in_vec>>],
                 outs |-> Shift(ideal.outs, Out[<<ideal.state, in_vec>>])]
    /\ Inputs
    /\ UNCHANGED <<rst_ni, upsets, struck>>

Release ==
    /\ ~rst_ni
    /\ rst_ni' = TRUE
    /\ Inputs
    /\ UNCHANGED <<main, checker, in_pipe_q, out_pipe_q, rst_pipe_q, upsets,
                   struck, ideal>>

\* The reset acts at once, on everything.
Assert ==
    /\ rst_ni
    /\ rst_ni' = FALSE
    /\ main' = Reset /\ checker' = Reset
    /\ in_pipe_q' = Zeros(ZeroInput)
    /\ out_pipe_q' = Zeros(ZeroOut)
    /\ rst_pipe_q' = Zeros(FALSE)
    /\ ideal' = NoPast
    /\ struck' = "none"
    /\ Inputs
    /\ UNCHANGED upsets

\* A disturbance changes the state of one core.
Upset(core, s) ==
    /\ upsets < MaxUpsets
    /\ rst_ni
    /\ struck \in {"none", core}
    /\ core = "checker" => CheckRstN
    /\ struck' = core
    /\ upsets' = upsets + 1
    /\ main' = IF core = "main" THEN s ELSE main
    /\ checker' = IF core = "checker" THEN s ELSE checker
    /\ UNCHANGED <<rst_ni, in_vec, in_pipe_q, out_pipe_q, rst_pipe_q, inj_en, ideal>>

Next ==
    \/ ClkEdge \/ Release \/ Assert
    \/ \E core \in {"main", "checker"}, s \in State : Upset(core, s)

Spec == Init /\ [][Next]_vars

-----------------------------------------------------------------------------

\* Nothing but a self test or an output that differs from what an undisturbed
\* core would have put out is reported, after every reset; and every such
\* output of either core is, Delay edges after the main core's cycle.
MismatchExact ==
    CheckRstN /\ ~inj_en =>
        (FaultLockstep <=> \/ struck = "main" /\ out_pipe_q[Delay] # ideal.outs[Delay]
                           \/ struck = "checker" /\ CheckOut # ideal.outs[Delay])

=============================================================================
