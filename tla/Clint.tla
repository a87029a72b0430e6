------------------------------- MODULE Clint -------------------------------
(***************************************************************************)
(* The machine timer, cdriscv_32s_20_clint, and the software that sets its *)
(* deadline in two halves.  A step is an edge of clk with at most one      *)
(* write.  The parity of its configuration is the cell of SafetyCtrl.      *)
(***************************************************************************)
EXTENDS Naturals, Sequences

CONSTANTS
    Base,       \* values of a half word, 2^32 in the code
    PrescBase,  \* values of the prescaler, 2^PrescalerW
    TimeWrites, \* what software writes to a half of the time
    Order       \* how software writes a deadline: "guarded" or "highFirst"

ClintAssumption ==
    /\ Base \in Nat \ {0} /\ PrescBase \in Nat \ {0}
    /\ TimeWrites \subseteq 0..(Base - 1)
    /\ Order \in {"guarded", "highFirst"}

Time == 0..(Base * Base - 1)
Presc == 0..(PrescBase - 1)

VARIABLES
    mtime_q, mtimecmp_q, msip_q, presc_q, presc_cnt_q,
    todo,       \* software: the writes it has still to make for its deadline
    deadline,   \* history: the deadline software is setting or has set
    former      \* history: the one before, while the new one is being set

vars == <<mtime_q, mtimecmp_q, msip_q, presc_q, presc_cnt_q, todo, deadline, former>>

High(t) == t \div Base
Low(t) == t % Base
WithHigh(t, h) == h * Base + Low(t)
WithLow(t, l) == High(t) * Base + l

-----------------------------------------------------------------------------

Tick == presc_cnt_q = presc_q
TimeNext == IF Tick THEN (mtime_q + 1) % (Base * Base) ELSE mtime_q

PrescSaturates ==                                 \* mutant: stops at the end
    IF Tick THEN 0 ELSE IF presc_cnt_q = PrescBase - 1 THEN presc_cnt_q ELSE presc_cnt_q + 1
PrescNext == IF Tick THEN 0 ELSE (presc_cnt_q + 1) % PrescBase

IrqTimerHigh == High(mtime_q) >= High(mtimecmp_q) \* mutant: high halves only
IrqTimer == mtime_q >= mtimecmp_q

\* The writes that set a deadline.  "guarded" is the order the header of
\* the timer documents, "highFirst" the one of the programming manual.
DeadlineWrites(t) ==
    IF Order = "guarded"
    THEN << <<"high", Base - 1>>, <<"low", Low(t)>>, <<"high", High(t)>> >>
    ELSE << <<"high", High(t)>>, <<"low", Low(t)>> >>

Written(cmp, w) == IF w[1] = "high" THEN WithHigh(cmp, w[2]) ELSE WithLow(cmp, w[2])

-----------------------------------------------------------------------------

Init ==
    /\ mtime_q = 0
    /\ mtimecmp_q = Base * Base - 1
    /\ msip_q = FALSE
    /\ presc_q = 0
    /\ presc_cnt_q = 0
    /\ todo = << >>
    /\ deadline = Base * Base - 1
    /\ former = Base * Base - 1

Count == presc_cnt_q' = PrescNext
FreeRun == Count /\ mtime_q' = TimeNext
Software == <<todo, deadline, former>>

Idle == FreeRun /\ UNCHANGED <<mtimecmp_q, msip_q, presc_q, Software>>

\* Software begins to set a deadline once it has finished with the last one,
\* relative to the time it has read.
Choose(t) ==
    /\ todo = << >>
    /\ t > mtime_q
    /\ todo' = DeadlineWrites(t)
    /\ former' = deadline
    /\ deadline' = t
    /\ FreeRun
    /\ UNCHANGED <<mtimecmp_q, msip_q, presc_q>>

WriteCmp ==
    /\ todo # << >>
    /\ mtimecmp_q' = Written(mtimecmp_q, Head(todo))
    /\ todo' = Tail(todo)
    /\ former' = IF Len(todo) = 1 THEN deadline ELSE former
    /\ FreeRun
    /\ UNCHANGED <<msip_q, presc_q, deadline>>

\* A write of one half wins over the tick, whose carry still reaches the
\* other half.
WriteTime(half, v) ==
    /\ Count
    /\ mtime_q' = Written(TimeNext, <<half, v>>)
    /\ UNCHANGED <<mtimecmp_q, msip_q, presc_q, Software>>

WriteMsip(v) == msip_q' = v /\ FreeRun /\ UNCHANGED <<mtimecmp_q, presc_q, Software>>
WritePresc(v) == presc_q' = v /\ FreeRun /\ UNCHANGED <<mtimecmp_q, msip_q, Software>>
Prescaled == \E v \in Presc : WritePresc(v)

Next ==
    \/ Idle
    \/ \E t \in Time : Choose(t)
    \/ WriteCmp
    \/ \E half \in {"high", "low"}, v \in TimeWrites : WriteTime(half, v)
    \/ \E v \in BOOLEAN : WriteMsip(v)
    \/ Prescaled

Spec == Init /\ [][Next]_vars

-----------------------------------------------------------------------------

\* While software moves the deadline the interrupt is raised only if the old
\* or the new one has been reached: no intermediate value of the two halves
\* raises it, whatever the time does meanwhile.
NoSpuriousTimer == IrqTimer => mtime_q >= deadline \/ mtime_q >= former

\* Unless software keeps writing the prescaler, time goes on: a prescaler
\* lowered below its running count is met after a wrap.
TimeMoves == []<>Tick \/ []<><<Prescaled>>_vars

=============================================================================
