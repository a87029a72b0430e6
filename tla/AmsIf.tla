------------------------------- MODULE AmsIf -------------------------------
(***************************************************************************)
(* The analogue/mixed-signal interface, cdriscv_32s_20_ams_if: the         *)
(* sequence of conversions, its time-out and the range status, with a      *)
(* converter that answers late or never.  A step is an edge of clk with at *)
(* most one register write.  A result is known by the channel it is of and *)
(* by whether it is out of the limits it is judged by.  Left out: the DAC, *)
(* the test multiplexer and the limit registers, which only software       *)
(* writes; the analogue flags, a synchronised level; the parity.           *)
(***************************************************************************)
EXTENDS Naturals

CONSTANTS
    NumCh,      \* channels
    Periods,    \* what software writes to PERIOD
    Timeouts    \* and to TIMEOUT

AmsAssumption ==
    /\ NumCh \in Nat \ {0}
    /\ Periods \subseteq Nat /\ Periods # {}
    /\ Timeouts \subseteq Nat /\ Timeouts # {}

Ch == 0..(NumCh - 1)
None == NumCh

VARIABLES
    state_q, period_cnt_q, to_cnt_q, ch_q,
    seq_en_q, cont_q, irq_en_q, period_q, chmask_q, timeout_q,
    sts_done_q, sts_timeout_q, sts_range_q,
    adc,        \* the converter: the channel it converts, or None
    abandoned,  \* history: it may be at a conversion nobody waits for
    exceeded    \* history: channels with a result out of range since software
                \* last cleared their status bit

cfgVars == <<cont_q, irq_en_q, period_q, chmask_q, timeout_q>>
seqVars == <<state_q, period_cnt_q, to_cnt_q, ch_q>>
stsVars == <<sts_done_q, sts_timeout_q, sts_range_q>>
vars == <<seqVars, seq_en_q, cfgVars, stsVars, adc, abandoned, exceeded>>

-----------------------------------------------------------------------------
\* The sequencer, of the inputs valid and bad: adc_valid_i, and a result out
\* of the limits of the channel.

SeqTrigger == seq_en_q /\ period_cnt_q = 0
ChSelected == ch_q \in chmask_q
LastCh == ch_q = NumCh - 1
ConvDone(valid) == state_q = "WAIT" /\ valid
ConvTimeout(valid) == state_q = "WAIT" /\ ~valid /\ to_cnt_q = 0
ConvEnds(valid) == ConvDone(valid) \/ ConvTimeout(valid)
ResultBad(valid, bad) == ConvDone(valid) /\ bad
Skips == state_q = "START" /\ ~ChSelected
Starts == state_q = "START" /\ ChSelected

StateNext(valid) ==
    IF ~seq_en_q \/ (LastCh /\ (Skips \/ ConvEnds(valid))) THEN "IDLE"
    ELSE IF state_q = "IDLE" THEN (IF SeqTrigger THEN "START" ELSE "IDLE")
    ELSE IF Starts THEN "WAIT"
    ELSE IF ConvEnds(valid) THEN "START"
    ELSE state_q
SeqFinished(valid) == state_q # "IDLE" /\ StateNext(valid) = "IDLE"

PeriodNext ==
    IF ~seq_en_q \/ state_q # "IDLE" THEN period_q
    ELSE IF period_cnt_q = 0 THEN 0 ELSE period_cnt_q - 1

ChEarly(valid) ==                                 \* mutant: with the start
    IF state_q = "IDLE" THEN 0
    ELSE IF state_q = "START" THEN (ch_q + 1) % NumCh ELSE ch_q
ChNext(valid) ==
    IF state_q = "IDLE" THEN 0
    ELSE IF Skips \/ ConvEnds(valid) THEN (ch_q + 1) % NumCh ELSE ch_q

TimeoutNext ==
    IF state_q = "START" THEN timeout_q
    ELSE IF state_q = "WAIT" /\ to_cnt_q # 0 THEN to_cnt_q - 1 ELSE to_cnt_q

RangeSet(valid, bad) ==
    IF ResultBad(valid, bad) THEN sts_range_q \cup {ch_q} ELSE sts_range_q

Irq == irq_en_q /\ (sts_done_q \/ sts_timeout_q \/ sts_range_q # {})
Fault == sts_range_q # {} \/ sts_timeout_q

-----------------------------------------------------------------------------

\* The converter answers what it converts at any time; a start while it does
\* so is ignored or begins the new conversion.
Converter(valid) ==
    /\ valid => adc # None
    /\ adc' \in IF ~Starts THEN {IF valid THEN None ELSE adc}
                ELSE IF adc = None \/ valid THEN {ch_q} ELSE {ch_q, adc}

\* A time-out or a stop leaves a conversion behind.
Abandons(valid) ==
    ConvTimeout(valid) \/ (~seq_en_q /\ state_q # "IDLE" /\ ~ConvDone(valid))

Sequence(valid, bad) ==
    /\ Converter(valid)
    /\ state_q' = StateNext(valid)
    /\ period_cnt_q' = PeriodNext
    /\ ch_q' = ChNext(valid)
    /\ to_cnt_q' = TimeoutNext
    /\ abandoned' = (Abandons(valid) \/ (abandoned /\ adc' # None))

Marks(valid, bad, cleared) ==
    exceeded' = (exceeded \cup (IF ResultBad(valid, bad) THEN {ch_q} ELSE {})) \ cleared
StatusSet(valid, bad) ==
    /\ sts_done_q' = (sts_done_q \/ SeqFinished(valid))
    /\ sts_timeout_q' = (sts_timeout_q \/ ConvTimeout(valid))
    /\ sts_range_q' = RangeSet(valid, bad)
    /\ Marks(valid, bad, {})

\* A sequence that does not repeat disarms itself.
SeqEnNext(valid) == seq_en_q /\ ~(SeqFinished(valid) /\ ~cont_q)
Disarm(valid) == seq_en_q' = SeqEnNext(valid)

Init ==
    /\ state_q = "IDLE"
    /\ period_cnt_q = 0 /\ to_cnt_q = 0 /\ ch_q = 0
    /\ seq_en_q = FALSE /\ cont_q = FALSE /\ irq_en_q = FALSE
    /\ period_q \in Periods /\ timeout_q \in Timeouts   \* 1000 each in the code
    /\ chmask_q = {}
    /\ sts_done_q = FALSE /\ sts_timeout_q = FALSE /\ sts_range_q = {}
    /\ adc = None
    /\ abandoned = FALSE
    /\ exceeded = {}

Idle(valid, bad) == StatusSet(valid, bad) /\ Disarm(valid) /\ UNCHANGED cfgVars

WriteCtrl(valid, bad, en, cont, irq) ==
    /\ seq_en_q' = en /\ cont_q' = cont /\ irq_en_q' = irq
    /\ StatusSet(valid, bad)
    /\ UNCHANGED <<period_q, chmask_q, timeout_q>>

WriteConfig(valid, bad) ==
    /\ \/ \E p \in Periods : period_q' = p /\ UNCHANGED <<chmask_q, timeout_q>>
       \/ \E m \in SUBSET Ch : chmask_q' = m /\ UNCHANGED <<period_q, timeout_q>>
       \/ \E t \in Timeouts : timeout_q' = t /\ UNCHANGED <<period_q, chmask_q>>
    /\ StatusSet(valid, bad)
    /\ Disarm(valid)
    /\ UNCHANGED <<cont_q, irq_en_q>>

\* The write computes the range bits from the register as it is, so it drops
\* one that is being set on the same edge, whichever bits it clears.
WriteStatus(valid, bad, done, timeout, ranges) ==
    /\ sts_done_q' = (~done /\ (sts_done_q \/ SeqFinished(valid)))
    /\ sts_timeout_q' = (~timeout /\ (sts_timeout_q \/ ConvTimeout(valid)))
    /\ sts_range_q' = sts_range_q \ ranges
    /\ Marks(valid, bad, ranges)
    /\ Disarm(valid)
    /\ UNCHANGED cfgVars

Next == \E valid, bad \in BOOLEAN :
    /\ Sequence(valid, bad)
    /\ \/ Idle(valid, bad)
       \/ \E en, cont, irq \in BOOLEAN : WriteCtrl(valid, bad, en, cont, irq)
       \/ WriteConfig(valid, bad)
       \/ \E done, timeout \in BOOLEAN, ranges \in SUBSET Ch :
              WriteStatus(valid, bad, done, timeout, ranges)

Spec == Init /\ [][Next]_vars

-----------------------------------------------------------------------------

\* A result is stored for another channel than it was converted for only if
\* a conversion was abandoned before, by a time-out or by software that
\* stopped the sequence, and the converter is still at it.
ResultOwn == (state_q = "WAIT" /\ adc # None /\ adc # ch_q) => abandoned

\* Every result out of range is in the status, and so a fault to the safety
\* controller, until software clears its bit.
RangeKept == exceeded \subseteq sts_range_q

=============================================================================
