---------------------------- MODULE SafetySystem ----------------------------
(***************************************************************************)
(* The reaction loop of the subsystem: the watchdog and the safety         *)
(* controller request a warm reset, the reset tree stops and restarts the  *)
(* core, and the software on the core is the only one who writes to either *)
(* of them.  They and the APB bridge are not reset with the core, so a     *)
(* write under way when the reset strikes is still performed.              *)
(***************************************************************************)
EXTENDS ResetTree, Sequences, FiniteSets

CONSTANTS
    Max, Periods,          \* counts of the watchdog, periods software writes
    Faults, CfgFault, WdogFault,
    Clears, RstMasks       \* what software writes to STATUS and REACT_RST

SystemAssumption ==
    /\ Periods \subseteq 0..Max
    /\ {CfgFault, WdogFault} \subseteq Faults
    /\ Clears \subseteq SUBSET Faults /\ RstMasks \subseteq SUBSET Faults

VARIABLES
    wd_enable, wd_window, wd_lock, wd_rst_en, wd_period, wd_window_val,
    wd_count, wd_timeout, wd_badsvc, wd_key_armed, quiet, lastKey,
    status_q, enable_q, react_irq_q, react_rst_q, react_pin_q,
    ctrl_en_q, pin_inv_q, pin_tog_q, lock_q, pin_div_q,
    inject_q, selftest_q, cfg_src_q, rst_acted_q, fault_ext_sync,
    pin_cnt_q, pin_tog_q_state, par_q, wrote_q,
    upsets, raised, hit, written,
    apb            \* state of the APB bridge

wdogVars == <<wd_enable, wd_window, wd_lock, wd_rst_en, wd_period,
              wd_window_val, wd_count, wd_timeout, wd_badsvc, wd_key_armed,
              quiet, lastKey>>
sftyVars == <<status_q, enable_q, react_irq_q, react_rst_q, react_pin_q,
              ctrl_en_q, pin_inv_q, pin_tog_q, lock_q, pin_div_q, inject_q,
              selftest_q, cfg_src_q, rst_acted_q, fault_ext_sync, pin_cnt_q,
              pin_tog_q_state, par_q, wrote_q, upsets, raised, hit, written>>
vars == <<wdogVars, sftyVars, resetVars, apb>>

Wd == INSTANCE Wdog WITH
    enable_q <- wd_enable, window_q <- wd_window, lock_q <- wd_lock,
    rst_en_q <- wd_rst_en, period_q <- wd_period,
    window_val_q <- wd_window_val, count_q <- wd_count,
    sts_timeout_q <- wd_timeout, sts_badsvc_q <- wd_badsvc,
    key_armed_q <- wd_key_armed

SftyMasks == [reg \in {} |-> {}]

Sfty == INSTANCE SafetyCtrl WITH
    Internal <- Faults, External <- {}, Sources <- {}, SelfTests <- {},
    Masks <- SftyMasks, Ctrls <- {}, PinDivs <- {0}, ResetDiv <- 0,
    DivParity <- [d \in {0} |-> 0], MaxUpsets <- 0

-----------------------------------------------------------------------------

\* The peripherals and the bridge are reset by the synchronised external
\* reset, not by the warm reset.
Init == ResetInit /\ Wd!Init /\ Sfty!Init /\ apb = "IDLE"

\* The other fault inputs are pulses and levels of any length.
OtherFaults == SUBSET (Faults \ {CfgFault, WdogFault})

\* One edge: the watchdog's fault of this edge, wdFault, is an input of the
\* safety controller and, if it is configured to, a request of a reset; the
\* safety controller requests one for what it has latched.
ResetReq(wdFault) == Sfty!ResetReq \/ (wdFault /\ wd_rst_en)
React(wdFault) == ClkEdge(ResetReq(wdFault))

FaultInputs(wdFault, others) ==
    others \cup (IF wdFault THEN {WdogFault} ELSE {})

NoWrite(others) ==
    LET fault == Wd!Timeout IN
    /\ Wd!Idle
    /\ Sfty!Idle(FaultInputs(fault, others), {}, {})
    /\ React(fault)

WdogWrite(others) ==
    \E key \in {"none"} \cup Wd!Key :
        LET fault == Wd!Timeout \/ (key # "none" /\ Wd!SvcFault(key)) IN
        /\ \/ key = "none" /\ \E p \in Periods : Wd!WritePeriod(p)
           \/ key = "none" /\ \E lock, rstEn \in BOOLEAN :
                                  Wd!WriteCtrl(TRUE, FALSE, lock, rstEn)
           \/ key = "none" /\ Wd!ClearStatus(TRUE, TRUE)
           \/ key # "none" /\ Wd!Service(key)
        /\ Sfty!Idle(FaultInputs(fault, others), {}, {})
        /\ React(fault)

SftyWrite(others) ==
    LET fault == Wd!Timeout
        int == FaultInputs(fault, others)
    IN
    /\ Wd!Idle
    /\ \/ \E c \in Clears : Sfty!WriteStatus(int, {}, {}, c)
       \/ \E m \in RstMasks :
              Sfty!WriteReact(int, {}, {}, "REACT_RST", m)
    /\ React(fault)

\* The core issues a write when it is out of reset.  The bridge, which is not
\* reset with the core, performs it two edges later.
NoWriteNow == \E others \in OtherFaults : NoWrite(others)
Stay == RstN /\ apb = "IDLE" /\ NoWriteNow /\ UNCHANGED apb
Issue ==
    /\ apb = "IDLE"
    /\ CoreRstN
    /\ NoWriteNow
    /\ apb' = "SETUP"
Setup == apb = "SETUP" /\ NoWriteNow /\ apb' = "ACCESS"
Access ==
    /\ apb = "ACCESS"
    /\ \E others \in OtherFaults : WdogWrite(others) \/ SftyWrite(others)
    /\ apb' = "RESP"
Resp == apb = "RESP" /\ NoWriteNow /\ apb' = "IDLE"

\* The external reset is released once; asserted again at any time it takes
\* the whole subsystem back to Init, which adds no behaviour here.  While its
\* release has not come through, the peripherals stay in reset.
ExternalRelease == PowerRelease /\ UNCHANGED <<wdogVars, sftyVars, apb>>
HeldReset == ~RstN /\ ClkEdge(FALSE) /\ UNCHANGED <<wdogVars, sftyVars, apb>>

Clk == Stay \/ Issue \/ Setup \/ Access \/ Resp \/ HeldReset

Next == Clk \/ ExternalRelease

Spec == Init /\ [][Next]_vars

\* The clock runs.
FairSpec == Spec /\ WF_vars(Clk)

-----------------------------------------------------------------------------

\* Reset reactions never make a dead subsystem: whatever faults arrive, and
\* whatever software configures, the core runs again and again.  (Holds as
\* long as the periods of the watchdog leave it the time to restart.)
CoreRunsAgain == []<>rst_ni => []<>CoreRstN

\* The status survives the warm reset, so software can find out afterwards
\* why it restarted: when the core comes out of a warm reset that somebody
\* requested, a status flag says who.
CauseVisible ==
    [][~CoreRstN /\ CoreRstN' /\ sinceReq < Limit
         => status_q' # {} \/ wd_timeout' \/ wd_badsvc']_vars

=============================================================================
