----------------------------- MODULE SafetyCtrl -----------------------------
(***************************************************************************)
(* The safety controller, cdriscv_32s_20_safety_ctrl, with the parity that *)
(* guards its own configuration (cdriscv_32s_20_cfg_parity).  The one-bit- *)
(* per-fault registers are sets of faults.  A step is an edge of clk with  *)
(* at most one register write, or an upset of one configuration bit        *)
(* between two edges.                                                      *)
(***************************************************************************)
EXTENDS Naturals, FiniteSets, Sequences

CONSTANTS
    Internal, External,  \* fault inputs: synchronous, and through a synchroniser
    CfgFault,            \* FLT_CFG_PAR, internal and not an input
    Sources,             \* the other blocks that guard their configuration
    SelfTests,           \* the self test bits
    Masks,               \* values software writes to each one-bit-per-fault
                         \* register, and to INJECT
    Ctrls,               \* and to CTRL, but for the lock
    PinDivs, ResetDiv,   \* values of PIN_DIV, and its reset value
    DivParity,           \* the parity of the bits of each of them
    MaxUpsets            \* bound: configuration bits that are upset

Fault == Internal \cup External
Source == Sources \cup {"own"}
MaskReg == {"ENABLE", "REACT_IRQ", "REACT_RST", "REACT_PIN"}

ASSUME FaultAssumption ==
    /\ CfgFault \in Internal
    /\ Internal \cap External = {}
    /\ IsFiniteSet(Fault)
    /\ Masks \in [MaskReg \cup {"INJECT"} -> SUBSET SUBSET Fault]
    /\ Ctrls \subseteq [en : BOOLEAN, inv : BOOLEAN, tog : BOOLEAN]
    /\ "own" \notin Sources
ASSUME PinAssumption ==
    /\ PinDivs \subseteq Nat /\ ResetDiv \in PinDivs
    /\ DivParity \in [PinDivs -> 0..1]
ASSUME UpsetAssumption == MaxUpsets \in Nat

VARIABLES
    status_q, enable_q, react_irq_q, react_rst_q, react_pin_q,
    ctrl_en_q, pin_inv_q, pin_tog_q, lock_q, pin_div_q,
    inject_q, selftest_q, cfg_src_q, rst_acted_q,
    fault_ext_sync,                 \* both stages of the input synchronisers
    pin_cnt_q, pin_tog_q_state,
    par_q, wrote_q,                 \* configuration parity
    upsets,                         \* how many upsets there have been
    raised,                         \* history: faults the last edge latched
    hit,                            \* history: an upset since the last edge,
                                    \* outside the capture cycle
    written                         \* history: the pin mode and polarity that
                                    \* software wrote last

reactVars == <<react_irq_q, react_rst_q, react_pin_q>>
ctrlVars == <<ctrl_en_q, pin_inv_q, pin_tog_q>>
cfgVars == <<enable_q, reactVars, ctrlVars, lock_q, pin_div_q>>
pulseVars == <<inject_q, selftest_q>>
stateVars == <<status_q, cfg_src_q, rst_acted_q, fault_ext_sync, pin_cnt_q,
               pin_tog_q_state, par_q, wrote_q>>
vars == <<cfgVars, pulseVars, stateVars, upsets, raised, hit, written>>

-----------------------------------------------------------------------------
(* Configuration parity: one bit, captured the edge after a write.          *)

BitOf(b) == IF b THEN 1 ELSE 0
CfgParity ==
    ( Cardinality(enable_q) + Cardinality(react_irq_q)
    + Cardinality(react_rst_q) + Cardinality(react_pin_q)
    + BitOf(ctrl_en_q) + BitOf(pin_inv_q) + BitOf(pin_tog_q) + BitOf(lock_q)
    + DivParity[pin_div_q] ) % 2

CfgErrOwn == ~wrote_q /\ CfgParity # par_q

-----------------------------------------------------------------------------
(* Fault inputs.                                                            *)

FaultRaw(int) == int \cup fault_ext_sync[2] \cup inject_q
FaultLatched(int) == IF ctrl_en_q THEN FaultRaw(int) \cap enable_q ELSE {}

CfgSrc(errs) == errs \cup (IF CfgErrOwn THEN {"own"} ELSE {})

CfgFaultGated(errs) ==                            \* mutant: masked by ENABLE
    IF CfgSrc(errs) # {} THEN {CfgFault} \cap enable_q ELSE {}
CfgFaultSet(errs) == IF CfgSrc(errs) # {} THEN {CfgFault} ELSE {}

Latch(int, errs) == FaultLatched(int) \cup CfgFaultSet(errs)

\* What is latched on the edge of a clear survives the clear.
StatusClearWins(clear, set) ==                    \* mutant: clear after set
    (status_q \cup set) \ clear
StatusNext(clear, set) == (status_q \ clear) \cup set

-----------------------------------------------------------------------------
(* Reactions.                                                               *)

Irq == status_q \cap react_irq_q # {} \/ CfgFault \in status_q
PinFault == status_q \cap react_pin_q # {} \/ CfgFault \in status_q
ErrPin == (IF pin_tog_q THEN pin_tog_q_state ELSE PinFault) # pin_inv_q

RstPending == status_q \cap react_rst_q
ResetReqLevel == RstPending # {}                  \* mutant: a level
ResetReq == RstPending \ rst_acted_q # {}

ActedForever == rst_acted_q \cup RstPending       \* mutant: never cleared
ActedNext == (rst_acted_q \cup RstPending) \cap status_q

PinStuck == TRUE                                  \* mutant: set, not toggled
PinToggled == ~pin_tog_q_state

-----------------------------------------------------------------------------

Init ==
    /\ status_q = {}
    /\ cfg_src_q = {}
    /\ enable_q = Fault
    /\ react_irq_q = Fault
    /\ react_rst_q = {}
    /\ react_pin_q = Fault
    /\ ctrl_en_q = TRUE
    /\ pin_inv_q = FALSE
    /\ pin_tog_q = FALSE
    /\ lock_q = FALSE
    /\ pin_div_q = ResetDiv
    /\ inject_q = {}
    /\ selftest_q = {}
    /\ rst_acted_q = {}
    /\ fault_ext_sync = <<{}, {}>>
    /\ pin_cnt_q = 0
    /\ pin_tog_q_state = FALSE
    /\ par_q = 0
    /\ wrote_q = TRUE
    /\ upsets = 0
    /\ raised = {}
    /\ hit = FALSE
    /\ written = [inv |-> FALSE, tog |-> FALSE]

PinEdge ==
    IF PinFault
    THEN pin_cnt_q' = 0 /\ pin_tog_q_state' = FALSE
    ELSE IF pin_cnt_q >= pin_div_q
         THEN pin_cnt_q' = 0 /\ pin_tog_q_state' = PinToggled
         ELSE pin_cnt_q' = pin_cnt_q + 1 /\ UNCHANGED pin_tog_q_state

\* What every edge does: int and ext are the fault inputs, errs the parity
\* errors of the other blocks, clear the bits a write clears, and cfgWrite
\* says whether the parity group is addressed, locked or not.
Edge(int, ext, errs, clear, cfgWrite) ==
    /\ status_q' = StatusNext(clear, Latch(int, errs))
    /\ cfg_src_q' = (IF CfgFault \in clear THEN {} ELSE cfg_src_q) \cup CfgSrc(errs)
    /\ rst_acted_q' = ActedNext
    /\ fault_ext_sync' = <<ext, fault_ext_sync[1]>>
    /\ PinEdge
    /\ wrote_q' = cfgWrite
    /\ par_q' = IF wrote_q THEN CfgParity ELSE par_q
    /\ raised' = Latch(int, errs)
    /\ hit' = FALSE
    /\ UNCHANGED upsets

NoPulse == inject_q' = {} /\ selftest_q' = {}

CfgWr == ~lock_q

Idle(int, ext, errs) ==
    /\ Edge(int, ext, errs, {}, FALSE)
    /\ NoPulse
    /\ UNCHANGED <<cfgVars, written>>

WriteStatus(int, ext, errs, clear) ==
    /\ Edge(int, ext, errs, clear, FALSE)
    /\ NoPulse
    /\ UNCHANGED <<cfgVars, written>>

WriteEnable(int, ext, errs, mask) ==
    /\ enable_q' = IF CfgWr THEN mask ELSE enable_q
    /\ Edge(int, ext, errs, {}, TRUE)
    /\ NoPulse
    /\ UNCHANGED <<reactVars, ctrlVars, lock_q, pin_div_q, written>>

WriteReact(int, ext, errs, reg, mask) ==
    /\ react_irq_q' = IF CfgWr /\ reg = "REACT_IRQ" THEN mask ELSE react_irq_q
    /\ react_rst_q' = IF CfgWr /\ reg = "REACT_RST" THEN mask ELSE react_rst_q
    /\ react_pin_q' = IF CfgWr /\ reg = "REACT_PIN" THEN mask ELSE react_pin_q
    /\ Edge(int, ext, errs, {}, TRUE)
    /\ NoPulse
    /\ UNCHANGED <<enable_q, ctrlVars, lock_q, pin_div_q, written>>

WriteCtrl(int, ext, errs, ctrl, lock) ==
    /\ IF CfgWr
       THEN /\ ctrl_en_q' = ctrl.en
            /\ pin_inv_q' = ctrl.inv
            /\ pin_tog_q' = ctrl.tog
            /\ written' = [inv |-> ctrl.inv, tog |-> ctrl.tog]
       ELSE UNCHANGED <<ctrlVars, written>>
    /\ lock_q' = (lock_q \/ lock)
    /\ Edge(int, ext, errs, {}, TRUE)
    /\ NoPulse
    /\ UNCHANGED <<enable_q, reactVars, pin_div_q>>

WritePinDiv(int, ext, errs, div) ==
    /\ pin_div_q' = IF CfgWr THEN div ELSE pin_div_q
    /\ Edge(int, ext, errs, {}, TRUE)
    /\ NoPulse
    /\ UNCHANGED <<enable_q, reactVars, ctrlVars, lock_q, written>>

\* One-cycle pulses: injected faults and self tests.
WritePulse(int, ext, errs, inject, tests) ==
    /\ inject_q' = inject /\ selftest_q' = tests
    /\ inject = {} \/ tests = {}
    /\ Edge(int, ext, errs, {}, FALSE)
    /\ UNCHANGED <<cfgVars, written>>

\* One configuration bit flips between two edges.  The bits of PIN_DIV, whose
\* values are bounded here, are left out.
FlipIf(b, S, f) == IF ~b THEN S ELSE IF f \in S THEN S \ {f} ELSE S \cup {f}

UpsetMask(reg, f) ==
    /\ enable_q' = FlipIf(reg = "ENABLE", enable_q, f)
    /\ react_irq_q' = FlipIf(reg = "REACT_IRQ", react_irq_q, f)
    /\ react_rst_q' = FlipIf(reg = "REACT_RST", react_rst_q, f)
    /\ react_pin_q' = FlipIf(reg = "REACT_PIN", react_pin_q, f)
    /\ UNCHANGED <<ctrlVars, lock_q>>

UpsetCtrl(bit) ==
    /\ ctrl_en_q' = (ctrl_en_q # (bit = "en"))
    /\ pin_inv_q' = (pin_inv_q # (bit = "inv"))
    /\ pin_tog_q' = (pin_tog_q # (bit = "tog"))
    /\ lock_q' = (lock_q # (bit = "lock"))
    /\ UNCHANGED <<enable_q, reactVars>>

Upset ==
    /\ upsets < MaxUpsets
    /\ upsets' = upsets + 1
    /\ hit' = ~wrote_q
    /\ \/ \E reg \in MaskReg, f \in Fault : UpsetMask(reg, f)
       \/ \E bit \in {"en", "inv", "tog", "lock"} : UpsetCtrl(bit)
    /\ UNCHANGED <<pin_div_q, pulseVars, stateVars, raised, written>>

WriteAny(int, ext, errs) ==
    \/ \E clear \in (SUBSET Fault) \ {{}} : WriteStatus(int, ext, errs, clear)
    \/ \E m \in Masks["ENABLE"] : WriteEnable(int, ext, errs, m)
    \/ \E reg \in MaskReg \ {"ENABLE"} :
           \E m \in Masks[reg] : WriteReact(int, ext, errs, reg, m)
    \/ \E ctrl \in Ctrls, lock \in BOOLEAN :
           WriteCtrl(int, ext, errs, ctrl, lock)
    \/ \E div \in PinDivs : WritePinDiv(int, ext, errs, div)
    \/ \E m \in Masks["INJECT"] : WritePulse(int, ext, errs, m, {})
    \/ \E t \in SUBSET SelfTests : WritePulse(int, ext, errs, {}, t)

Clock ==
    \E int \in SUBSET (Internal \ {CfgFault}), ext \in SUBSET External,
       errs \in SUBSET Sources :
        Idle(int, ext, errs) \/ WriteAny(int, ext, errs)

Next == Clock \/ Upset

Spec == Init /\ [][Next]_vars

\* The clock runs: it is always enabled, and never stops.  (A step that is
\* not an upset is an edge of the clock.)
FairSpec == Spec /\ []<><<upsets' = upsets>>_vars

-----------------------------------------------------------------------------

\* No fault is lost to a write that races it: what an edge latches is in the
\* status after that edge, the clear of the same bit included.
NoFaultLost == raised \subseteq status_q

\* A configuration bit that flips, outside the cycle in which the parity is
\* captured, is latched, raises the interrupt and signals a pin fault on the
\* next edge: the flip cannot switch off its own report.
UpsetReported == [][hit /\ ~hit' => CfgFault \in status_q' /\ Irq' /\ PinFault']_vars

\* The parity guard reports every upset and raises no false alarm: without
\* one there is no error, whatever is written and refused.
ParityExact == UpsetReported /\ [](upsets = 0 => ~CfgErrOwn)

\* A fault that appears in the status with its reset reaction configured
\* requests a reset, even when it has requested one before.
NewFaultRequests ==
    [][(status_q' \ status_q) \cap react_rst_q' # {} => ResetReq']_vars

\* The request cannot sustain itself: unless a fault appears or the reaction
\* is reconfigured, it lasts one cycle.
RequestFalls ==
    [][ResetReq /\ raised' \subseteq status_q /\ react_rst_q' \subseteq react_rst_q
         /\ upsets' = upsets => ~ResetReq']_vars

\* In toggle mode a pin without a fault keeps toggling, whatever is written
\* to its divider on the way.
PinAlive ==
    <>[](~PinFault) => []<>pin_tog_q_state /\ []<>(~pin_tog_q_state)

\* A latched configuration fault shows on the error pin in the polarity and
\* the mode that software last wrote.
PinReportsUpset ==
    CfgFault \in status_q /\ ~written.tog => ErrPin # written.inv

=============================================================================
