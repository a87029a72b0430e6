---------------------------- MODULE SafetyProofs ----------------------------
(***************************************************************************)
(* The safety controller for every set of faults: nothing it latches is    *)
(* lost to a write, a new fault requests its reset, the request falls by   *)
(* itself, and the configuration guard is exact.  All of it follows from   *)
(* the part of an edge that every write shares.                            *)
(*                                                                         *)
(* The reset tree: the core's reset is exact for every length of the warm  *)
(* reset and of the synchronisers.  Every flip-flop of both chains is a    *)
(* function of the two ages, of the external reset's release and of the    *)
(* last request.                                                           *)
(***************************************************************************)
EXTENDS SafetyCtrl, ResetTree, FiniteSetTheorems, TLAPS

\* What every step does to the registers behind the reactions.
EdgeShared ==
    /\ \E int, errs, clear : /\ status_q' = StatusNext(clear, Latch(int, errs))
                             /\ raised' = Latch(int, errs)
    /\ rst_acted_q' = ActedNext
    /\ upsets' = upsets
UpsetShared ==
    /\ UNCHANGED <<status_q, rst_acted_q, raised>>
    /\ upsets' = upsets + 1

LEMMA StepShared ==
    ASSUME [Next]_vars
    PROVE  EdgeShared \/ UpsetShared \/ UNCHANGED vars
<1> USE DEF Edge, EdgeShared
<1>1. ASSUME NEW int, NEW ext, NEW errs, Idle(int, ext, errs) PROVE EdgeShared
  BY <1>1 DEF Idle
<1>2. ASSUME NEW int, NEW ext, NEW errs, WriteAny(int, ext, errs) PROVE EdgeShared
  BY <1>2 DEF WriteAny, WriteStatus, WriteEnable, WriteReact, WriteCtrl,
              WritePinDiv, WritePulse
<1>3. CASE Clock BY <1>1, <1>2, <1>3 DEF Clock
<1>4. CASE Upset BY <1>4 DEF Upset, UpsetShared, stateVars
<1> QED BY <1>3, <1>4 DEF Next

LEMMA UpsetsCounted == Spec => [](upsets \in Nat)
<1>1. Init => upsets \in Nat BY DEF Init
<1>2. ASSUME upsets \in Nat, [Next]_vars PROVE (upsets \in Nat)'
  BY <1>2, StepShared DEF EdgeShared, UpsetShared, vars
<1> QED BY <1>1, <1>2, PTL DEF Spec

\* No fault an edge latches is lost, whatever is cleared on that edge.
THEOREM NoLoss == Spec => []NoFaultLost
<1>1. Init => NoFaultLost BY DEF Init, NoFaultLost
<1>2. ASSUME NoFaultLost, [Next]_vars PROVE NoFaultLost'
  <2>1. CASE EdgeShared BY <2>1 DEF EdgeShared, StatusNext, NoFaultLost
  <2>2. CASE UpsetShared BY <1>2, <2>2 DEF UpsetShared, NoFaultLost
  <2>3. CASE UNCHANGED vars BY <1>2, <2>3 DEF vars, stateVars, NoFaultLost
  <2> QED BY <1>2, <2>1, <2>2, <2>3, StepShared
<1> QED BY <1>1, <1>2, PTL DEF Spec

\* A fault that appears in the status requests its configured reset, even if
\* the same fault has requested one before.
THEOREM NewFaultIsActedOn == Spec => NewFaultRequests
<1> DEFINE New == (status_q' \ status_q) \cap react_rst_q' # {}
<1>1. ASSUME [Next]_vars, New PROVE ResetReq'
  <2>1. EdgeShared
    BY <1>1, StepShared DEF UpsetShared, vars, stateVars
  <2>2. rst_acted_q' \subseteq status_q BY <2>1 DEF EdgeShared, ActedNext
  <2> QED BY <1>1, <2>2 DEF ResetReq, RstPending
<1>2. [Next]_vars => [New => ResetReq']_vars BY <1>1
<1> QED BY <1>2, PTL DEF Spec, NewFaultRequests

\* The reset request lasts one cycle unless a fault appears or the reaction
\* is reconfigured: it cannot hold the core in reset by itself.
THEOREM RequestIsAPulse == Spec => RequestFalls
<1> DEFINE Steady == /\ ResetReq
                     /\ raised' \subseteq status_q
                     /\ react_rst_q' \subseteq react_rst_q
                     /\ upsets' = upsets
<1>1. ASSUME [Next]_vars, Steady, ~UNCHANGED vars, upsets \in Nat
      PROVE ~ResetReq'
  <2>1. EdgeShared BY <1>1, StepShared DEF UpsetShared
  <2>2. status_q' \subseteq status_q
    BY <1>1, <2>1 DEF EdgeShared, StatusNext
  <2>3. RstPending' \subseteq RstPending BY <1>1, <2>2 DEF RstPending
  <2>4. RstPending \subseteq rst_acted_q'
    BY <2>1 DEF EdgeShared, ActedNext, RstPending
  <2> QED BY <2>3, <2>4 DEF ResetReq
<1>2. upsets \in Nat /\ [Next]_vars => [Steady => ~ResetReq']_vars BY <1>1
<1> QED BY UpsetsCounted, <1>2, PTL DEF Spec, RequestFalls

-----------------------------------------------------------------------------
(* The configuration parity.                                                *)

\* What an edge does to the guard: the edge after a write to the group, done
\* or refused, captures the parity, and only such a write changes the group.
GuardEdge ==
    /\ \E int, errs, clear : status_q' = StatusNext(clear, Latch(int, errs))
    /\ par_q' = IF wrote_q THEN CfgParity ELSE par_q
    /\ wrote_q' \in BOOLEAN
    /\ ~wrote_q' => UNCHANGED cfgVars
    /\ hit' = FALSE /\ UNCHANGED upsets

CfgTypes ==
    /\ enable_q \in SUBSET Fault /\ react_irq_q \in SUBSET Fault
    /\ react_rst_q \in SUBSET Fault /\ react_pin_q \in SUBSET Fault
    /\ ctrl_en_q \in BOOLEAN /\ pin_inv_q \in BOOLEAN /\ pin_tog_q \in BOOLEAN
    /\ lock_q \in BOOLEAN /\ pin_div_q \in PinDivs
    /\ wrote_q \in BOOLEAN /\ upsets \in Nat

\* The guard holds the parity of the group unless an upset has made it wrong.
Guarded ==
    /\ upsets = 0 => ~hit /\ ~CfgErrOwn
    /\ hit => CfgErrOwn /\ upsets > 0

ParityInv == CfgTypes /\ Guarded

LEMMA EdgesGuard ==
    ASSUME CfgTypes, Clock
    PROVE  CfgTypes' /\ GuardEdge
<1> USE DEF Edge, GuardEdge
<1>1. ASSUME NEW int, NEW ext, NEW errs, Idle(int, ext, errs) PROVE CfgTypes' /\ GuardEdge
  BY <1>1 DEF Idle, CfgTypes, cfgVars, reactVars, ctrlVars
<1>2. ASSUME NEW int, NEW ext, NEW errs, WriteAny(int, ext, errs) PROVE CfgTypes' /\ GuardEdge
  <2>1. ASSUME NEW clear, WriteStatus(int, ext, errs, clear) PROVE CfgTypes' /\ GuardEdge
    BY <2>1 DEF WriteStatus, CfgTypes, cfgVars, reactVars, ctrlVars
  <2>2. ASSUME NEW m \in Masks["ENABLE"], WriteEnable(int, ext, errs, m)
        PROVE CfgTypes' /\ GuardEdge
    <3>1. m \in SUBSET Fault BY FaultAssumption DEF MaskReg
    <3> QED BY <2>2, <3>1 DEF WriteEnable, CfgTypes, reactVars, ctrlVars
  <2>3. ASSUME NEW reg \in MaskReg \ {"ENABLE"}, NEW m \in Masks[reg],
               WriteReact(int, ext, errs, reg, m)
        PROVE CfgTypes' /\ GuardEdge
    <3>1. m \in SUBSET Fault BY FaultAssumption DEF MaskReg
    <3> QED BY <2>3, <3>1 DEF WriteReact, CfgTypes, ctrlVars
  <2>4. ASSUME NEW ctrl \in Ctrls, NEW lock \in BOOLEAN, WriteCtrl(int, ext, errs, ctrl, lock)
        PROVE CfgTypes' /\ GuardEdge
    <3>1. ctrl.en \in BOOLEAN /\ ctrl.inv \in BOOLEAN /\ ctrl.tog \in BOOLEAN
      BY FaultAssumption
    <3>2. lock_q' \in BOOLEAN BY <2>4 DEF WriteCtrl, CfgTypes
    <3>3. ctrl_en_q' \in BOOLEAN /\ pin_inv_q' \in BOOLEAN /\ pin_tog_q' \in BOOLEAN
      BY <2>4, <3>1 DEF WriteCtrl, CfgTypes, ctrlVars
    <3> QED BY <2>4, <3>2, <3>3 DEF WriteCtrl, CfgTypes, reactVars
  <2>5. ASSUME NEW div \in PinDivs, WritePinDiv(int, ext, errs, div) PROVE CfgTypes' /\ GuardEdge
    BY <2>5 DEF WritePinDiv, CfgTypes, reactVars, ctrlVars
  <2>6. ASSUME NEW i, NEW t, WritePulse(int, ext, errs, i, t) PROVE CfgTypes' /\ GuardEdge
    BY <2>6 DEF WritePulse, CfgTypes, cfgVars, reactVars, ctrlVars
  <2> QED BY <1>2, <2>1, <2>2, <2>3, <2>4, <2>5, <2>6 DEF WriteAny
<1> QED BY <1>1, <1>2 DEF Clock

\* The bits of the group, counted.
Marks == Cardinality(enable_q) + Cardinality(react_irq_q)
       + Cardinality(react_rst_q) + Cardinality(react_pin_q)
Bits == BitOf(ctrl_en_q) + BitOf(pin_inv_q) + BitOf(pin_tog_q) + BitOf(lock_q)

LEMMA Counted ==
    ASSUME CfgTypes
    PROVE  /\ \A S \in SUBSET Fault : IsFiniteSet(S) /\ Cardinality(S) \in Nat
           /\ Marks \in Nat /\ Bits \in Nat /\ DivParity[pin_div_q] \in Nat
           /\ CfgParity = (Marks + Bits + DivParity[pin_div_q]) % 2
<1>1. \A S \in SUBSET Fault : IsFiniteSet(S) /\ Cardinality(S) \in Nat
  BY FaultAssumption, FS_Subset, FS_CardinalityType
<1>2. Marks \in Nat BY <1>1 DEF CfgTypes, Marks
<1>3. Bits \in Nat BY DEF Bits, BitOf
<1>4. DivParity[pin_div_q] \in Nat BY PinAssumption DEF CfgTypes
<1>5. CfgParity = (Marks + Bits + DivParity[pin_div_q]) % 2
  <2>1. \A b : BitOf(b) \in Nat BY DEF BitOf
  <2> QED BY <1>1, <1>4, <2>1 DEF CfgParity, Marks, Bits, CfgTypes
<1> QED BY <1>1, <1>2, <1>3, <1>4, <1>5

\* A flip of one bit makes the count one more or one less.
LEMMA FlipCounts ==
    ASSUME NEW S \in SUBSET Fault, NEW f \in Fault, NEW b \in BOOLEAN
    PROVE  /\ FlipIf(b, S, f) \in SUBSET Fault
           /\ ~b => FlipIf(b, S, f) = S
           /\ b => Cardinality(FlipIf(b, S, f)) \in {Cardinality(S) + 1, Cardinality(S) - 1}
<1>1. IsFiniteSet(S) BY FaultAssumption, FS_Subset
<1>2. CASE f \in S BY <1>1, <1>2, FS_RemoveElement DEF FlipIf
<1>3. CASE f \notin S BY <1>1, <1>3, FS_AddElement DEF FlipIf
<1> QED BY <1>2, <1>3

LEMMA FlipsParity ==
    ASSUME NEW n \in Nat, NEW m \in Nat, m \in {n + 1, n - 1}
    PROVE  m % 2 # n % 2
OBVIOUS

LEMMA CountedNext ==
    CfgTypes' => /\ Marks' \in Nat /\ Bits' \in Nat /\ DivParity[pin_div_q'] \in Nat
                 /\ CfgParity' = (Marks' + Bits' + DivParity[pin_div_q']) % 2
<1>1. CfgTypes => /\ Marks \in Nat /\ Bits \in Nat /\ DivParity[pin_div_q] \in Nat
                  /\ CfgParity = (Marks + Bits + DivParity[pin_div_q]) % 2
  BY Counted
<1>2. CfgTypes' => (/\ Marks \in Nat /\ Bits \in Nat /\ DivParity[pin_div_q] \in Nat
                    /\ CfgParity = (Marks + Bits + DivParity[pin_div_q]) % 2)'
  BY <1>1, PTL
<1> QED BY <1>2

LEMMA MaskFlips ==
    ASSUME CfgTypes, NEW reg \in MaskReg, NEW f \in Fault, UpsetMask(reg, f),
           UNCHANGED <<pin_div_q, wrote_q>>, upsets' \in Nat
    PROVE  CfgTypes' /\ CfgParity' # CfgParity
<1>1. CfgTypes'
  BY FlipCounts DEF CfgTypes, UpsetMask, ctrlVars
<1>2. /\ Cardinality(enable_q) \in Nat /\ Cardinality(react_irq_q) \in Nat
      /\ Cardinality(react_rst_q) \in Nat /\ Cardinality(react_pin_q) \in Nat
  BY Counted DEF CfgTypes
<1>3. Marks' \in {Marks + 1, Marks - 1}
  <2>1. CASE reg = "ENABLE"
    <3>1. /\ Cardinality(enable_q') \in {Cardinality(enable_q) + 1, Cardinality(enable_q) - 1}
          /\ UNCHANGED <<react_irq_q, react_rst_q, react_pin_q>>
      BY <2>1, FlipCounts DEF UpsetMask, CfgTypes
    <3> QED BY <1>2, <3>1 DEF Marks
  <2>2. CASE reg = "REACT_IRQ"
    <3>1. /\ Cardinality(react_irq_q')
                \in {Cardinality(react_irq_q) + 1, Cardinality(react_irq_q) - 1}
          /\ UNCHANGED <<enable_q, react_rst_q, react_pin_q>>
      BY <2>2, FlipCounts DEF UpsetMask, CfgTypes
    <3> QED BY <1>2, <3>1 DEF Marks
  <2>3. CASE reg = "REACT_RST"
    <3>1. /\ Cardinality(react_rst_q')
                \in {Cardinality(react_rst_q) + 1, Cardinality(react_rst_q) - 1}
          /\ UNCHANGED <<enable_q, react_irq_q, react_pin_q>>
      BY <2>3, FlipCounts DEF UpsetMask, CfgTypes
    <3> QED BY <1>2, <3>1 DEF Marks
  <2>4. CASE reg = "REACT_PIN"
    <3>1. /\ Cardinality(react_pin_q')
                \in {Cardinality(react_pin_q) + 1, Cardinality(react_pin_q) - 1}
          /\ UNCHANGED <<enable_q, react_irq_q, react_rst_q>>
      BY <2>4, FlipCounts DEF UpsetMask, CfgTypes
    <3> QED BY <1>2, <3>1 DEF Marks
  <2> QED BY <2>1, <2>2, <2>3, <2>4 DEF MaskReg
<1>4. Bits' = Bits /\ DivParity[pin_div_q'] = DivParity[pin_div_q]
  BY DEF UpsetMask, ctrlVars, Bits, BitOf
<1>5. /\ Marks \in Nat /\ Marks' \in Nat /\ Bits \in Nat /\ DivParity[pin_div_q] \in Nat
      /\ CfgParity = (Marks + Bits + DivParity[pin_div_q]) % 2
      /\ CfgParity' = (Marks' + Bits' + DivParity[pin_div_q']) % 2
  BY <1>1, Counted, CountedNext
<1> QED BY <1>1, <1>3, <1>4, <1>5, FlipsParity

LEMMA CtrlFlips ==
    ASSUME CfgTypes, NEW bit \in {"en", "inv", "tog", "lock"}, UpsetCtrl(bit),
           UNCHANGED <<pin_div_q, wrote_q>>, upsets' \in Nat
    PROVE  CfgTypes' /\ CfgParity' # CfgParity
<1>1. CfgTypes'
  BY DEF CfgTypes, UpsetCtrl, reactVars
<1>2. \A b \in BOOLEAN, c \in BOOLEAN :
          /\ BitOf(b) \in 0..1
          /\ ~c => BitOf(b # c) = BitOf(b)
          /\ c => BitOf(b # c) \in {BitOf(b) + 1, BitOf(b) - 1}
  <2> SUFFICES ASSUME NEW b \in BOOLEAN, NEW c \in BOOLEAN
               PROVE  /\ BitOf(b) \in 0..1
                      /\ ~c => BitOf(b # c) = BitOf(b)
                      /\ c => BitOf(b # c) \in {BitOf(b) + 1, BitOf(b) - 1}
    OBVIOUS
  <2>1. PICK x : x = BitOf(b)
    OBVIOUS
  <2>2. PICK y : y = BitOf(b # c)
    OBVIOUS
  <2>3. (c /\ x = 0 /\ y = 1) \/ (c /\ x = 1 /\ y = 0) \/ (~c /\ x = y /\ x \in {0, 1})
    BY <2>1, <2>2, Zenon DEF BitOf
  <2>4. x \in 0..1 /\ (~c => y = x) /\ (c => y \in {x + 1, x - 1})
    BY <2>3
  <2> QED BY <2>1, <2>2, <2>4, Zenon
<1>3. Bits' \in {Bits + 1, Bits - 1}
  <2>1. /\ BitOf(ctrl_en_q) \in 0..1 /\ BitOf(pin_inv_q) \in 0..1
        /\ BitOf(pin_tog_q) \in 0..1 /\ BitOf(lock_q) \in 0..1
    BY <1>2 DEF CfgTypes
  <2>2. /\ bit = "en" => BitOf(ctrl_en_q') \in {BitOf(ctrl_en_q) + 1, BitOf(ctrl_en_q) - 1}
        /\ bit # "en" => BitOf(ctrl_en_q') = BitOf(ctrl_en_q)
    BY <1>2 DEF CfgTypes, UpsetCtrl
  <2>3. /\ bit = "inv" => BitOf(pin_inv_q') \in {BitOf(pin_inv_q) + 1, BitOf(pin_inv_q) - 1}
        /\ bit # "inv" => BitOf(pin_inv_q') = BitOf(pin_inv_q)
    BY <1>2 DEF CfgTypes, UpsetCtrl
  <2>4. /\ bit = "tog" => BitOf(pin_tog_q') \in {BitOf(pin_tog_q) + 1, BitOf(pin_tog_q) - 1}
        /\ bit # "tog" => BitOf(pin_tog_q') = BitOf(pin_tog_q)
    BY <1>2 DEF CfgTypes, UpsetCtrl
  <2>5. /\ bit = "lock" => BitOf(lock_q') \in {BitOf(lock_q) + 1, BitOf(lock_q) - 1}
        /\ bit # "lock" => BitOf(lock_q') = BitOf(lock_q)
    BY <1>2 DEF CfgTypes, UpsetCtrl
  <2>6. Bits' = BitOf(ctrl_en_q') + BitOf(pin_inv_q') + BitOf(pin_tog_q') + BitOf(lock_q')
    BY DEF Bits, BitOf
  <2> QED BY <2>1, <2>2, <2>3, <2>4, <2>5, <2>6 DEF Bits
<1>4. Marks' = Marks /\ DivParity[pin_div_q'] = DivParity[pin_div_q]
  BY DEF UpsetCtrl, reactVars, Marks
<1>5. /\ Bits' \in Nat /\ Marks \in Nat /\ Bits \in Nat /\ DivParity[pin_div_q] \in Nat
      /\ CfgParity = (Marks + Bits + DivParity[pin_div_q]) % 2
      /\ CfgParity' = (Marks' + Bits' + DivParity[pin_div_q']) % 2
  BY <1>1, Counted, CountedNext
<1> QED BY <1>1, <1>3, <1>4, <1>5, FlipsParity

LEMMA ParityInvariant == ASSUME MaxUpsets <= 1 PROVE Spec => []ParityInv
<1>1. Init => ParityInv
  <2>1. Init => CfgTypes
    <3>1. 0 \in Nat /\ ResetDiv \in PinDivs
      BY PinAssumption
    <3> QED BY <3>1, Zenon DEF Init, CfgTypes
  <2>2. Init => ~hit /\ ~CfgErrOwn
    BY DEF Init, CfgErrOwn
  <2> QED BY <2>1, <2>2 DEF ParityInv, Guarded
<1>2. ParityInv /\ [Next]_vars => ParityInv'
  <2> SUFFICES ASSUME ParityInv, [Next]_vars PROVE ParityInv'
    OBVIOUS
  <2>1. CASE Clock
    <3>1. CfgTypes' /\ GuardEdge BY <2>1, EdgesGuard DEF ParityInv
    <3>2. ~wrote_q' => CfgParity' = CfgParity
      BY <3>1 DEF GuardEdge, cfgVars, reactVars, ctrlVars, CfgParity, BitOf
    <3>3. upsets' = 0 => ~CfgErrOwn'
      BY <3>1, <3>2 DEF GuardEdge, CfgErrOwn, ParityInv, Guarded
    <3> QED BY <3>1, <3>3 DEF GuardEdge, ParityInv, Guarded
  <2>2. CASE Upset
    <3>1. upsets = 0 /\ upsets' = 1 /\ UNCHANGED <<pin_div_q, wrote_q, par_q>>
      BY <2>2, UpsetAssumption DEF Upset, stateVars, ParityInv, CfgTypes
    <3>2. CfgTypes' /\ CfgParity' # CfgParity
      BY <2>2, <3>1, MaskFlips, CtrlFlips DEF Upset, ParityInv
    <3>3. hit' => CfgErrOwn'
      BY <2>2, <3>1, <3>2 DEF Upset, CfgErrOwn, ParityInv, Guarded
    <3> QED BY <3>1, <3>2, <3>3 DEF ParityInv, Guarded
  <2>3. CASE UNCHANGED vars
    BY <2>3 DEF vars, cfgVars, reactVars, ctrlVars, stateVars, ParityInv, CfgTypes, Guarded,
                CfgErrOwn, CfgParity, BitOf
  <2> QED BY <2>1, <2>2, <2>3 DEF Next
<1> QED BY <1>1, <1>2, PTL DEF Spec

\* The parity guard, for faults, masks and dividers of every number, and one
\* upset, which is what one bit of parity can tell: an upset anywhere in the
\* group, but in the cycle that captures the parity, is latched on the next
\* edge, interrupts and shows on the pin, whatever is written or refused on
\* that edge, and without an upset there is never an error.
THEOREM GuardIsExact == ASSUME MaxUpsets <= 1 PROVE Spec => ParityExact
<1>1. ASSUME ParityInv, [Next]_vars, hit, ~hit'
      PROVE  CfgFault \in status_q' /\ Irq' /\ PinFault'
  <2>1. ~wrote_q /\ CfgErrOwn
    BY <1>1 DEF ParityInv, Guarded, CfgErrOwn
  <2>2. Clock
    BY <1>1, <2>1 DEF Next, Upset, vars
  <2>3. GuardEdge
    BY <1>1, <2>2, EdgesGuard DEF ParityInv
  <2>4. CfgFault \in status_q'
    BY <2>1, <2>3 DEF GuardEdge, StatusNext, Latch, CfgFaultSet, CfgSrc
  <2> QED BY <2>4 DEF Irq, PinFault
<1>2. ParityInv => (upsets = 0 => ~CfgErrOwn)
  BY DEF ParityInv, Guarded
<1>3. ParityInv /\ [Next]_vars =>
          [hit /\ ~hit' => CfgFault \in status_q' /\ Irq' /\ PinFault']_vars
  BY <1>1
<1> QED BY <1>2, <1>3, ParityInvariant, PTL DEF Spec, ParityExact, UpsetReported

-----------------------------------------------------------------------------
(* The reset tree. *)

WarmExact ==
    warm_cnt_q = IF sinceReq < WarmRstLen THEN WarmRstLen - sinceReq ELSE 0
RstChainExact == \A i \in 1..Stages : rst_sync[i] <=> sincePower >= i
CoreChainExact ==
    \A i \in 1..Stages : core_sync[i] <=> /\ sincePower >= Stages + i
                                          /\ sinceReq >= WarmRstLen + i
NoRequestYet == sincePower < Stages => sinceReq = Limit
HeldInReset == ~rst_ni => sincePower = 0

ResetInv ==
    /\ ResetTypeOK
    /\ WarmExact
    /\ RstChainExact
    /\ CoreChainExact
    /\ NoRequestYet
    /\ HeldInReset

LEMMA LimitIsNat == Limit \in Nat /\ Limit >= WarmRstLen + Stages /\ Limit >= 2 * Stages
BY ResetAssumption DEF Limit

LEMMA ClearedChain ==
    Cleared(Stages) \in Chain(Stages) /\ \A i \in 1..Stages : ~Cleared(Stages)[i]
BY DEF Cleared, Chain

\* A shift with TRUE adds one to the age from which each flip-flop is set.
LEMMA ShiftAges ==
    ASSUME NEW c \in Chain(Stages)
    PROVE  /\ ShiftIn(c, TRUE) \in Chain(Stages)
           /\ \A i \in 1..Stages :
                 ShiftIn(c, TRUE)[i] = IF i = 1 THEN TRUE ELSE c[i - 1]
           /\ \A i \in 1..Stages : i # 1 => i - 1 \in 1..Stages
<1>1. DOMAIN c = 1..Stages BY DEF Chain
<1>2. \A i \in 1..Stages : i # 1 => i - 1 \in 1..Stages
  BY ResetAssumption
<1>3. ShiftIn(c, TRUE) = [i \in 1..Stages |-> IF i = 1 THEN TRUE ELSE c[i - 1]]
  BY <1>1 DEF ShiftIn
<1>4. ASSUME NEW i \in 1..Stages
      PROVE  (IF i = 1 THEN TRUE ELSE c[i - 1]) \in BOOLEAN
  BY <1>2 DEF Chain
<1> QED BY <1>2, <1>3, <1>4 DEF Chain

LEMMA InReset ==
    ASSUME sincePower = 0, sinceReq = Limit, warm_cnt_q = 0,
           rst_sync = Cleared(Stages), core_sync = Cleared(Stages),
           rst_ni \in BOOLEAN
    PROVE  ResetInv
<1>1. Stages \in 1..Stages BY ResetAssumption
<1>2. ResetTypeOK BY ClearedChain, LimitIsNat, ResetAssumption DEF ResetTypeOK
<1>3. WarmExact BY LimitIsNat, ResetAssumption DEF WarmExact
<1>4. RstChainExact BY ClearedChain DEF RstChainExact
<1>5. CoreChainExact BY ClearedChain, ResetAssumption DEF CoreChainExact
<1> QED BY <1>2, <1>3, <1>4, <1>5 DEF ResetInv, NoRequestYet, HeldInReset

LEMMA ResetEdge ==
    ASSUME ResetInv, NEW req \in BOOLEAN, ClkEdge(req) PROVE ResetInv'
<1> USE DEF ResetInv
<1> DEFINE requested == RstN /\ req
<1>0. /\ sincePower \in 0..Limit /\ sinceReq \in 0..Limit
      /\ warm_cnt_q \in 0..WarmRstLen
      /\ rst_sync \in Chain(Stages) /\ core_sync \in Chain(Stages)
      /\ Stages \in Nat \ {0} /\ WarmRstLen \in Nat \ {0} /\ Stages \in 1..Stages
  BY ResetAssumption DEF ResetTypeOK
<1>1. RstN <=> sincePower >= Stages
  BY <1>0 DEF RstN, Output, RstChainExact
<1>2. sincePower' = IF rst_ni THEN UpTo(Limit, sincePower) ELSE 0
  BY DEF ClkEdge
<1>3. sinceReq' = IF requested THEN 0 ELSE UpTo(Limit, sinceReq)
  BY DEF ClkEdge
<1>4. sincePower' \in 0..Limit /\ sinceReq' \in 0..Limit
  BY <1>0, <1>2, <1>3, LimitIsNat DEF UpTo
<1>5. NoRequestYet' BY <1>0, <1>1, <1>2, <1>3, <1>4, LimitIsNat
      DEF NoRequestYet, UpTo, HeldInReset
<1>6. HeldInReset' BY <1>2 DEF HeldInReset, ClkEdge
<1>7. WarmExact' /\ warm_cnt_q' \in 0..WarmRstLen
  <2>1. CASE requested
    BY <1>0, <1>3, <2>1 DEF ClkEdge, WarmNext, WarmExact
  <2>2. CASE ~RstN
    BY <1>0, <1>1, <1>3, <2>2, LimitIsNat
    DEF ClkEdge, WarmExact, NoRequestYet, UpTo
  <2>3. CASE RstN /\ ~req
    BY <1>0, <1>3, <2>3, LimitIsNat DEF ClkEdge, WarmNext, WarmExact, UpTo
  <2> QED BY <2>1, <2>2, <2>3
<1>8. RstChainExact' /\ rst_sync' \in Chain(Stages)
  <2>1. CASE rst_ni
    <3>1. rst_sync' = ShiftIn(rst_sync, TRUE) BY <2>1 DEF ClkEdge
    <3>2. ASSUME NEW i \in 1..Stages PROVE rst_sync'[i] <=> sincePower' >= i
      <4>1. rst_sync'[i] = IF i = 1 THEN TRUE ELSE rst_sync[i - 1]
        BY <1>0, <3>1, ShiftAges
      <4>2. i # 1 => (rst_sync[i - 1] <=> sincePower >= i - 1)
        BY <1>0, ShiftAges DEF RstChainExact
      <4>3. sincePower' >= 1 /\ (sincePower' >= i <=> sincePower >= i - 1)
        BY <1>0, <1>2, <2>1, LimitIsNat DEF UpTo
      <4> QED BY <4>1, <4>2, <4>3
    <3> QED BY <1>0, <3>1, <3>2, ShiftAges DEF RstChainExact
  <2>2. CASE ~rst_ni
    BY <1>0, <1>2, <2>2, ClearedChain DEF ClkEdge, RstChainExact
  <2> QED BY <2>1, <2>2 DEF ResetTypeOK
<1>9. CoreChainExact' /\ core_sync' \in Chain(Stages)
  <2> DEFINE released == WarmRstN /\ warm_cnt_q' = 0
  <2>1. CASE released
    <3>1. core_sync' = ShiftIn(core_sync, TRUE)
      BY <2>1 DEF ClkEdge, SyncNext
    <3>2. /\ sincePower >= Stages /\ sinceReq >= WarmRstLen
          /\ ~requested /\ rst_ni
      BY <1>0, <1>1, <2>1 DEF WarmRstN, WarmExact, ClkEdge, WarmNext,
                             HeldInReset, ResetTypeOK
    <3>3. ASSUME NEW i \in 1..Stages
          PROVE  core_sync'[i] <=> /\ sincePower' >= Stages + i
                                   /\ sinceReq' >= WarmRstLen + i
      <4>1. core_sync'[i] = IF i = 1 THEN TRUE ELSE core_sync[i - 1]
        BY <1>0, <3>1, ShiftAges
      <4>2. i # 1 => (core_sync[i - 1] <=> /\ sincePower >= Stages + (i - 1)
                                           /\ sinceReq >= WarmRstLen + (i - 1))
        BY <1>0, ShiftAges DEF CoreChainExact
      <4>3. sincePower' >= Stages + i <=> sincePower >= Stages + (i - 1)
        BY <1>0, <1>2, <3>2, LimitIsNat DEF UpTo, Limit
      <4>4. sinceReq' >= WarmRstLen + i <=> sinceReq >= WarmRstLen + (i - 1)
        BY <1>0, <1>3, <3>2, LimitIsNat DEF UpTo, Limit
      <4> QED BY <1>0, <3>2, <4>1, <4>2, <4>3, <4>4
    <3> QED BY <1>0, <3>1, <3>3, ShiftAges DEF CoreChainExact
  <2>2. CASE ~released
    <3>1. core_sync' = Cleared(Stages) BY <2>2 DEF ClkEdge, SyncNext
    <3>2. \/ sincePower' <= Stages
          \/ sinceReq' <= WarmRstLen
      <4>1. CASE ~RstN
        BY <1>0, <1>1, <1>2, <4>1, LimitIsNat DEF UpTo
      <4>2. CASE warm_cnt_q # 0
        BY <1>0, <1>3, <4>2, LimitIsNat DEF WarmExact, UpTo
      <4>3. CASE warm_cnt_q' # 0
        <5>1. warm_cnt_q' = IF sinceReq' < WarmRstLen
                            THEN WarmRstLen - sinceReq' ELSE 0
          BY <1>7 DEF WarmExact
        <5>2. sinceReq' < WarmRstLen BY <4>3, <5>1
        <5> QED BY <1>0, <1>4, <5>2, LimitIsNat
      <4> QED BY <2>2, <4>1, <4>2, <4>3 DEF WarmRstN
    <3> QED BY <1>0, <1>4, <3>1, <3>2, ClearedChain DEF CoreChainExact
  <2> QED BY <2>1, <2>2
<1>10. ResetTypeOK' BY <1>4, <1>7, <1>8, <1>9 DEF ResetTypeOK, ClkEdge
<1> QED BY <1>5, <1>6, <1>7, <1>8, <1>9, <1>10

LEMMA ResetStep == ResetInv /\ [ResetNext]_resetVars => ResetInv'
<1> SUFFICES ASSUME ResetInv, [ResetNext]_resetVars PROVE ResetInv'
  OBVIOUS
<1>1. ASSUME NEW req \in BOOLEAN, ClkEdge(req) PROVE ResetInv'
  BY <1>1, ResetEdge
<1>2. CASE PowerReset
  <2>1. /\ sincePower' = 0 /\ sinceReq' = Limit /\ warm_cnt_q' = 0
        /\ rst_sync' = Cleared(Stages) /\ core_sync' = Cleared(Stages)
        /\ rst_ni' \in BOOLEAN
    BY <1>2 DEF PowerReset
  <2>2. ResetTypeOK' BY <2>1, ClearedChain, LimitIsNat, ResetAssumption DEF ResetTypeOK
  <2>3. WarmExact' BY <2>1, LimitIsNat, ResetAssumption DEF WarmExact
  <2>4. RstChainExact' BY <2>1, ClearedChain DEF RstChainExact
  <2>5. CoreChainExact' BY <2>1, ClearedChain, ResetAssumption DEF CoreChainExact
  <2>6. NoRequestYet' /\ HeldInReset' BY <2>1 DEF NoRequestYet, HeldInReset
  <2> QED BY <2>2, <2>3, <2>4, <2>5, <2>6 DEF ResetInv
<1>3. CASE PowerRelease
  BY <1>3 DEF PowerRelease, ResetInv, ResetTypeOK, WarmExact, RstChainExact,
              CoreChainExact, NoRequestYet, HeldInReset
<1>4. CASE UNCHANGED resetVars
  BY <1>4 DEF resetVars, ResetInv, ResetTypeOK, WarmExact, RstChainExact, CoreChainExact,
              NoRequestYet, HeldInReset
<1> QED BY <1>1, <1>2, <1>3, <1>4 DEF ResetNext

THEOREM ResetInvariant == ResetSpec => []ResetInv
<1>1. ResetInit => ResetInv BY InReset DEF ResetInit
<1> QED BY <1>1, ResetStep, PTL DEF ResetSpec

-----------------------------------------------------------------------------

\* The counter and both chains keep their ranges.
THEOREM ResetTypeCorrect == ResetSpec => []ResetTypeOK
<1>1. ResetInv => ResetTypeOK BY DEF ResetInv
<1> QED BY <1>1, ResetInvariant, PTL

\* The core is out of reset exactly when the release of the external reset
\* and the last request are long enough ago, for every length of either.
THEOREM ExactReset == ResetSpec => []HeldExactly
<1>1. ASSUME ResetInv PROVE HeldExactly
  <2>1. Stages \in 1..Stages /\ Stages + Stages = 2 * Stages BY ResetAssumption
  <2> QED BY <1>1, <2>1 DEF ResetInv, CoreChainExact, HeldExactly, CoreRstN, Output
<1> QED BY <1>1, ResetInvariant, PTL

=============================================================================
