---------------------------- MODULE BlockProofs ----------------------------
(***************************************************************************)
(* What the blocks that stand alone promise, for every width, depth and    *)
(* number of sources their modules admit:                                  *)
(*   Wdog      periods and windows, from the sum of the counter and the    *)
(*             history of quiet edges, which is the period                 *)
(*   Irqs      an edge that is owed is pending                             *)
(*   Timer     what the two halves of the deadline hold after each write   *)
(*   Ams       a converter at work for nobody was abandoned                *)
(*   Cores     the checker is where the main core was Delay edges ago      *)
(*   March     what each class of faults makes of the array, and which     *)
(*             element of the march has still to read it                   *)
(*   Boot      the bytes that came are the words stored, the word on the   *)
(*             bus and the one that is not complete; a failure took a      *)
(*             glitch                                                      *)
(***************************************************************************)
EXTENDS MCBlocks, SequenceTheorems, TLAPS

-----------------------------------------------------------------------------
(* The watchdog.                                                            *)

CountsQuiet == quiet + count_q = period_q

IInv == TypeOK /\ CountsQuiet /\ ArmedByKeyA

LEMMA InitInvariant == Init => IInv
<1> SUFFICES ASSUME Init PROVE IInv
  OBVIOUS
<1>1. Max \div 2 \in Count BY MaxAssumption, SMT DEF Count
<1>2. Max \in Count /\ 0 \in Count BY MaxAssumption DEF Count
<1>3. TypeOK BY <1>1, <1>2 DEF Init, TypeOK, Key
<1>4. CountsQuiet BY MaxAssumption DEF Init, CountsQuiet
<1>5. ArmedByKeyA BY DEF Init, ArmedByKeyA
<1> QED BY <1>3, <1>4, <1>5 DEF IInv

\* An edge that writes no counter keeps the sum, whether the counter moves,
\* restarts or stands still.
LEMMA TickKeeps ==
    ASSUME TypeOK, CountsQuiet, Tick, UNCHANGED period_q
    PROVE  /\ quiet' \in Count /\ count_q' \in Count
           /\ CountsQuiet'
BY MaxAssumption DEF TypeOK, CountsQuiet, Tick, Timeout, CountDown, Count

LEMMA StepInvariant == IInv /\ [Next]_vars => IInv'
<1> SUFFICES ASSUME IInv, [Next]_vars PROVE IInv'
  OBVIOUS
<1> USE DEF IInv
<1>1. CASE Idle
  <2>1. TypeOK' BY <1>1, TickKeeps
        DEF Idle, TimeoutSticks, TypeOK, cfgVars, ctrlVars, keyVars, Timeout
  <2>2. CountsQuiet' BY <1>1, TickKeeps DEF Idle, cfgVars
  <2>3. ArmedByKeyA' BY <1>1 DEF Idle, keyVars, ArmedByKeyA
  <2> QED BY <2>1, <2>2, <2>3
<1>2. ASSUME NEW e \in BOOLEAN, NEW w \in BOOLEAN, NEW l \in BOOLEAN,
             NEW r \in BOOLEAN, WriteCtrl(e, w, l, r)
      PROVE  IInv'
  <2>1. TypeOK' BY <1>2, TickKeeps
        DEF WriteCtrl, TimeoutSticks, TypeOK, keyVars, Timeout
  <2>2. CountsQuiet' BY <1>2, TickKeeps DEF WriteCtrl
  <2>3. ArmedByKeyA' BY <1>2 DEF WriteCtrl, keyVars, ArmedByKeyA
  <2> QED BY <2>1, <2>2, <2>3
<1>3. ASSUME NEW v \in Count, WritePeriod(v) PROVE IInv'
  <2> USE DEF WritePeriod, ctrlVars, keyVars
  <2>1. CASE CfgWr
    <3>1. period_q' = v /\ count_q' = v /\ quiet' = 0 BY <1>3, <2>1
    <3>2. TypeOK' BY <1>3, <3>1, MaxAssumption
          DEF TimeoutSticks, Timeout, TypeOK, Count
    <3>3. CountsQuiet' BY <3>1 DEF CountsQuiet, Count
    <3> QED BY <1>3, <3>2, <3>3 DEF ArmedByKeyA
  <2>2. CASE ~CfgWr
    <3>1. UNCHANGED period_q /\ Tick BY <1>3, <2>2
    <3>2. TypeOK' BY <1>3, <3>1, TickKeeps DEF TimeoutSticks, Timeout, TypeOK
    <3>3. CountsQuiet' BY <3>1, TickKeeps
    <3> QED BY <1>3, <3>2, <3>3 DEF ArmedByKeyA
  <2> QED BY <2>1, <2>2
<1>4. ASSUME NEW v \in Count, WriteWindow(v) PROVE IInv'
  <2> USE DEF WriteWindow, ctrlVars, keyVars
  <2>1. TypeOK' BY <1>4, TickKeeps DEF TimeoutSticks, Timeout, TypeOK
  <2>2. CountsQuiet' BY <1>4, TickKeeps
  <2> QED BY <1>4, <2>1, <2>2 DEF ArmedByKeyA
<1>5. ASSUME NEW key \in Key, Service(key) PROVE IInv'
  <2> USE DEF Service, cfgVars, ctrlVars
  <2>1. CASE SvcGood(key)
    <3>1. /\ count_q' = period_q /\ quiet' = 0 /\ lastKey' = "none"
          /\ key_armed_q' = FALSE
      BY <1>5, <2>1 DEF Reload, SvcGood, SvcDone, KeyArmed
    <3>2. sts_badsvc_q' \in BOOLEAN /\ sts_timeout_q' \in BOOLEAN
      BY <1>5 DEF TimeoutSticks, Timeout, SvcFault, SvcBadKey, SvcEarly,
                  SvcDone, InWindow, TypeOK
    <3>3. 0 \in Count BY MaxAssumption DEF Count
    <3>4. TypeOK' BY <1>5, <3>1, <3>2, <3>3 DEF TypeOK
    <3>5. CountsQuiet' BY <1>5, <3>1 DEF CountsQuiet, TypeOK, Count
    <3>6. ArmedByKeyA' BY <3>1 DEF ArmedByKeyA
    <3> QED BY <3>4, <3>5, <3>6
  <2>2. CASE ~SvcGood(key)
    <3>1. Tick BY <1>5, <2>2 DEF Reload, Tick
    <3>2. lastKey' = key /\ key_armed_q' = (key = "A") BY <1>5, <2>2 DEF KeyArmed
    <3>3. sts_badsvc_q' \in BOOLEAN /\ sts_timeout_q' \in BOOLEAN
      BY <1>5 DEF TimeoutSticks, Timeout, SvcFault, SvcBadKey, SvcEarly,
                  SvcDone, InWindow, TypeOK
    <3>4. TypeOK' BY <1>5, <3>1, <3>2, <3>3, TickKeeps DEF TypeOK
    <3>5. CountsQuiet' BY <1>5, <3>1, TickKeeps
    <3> QED BY <3>2, <3>4, <3>5 DEF ArmedByKeyA
  <2> QED BY <2>1, <2>2
<1>6. ASSUME NEW t \in BOOLEAN, NEW b \in BOOLEAN, ClearStatus(t, b) PROVE IInv'
  <2> USE DEF ClearStatus, cfgVars, ctrlVars, keyVars
  <2>1. TypeOK' BY <1>6, TickKeeps DEF TimeoutSticks, Timeout, TypeOK
  <2>2. CountsQuiet' BY <1>6, TickKeeps
  <2> QED BY <1>6, <2>1, <2>2 DEF ArmedByKeyA
<1>7. CASE UNCHANGED vars
  BY <1>7 DEF vars, cfgVars, ctrlVars, stsVars, keyVars, TypeOK, CountsQuiet,
              ArmedByKeyA
<1> QED BY <1>1, <1>2, <1>3, <1>4, <1>5, <1>6, <1>7 DEF Next, WriteAny

THEOREM Invariance == Spec => []IInv
BY InitInvariant, StepInvariant, PTL DEF Spec

-----------------------------------------------------------------------------

\* The registers keep their ranges: the counter never leaves 0..Max.
THEOREM TypeCorrect == Spec => []TypeOK
<1>1. IInv => TypeOK BY DEF IInv
<1> QED BY <1>1, Invariance, PTL

\* An enabled watchdog, whatever is written to it, hears an accepted service
\* or times out before its period has passed.
THEOREM NeverQuiet == Spec => []NeverQuietForLong
<1>1. IInv => NeverQuietForLong
  BY DEF IInv, TypeOK, CountsQuiet, NeverQuietForLong, Count
<1> QED BY <1>1, Invariance, PTL

\* A completed service was preceded by KEY_A and by nothing since.
THEOREM KeysInOrder == Spec => []ArmedByKeyA
<1>1. IInv => ArmedByKeyA BY DEF IInv
<1> QED BY <1>1, Invariance, PTL

\* A KEY_B behind KEY_A is a service exactly in the window, counted from the
\* last reload.
THEOREM WindowRespected == Spec => WindowKept
<1> DEFINE Keyed == window_q /\ lastKey = "A" /\ lastKey' \in {"none", "B"}
           InTime == period_q <= quiet + window_val_q
<1>1. ASSUME IInv, [Next]_vars, Keyed PROVE lastKey' = "none" <=> InTime
  <2>1. PICK key \in Key : Service(key)
    BY <1>1 DEF Next, WriteAny, Idle, WriteCtrl, WritePeriod, WriteWindow,
                ClearStatus, keyVars, vars
  <2>2. lastKey' = (IF SvcGood(key) THEN "none" ELSE key)
    BY <2>1 DEF Service
  <2>3. key = "B" /\ key_armed_q /\ key # "none"
    BY <1>1, <2>2 DEF IInv, ArmedByKeyA, SvcGood, SvcDone, Key
  <2>4. lastKey' = "none" <=> SvcGood(key)
    BY <2>2, <2>3
  <2>5. SvcGood(key) <=> count_q <= window_val_q
    BY <1>1, <2>3 DEF SvcGood, SvcDone, InWindow
  <2>6. count_q <= window_val_q <=> InTime
    BY <1>1 DEF IInv, TypeOK, CountsQuiet, Count
  <2> QED BY <2>4, <2>5, <2>6
<1>2. IInv /\ [Next]_vars => [Keyed => (lastKey' = "none" <=> InTime)]_vars BY <1>1
<1> QED BY <1>2, Invariance, PTL DEF Spec, WindowKept

-----------------------------------------------------------------------------
(* The interrupt controller.  Of a source in level mode nothing is owed.     *)

OwedPending == owed \subseteq pending_q \cap mode_q

\* No clear that races an edge and no change of the mode of another source
\* takes the edge away: what is owed is pending.
THEOREM EdgesKept == Irqs!Spec => []EdgeKept
<1>1. Irqs!Init => OwedPending
    BY DEF Irqs!Init, OwedPending
<1>2. ASSUME OwedPending, [Irqs!Next]_(Irqs!vars)
      PROVE  OwedPending'
    <2>1. ASSUME NEW cleared, NEW mode, Irqs!Edge(cleared, mode), mode_q' = mode
          PROVE  OwedPending'
        BY <1>2, <2>1 DEF OwedPending, Irqs!Edge, Irqs!PendingNext, Irqs!SetBits
    <2>2. CASE Irqs!Next
        BY <2>1, <2>2 DEF Irqs!Next, Irqs!Idle, Irqs!WritePending, Irqs!WriteEnable,
                          Irqs!WriteMode, Irqs!WriteMsip, Irqs!cfgVars
    <2>3. CASE UNCHANGED Irqs!vars
        BY <1>2, <2>3 DEF OwedPending, Irqs!vars, Irqs!cfgVars
    <2> QED BY <1>2, <2>2, <2>3
<1>3. OwedPending => EdgeKept
    BY DEF OwedPending, EdgeKept, Irqs!EdgeKept
<1> QED BY <1>1, <1>2, <1>3, PTL DEF Irqs!Spec

-----------------------------------------------------------------------------
(* The conversions.                                                         *)

\* The converter is at work and the sequencer does not wait for that channel.
ForNobody == adc # Ams!None /\ ~(state_q = "WAIT" /\ adc = ch_q)

\* A result goes to the channel it was converted for, unless a conversion was
\* abandoned and the converter is still at it.
THEOREM ResultsOwn == Ams!Spec => []ResultOwn
<1> DEFINE NobodyIfAbandoned == ForNobody => abandoned
<1>1. Ams!Init => NobodyIfAbandoned
    BY DEF Ams!Init, ForNobody
<1>2. ASSUME NobodyIfAbandoned, NEW valid \in BOOLEAN, NEW bad \in BOOLEAN,
             Ams!Sequence(valid, bad)
      PROVE  NobodyIfAbandoned'
    <2> USE DEF Ams!Starts, Ams!ChSelected, Ams!ConvEnds, Ams!ConvDone, Ams!ConvTimeout,
                Ams!Skips, Ams!SeqTrigger
    <2>1. /\ Ams!Converter(valid) /\ state_q' = Ams!StateNext(valid)
          /\ ch_q' = Ams!ChNext(valid)
          /\ abandoned' <=> (Ams!Abandons(valid) \/ (abandoned /\ adc' # Ams!None))
        BY <1>2 DEF Ams!Sequence
    <2>2. SUFFICES ASSUME ForNobody', ~Ams!Abandons(valid)
                   PROVE  abandoned
        BY <2>1 DEF ForNobody
    <2>3. adc' # Ams!None /\ ~(state_q' = "WAIT" /\ adc' = ch_q')
        BY <2>2 DEF ForNobody, Ams!None
    <2>4. CASE Ams!Starts
        <3>1. seq_en_q
            BY <2>2, <2>4 DEF Ams!Abandons
        <3>2. state_q' = "WAIT" /\ ch_q' = ch_q
            BY <2>1, <2>4, <3>1 DEF Ams!StateNext, Ams!ChNext
        <3>3. adc' = adc
            BY <2>1, <2>3, <2>4, <3>2 DEF Ams!Converter
        <3>4. ForNobody
            BY <2>3, <2>4, <3>3 DEF ForNobody, Ams!None
        <3> QED BY <1>2, <3>4
    <2>5. CASE ~Ams!Starts
        <3>1. adc' = adc /\ ~valid
            BY <2>1, <2>3, <2>5 DEF Ams!Converter
        <3>2. ASSUME state_q = "WAIT", adc = ch_q
              PROVE  FALSE
            <4>1. seq_en_q /\ to_cnt_q # 0
                BY <2>2, <3>1, <3>2 DEF Ams!Abandons
            <4>2. state_q' = "WAIT" /\ ch_q' = ch_q
                BY <2>1, <3>1, <3>2, <4>1 DEF Ams!StateNext, Ams!ChNext
            <4> QED BY <2>3, <3>1, <3>2, <4>2
        <3> QED BY <1>2, <2>3, <3>1, <3>2 DEF ForNobody
    <2> QED BY <2>4, <2>5
<1>3. ASSUME NobodyIfAbandoned, [Ams!Next]_(Ams!vars)
      PROVE  NobodyIfAbandoned'
    <2>1. CASE Ams!Next
        BY <1>2, <1>3, <2>1 DEF Ams!Next
    <2>2. CASE UNCHANGED Ams!vars
        BY <1>3, <2>2 DEF Ams!vars, Ams!seqVars, ForNobody, Ams!None
    <2> QED BY <1>3, <2>1, <2>2
<1>4. NobodyIfAbandoned => ResultOwn
    BY DEF ForNobody, ResultOwn, Ams!ResultOwn
<1> QED BY <1>1, <1>3, <1>4, PTL DEF Ams!Spec

-----------------------------------------------------------------------------
(* The lockstep comparator.  A past is the states an undisturbed core went   *)
(* through, past[s] the one it was in s edges ago; k edges of it are after   *)
(* the reset.  The checker is in the oldest of them.                         *)

IsPast(past, k) ==
    /\ k \in 0..Delay /\ (~rst_ni => k = 0)
    /\ DOMAIN past = 0..Delay /\ past[0] = ideal.state
    /\ \A s \in 1..Delay : rst_pipe_q[s] <=> s <= k
    /\ \A s \in 1..k : /\ past[s - 1] = StepTo[<<past[s], in_pipe_q[s]>>]
                       /\ ideal.outs[s] = Out[<<past[s], in_pipe_q[s]>>]
    /\ k < Delay => past[k] = Reset /\ checker = Reset /\ struck # "checker"
    /\ k = Delay /\ struck # "checker" => checker = past[Delay]

InStep ==
    /\ \E past, k : IsPast(past, k)
    /\ struck # "main" => main = ideal.state /\ out_pipe_q = ideal.outs
    /\ struck \in {"none", "main", "checker"}

LEMMA InStepAtEdges ==
    ASSUME Cores!LockstepAssumption, InStep, Cores!ClkEdge
    PROVE  InStep'
<1>1. PICK past, k : IsPast(past, k)
    BY DEF InStep
<1>2. Delay \in Nat /\ Delay >= 1 /\ k \in 0..Delay
    BY <1>1 DEF Cores!LockstepAssumption, IsPast
<1>3. Cores!CheckRstN <=> k = Delay
    BY <1>1, <1>2 DEF Cores!CheckRstN, Cores!ClkEdge, IsPast
<1>4. PICK next, l :
        /\ next = [s \in 0..Delay |-> IF s = 0 THEN StepTo[<<past[0], in_vec>>]
                                               ELSE past[s - 1]]
        /\ l = IF k < Delay THEN k + 1 ELSE k
    OBVIOUS
<1>5. IsPast(next, l)'
    <2>1. l \in 1..Delay /\ rst_ni' = TRUE /\ DOMAIN next = 0..Delay
        BY <1>2, <1>4 DEF Cores!ClkEdge
    <2>2. next[0] = (ideal.state)'
        BY <1>1, <1>2, <1>4 DEF Cores!ClkEdge, IsPast
    <2>3. \A s \in 1..Delay : rst_pipe_q'[s] <=> s <= l
        <3> SUFFICES ASSUME NEW s \in 1..Delay
                     PROVE  rst_pipe_q'[s] <=> s <= l
            OBVIOUS
        <3>1. rst_pipe_q'[s] = IF s = 1 THEN TRUE ELSE rst_pipe_q[s - 1]
            BY DEF Cores!ClkEdge, Cores!Shift
        <3>2. CASE s = 1
            BY <2>1, <3>1, <3>2
        <3>3. CASE s # 1
            <4>1. s - 1 \in 1..Delay /\ (s - 1 <= k <=> s <= l)
                BY <1>2, <1>4, <3>3
            <4>2. rst_pipe_q[s - 1] <=> s - 1 <= k
                BY <1>1, <4>1 DEF IsPast
            <4> QED BY <3>1, <3>3, <4>1, <4>2
        <3> QED BY <3>2, <3>3
    <2>4. ASSUME NEW s \in 1..l
          PROVE  /\ next[s - 1] = StepTo[<<next[s], in_pipe_q'[s]>>]
                 /\ (ideal.outs)'[s] = Out[<<next[s], in_pipe_q'[s]>>]
        <3>1. /\ in_pipe_q' = [r \in 1..Delay |-> IF r = 1 THEN in_vec ELSE in_pipe_q[r - 1]]
              /\ (ideal.outs)' = [r \in 1..Delay |-> IF r = 1 THEN Out[<<past[0], in_vec>>]
                                                             ELSE ideal.outs[r - 1]]
            BY <1>1 DEF Cores!ClkEdge, Cores!Shift, IsPast
        <3>2. s \in 1..Delay /\ next[s] = past[s - 1]
            BY <1>2, <1>4, <2>1
        <3>3. CASE s = 1
            BY <1>2, <1>4, <3>1, <3>2, <3>3
        <3>4. CASE s # 1
            <4>1. s - 1 \in 1..k /\ next[s - 1] = past[s - 2]
                BY <1>2, <1>4, <3>2, <3>4
            <4>2. /\ past[s - 2] = StepTo[<<past[s - 1], in_pipe_q[s - 1]>>]
                  /\ ideal.outs[s - 1] = Out[<<past[s - 1], in_pipe_q[s - 1]>>]
                BY <1>1, <4>1 DEF IsPast
            <4> QED BY <3>1, <3>2, <3>4, <4>1, <4>2
        <3> QED BY <3>3, <3>4
    <2>5. k < Delay => next[l] = Reset /\ checker' = Reset /\ struck' # "checker"
        BY <1>1, <1>2, <1>3, <1>4 DEF IsPast, Cores!ClkEdge
    <2>6. k = Delay /\ struck' # "checker" => checker' = next[Delay]
        BY <1>1, <1>2, <1>3, <1>4 DEF IsPast, Cores!ClkEdge
    <2>7. l < Delay => k < Delay /\ next[l] = Reset /\ checker' = Reset /\ struck' # "checker"
        BY <1>2, <1>4, <2>5
    <2>8. l = Delay /\ struck' # "checker" => checker' = next[Delay]
        BY <1>2, <1>4, <2>5, <2>6
    <2>9. l \in 0..Delay /\ (~rst_ni' => l = 0)
        BY <1>2, <1>4, <2>1
    <2> QED BY <2>1, <2>2, <2>3, <2>4, <2>7, <2>8, <2>9 DEF IsPast
<1>6. struck' # "main" => main' = (ideal.state)' /\ out_pipe_q' = (ideal.outs)'
    BY DEF InStep, Cores!ClkEdge, Cores!MainOut
<1> QED BY <1>5, <1>6 DEF InStep, Cores!ClkEdge

LEMMA InStepKept ==
    ASSUME Cores!LockstepAssumption, InStep, [Cores!Next]_(Cores!vars)
    PROVE  InStep'
<1>1. PICK past, k : IsPast(past, k)
    BY DEF InStep
<1>2. CASE Cores!ClkEdge
    BY <1>2, InStepAtEdges
<1>3. CASE Cores!Release \/ UNCHANGED Cores!vars
    <2>1. IsPast(past, k)'
        BY <1>1, <1>3 DEF IsPast, Cores!Release, Cores!vars
    <2> QED BY <1>3, <2>1 DEF InStep, Cores!Release, Cores!vars
<1>4. CASE Cores!Assert
    <2>1. IsPast([s \in 0..Delay |-> Reset], 0)'
        BY <1>4 DEF IsPast, Cores!Assert, Cores!NoPast, Cores!Zeros, Cores!LockstepAssumption
    <2> QED BY <1>4, <2>1 DEF InStep, Cores!Assert, Cores!NoPast
<1>5. ASSUME NEW core \in {"main", "checker"}, NEW s \in State, Cores!Upset(core, s)
      PROVE  InStep'
    <2>1. core = "checker" => k = Delay
        BY <1>1, <1>5 DEF IsPast, Cores!Upset, Cores!CheckRstN, Cores!LockstepAssumption
    <2>2. IsPast(past, k)'
        BY <1>1, <1>5, <2>1 DEF IsPast, Cores!Upset, Cores!LockstepAssumption
    <2> QED BY <1>5, <2>2 DEF InStep, Cores!Upset
<1> QED BY <1>2, <1>3, <1>4, <1>5 DEF Cores!Next

\* After every reset nothing but a self test or a wrong output is reported,
\* and every wrong output of either core is, for every core and every delay.
THEOREM MismatchIsExact ==
    ASSUME Cores!LockstepAssumption
    PROVE  Cores!Spec => []MismatchExact
<1>1. Cores!Init => InStep
    <2> SUFFICES ASSUME Cores!Init PROVE InStep
        OBVIOUS
    <2>1. IsPast([s \in 0..Delay |-> Reset], 0)
        BY DEF IsPast, Cores!Init, Cores!NoPast, Cores!Zeros, Cores!LockstepAssumption
    <2> QED BY <2>1 DEF InStep, Cores!Init, Cores!NoPast
<1>2. InStep /\ [Cores!Next]_(Cores!vars) => InStep'
    BY InStepKept
<1>3. InStep => MismatchExact
    <2> SUFFICES ASSUME InStep, Cores!CheckRstN, ~inj_en, NEW past, NEW k, IsPast(past, k)
                 PROVE  MismatchExact
        BY DEF InStep, MismatchExact, Cores!MismatchExact
    <2>1. Delay \in Nat /\ Delay >= 1 /\ k = Delay
        BY DEF IsPast, Cores!CheckRstN, Cores!LockstepAssumption
    <2>2. ideal.outs[Delay] = Out[<<past[Delay], in_pipe_q[Delay]>>]
        BY <2>1 DEF IsPast
    <2>3. struck # "checker" => Cores!CheckOut = ideal.outs[Delay]
        BY <2>1, <2>2 DEF IsPast, Cores!CheckOut
    <2>4. struck # "main" => out_pipe_q[Delay] = ideal.outs[Delay]
        BY DEF InStep
    <2>5. Cores!FaultLockstep <=> Cores!CheckOut # out_pipe_q[Delay]
        <3>1. Cores!CompareVec # <<out_pipe_q[Delay], FALSE>> <=>
                  Cores!CheckOut # out_pipe_q[Delay] \/ inj_en # FALSE
            BY DEF Cores!CompareVec
        <3>2. inj_en = FALSE
            OBVIOUS
        <3> QED BY <3>1, <3>2 DEF Cores!FaultLockstep
    <2>6. struck \in {"none", "main", "checker"}
        BY DEF InStep
    <2> HIDE DEF Cores!CheckOut
    <2> QED BY <2>3, <2>4, <2>5, <2>6 DEF MismatchExact, Cores!MismatchExact
<1> QED BY <1>1, <1>2, <1>3, PTL DEF Cores!Spec

-----------------------------------------------------------------------------
(* The timer.  The two writes before the last leave the comparator beyond    *)
(* the old deadline or beyond the new one, and the last is the new one.      *)

Ones == (Base - 1) * Base     \* all ones in the high half

DeadlineTypes ==
    /\ mtime_q \in Int /\ mtimecmp_q \in Nat
    /\ deadline \in Timer!Time /\ former \in Timer!Time

Steps(t) == << <<"high", Base - 1>>, <<"low", Timer!Low(t)>>, <<"high", Timer!High(t)>> >>

DeadlineStage ==
    \/ todo = << >> /\ mtimecmp_q = deadline /\ former = deadline
    \/ todo = Steps(deadline) /\ mtimecmp_q = former
    \/ /\ todo = Tail(Steps(deadline))
       /\ mtimecmp_q = Ones + Timer!Low(former)
    \/ /\ todo = Tail(Tail(Steps(deadline)))
       /\ mtimecmp_q = Ones + Timer!Low(deadline)

\* A time is its two halves, and none lies beyond one with all ones above.
LEMMA Halves ==
    ASSUME Base \in Nat \ {0}, NEW t \in Timer!Time
    PROVE  /\ t = Timer!High(t) * Base + Timer!Low(t)
           /\ Timer!High(t) \in 0..Base - 1 /\ Timer!Low(t) \in 0..Base - 1
           /\ t <= Ones + Timer!Low(t)
<1>1. t \in Nat /\ t < Base * Base /\ Base * Base \in Nat
    BY DEF Timer!Time
<1> DEFINE h == t \div Base
           l == t % Base
<1>2. t = Base * h + l /\ h \in Nat /\ l \in 0..Base - 1
    BY <1>1
<1> HIDE DEF h, l
<1>3. Base * h = h * Base
    BY <1>2
<1>4. h <= Base - 1
    <2>1. SUFFICES ASSUME h >= Base PROVE FALSE
        BY <1>2
    <2>2. Base * h >= Base * Base
        BY <1>2, <2>1
    <2> QED BY <1>1, <1>2, <2>2
<1>5. h * Base <= (Base - 1) * Base
    BY <1>2, <1>4
<1> QED BY <1>2, <1>3, <1>4, <1>5 DEF h, l, Ones, Timer!High, Timer!Low

LEMMA DivisionUnique ==
    ASSUME NEW b \in Nat \ {0}, NEW q \in Int, NEW r \in 0..b - 1,
           NEW h \in Int, NEW l \in 0..b - 1, b * q + r = h * b + l
    PROVE  q = h /\ r = l
<1> DEFINE d == q - h
<1>1. d \in Int /\ b * d = l - r
    <2>1. b * (q - h) = b * q - h * b
        OBVIOUS
    <2> QED BY <2>1
<1> HIDE DEF d
<1>2. d = 0
    <2>1. CASE d >= 1
        <3>1. b * d >= b BY <1>1, <2>1
        <3> QED BY <1>1, <3>1
    <2>2. CASE d <= -1
        <3>1. b * d <= -b BY <1>1, <2>2
        <3> QED BY <1>1, <3>1
    <2> QED BY <1>1, <2>1, <2>2
<1>3. b * d = 0
    BY <1>2
<1>4. r = l
    BY <1>1, <1>3
<1> QED BY <1>2, <1>4 DEF d

\* Writing one half of a comparator keeps the other.
LEMMA HalfWritten ==
    ASSUME Base \in Nat \ {0}, NEW h \in 0..Base - 1, NEW l \in 0..Base - 1
    PROVE  /\ Timer!High(h * Base + l) = h
           /\ Timer!Low(h * Base + l) = l
<1>1. PICK c \in Nat : c = h * Base + l
    OBVIOUS
<1>2. /\ c \div Base \in Int /\ c % Base \in 0..Base - 1
      /\ Base * (c \div Base) + (c % Base) = c
    OBVIOUS
<1>3. c \div Base = h /\ c % Base = l
    BY <1>1, <1>2, DivisionUnique
<1> QED BY <1>1, <1>3 DEF Timer!High, Timer!Low

LEMMA DeadlineWritten ==
    ASSUME Base \in Nat \ {0}, DeadlineTypes, DeadlineStage, Timer!WriteCmp
    PROVE  DeadlineStage' /\ mtimecmp_q' \in Nat /\ former' \in Timer!Time
<1> DEFINE low(t) == Timer!Low(t)
           s == Steps(deadline)
<1>1. /\ s # << >> /\ Head(s) = <<"high", Base - 1>> /\ Len(s) # 1
      /\ Tail(s) # << >> /\ Head(Tail(s)) = <<"low", low(deadline)>> /\ Len(Tail(s)) # 1
      /\ Tail(Tail(s)) # << >> /\ Head(Tail(Tail(s))) = <<"high", Timer!High(deadline)>>
      /\ Len(Tail(Tail(s))) = 1 /\ Tail(Tail(Tail(s))) = << >>
    BY DEF Steps
<1>2. /\ low(former) \in 0..Base - 1 /\ low(deadline) \in 0..Base - 1
      /\ Timer!High(deadline) \in 0..Base - 1 /\ Base - 1 \in 0..Base - 1
      /\ deadline = Timer!High(deadline) * Base + low(deadline)
    BY Halves DEF DeadlineTypes
<1>3. /\ todo # << >> /\ todo' = Tail(todo) /\ deadline' = deadline
      /\ mtimecmp_q' = Timer!Written(mtimecmp_q, Head(todo))
      /\ former' = IF Len(todo) = 1 THEN deadline ELSE former
    BY DEF Timer!WriteCmp
<1>4. former' \in Timer!Time
    BY <1>3 DEF DeadlineTypes
<1>5. Ones \in Nat /\ Timer!Time \subseteq Nat
    BY DEF Ones, Timer!Time
<1>6. /\ Timer!Written(mtimecmp_q, <<"high", Base - 1>>) = Ones + low(mtimecmp_q)
      /\ Timer!Written(mtimecmp_q, <<"low", low(deadline)>>)
            = Timer!High(mtimecmp_q) * Base + low(deadline)
      /\ Timer!Written(mtimecmp_q, <<"high", Timer!High(deadline)>>)
            = Timer!High(deadline) * Base + low(mtimecmp_q)
    BY DEF Timer!Written, Timer!WithHigh, Timer!WithLow, Ones
<1> HIDE DEF low, s
<1>7. CASE todo = s /\ mtimecmp_q = former
    <2>1. mtimecmp_q' = Ones + low(former) /\ former' = former /\ todo' = Tail(s)
        BY <1>1, <1>3, <1>6, <1>7, Zenon
    <2> QED BY <1>2, <1>3, <1>4, <1>5, <2>1, SMTT(30) DEF DeadlineStage, s, low
<1>8. CASE todo = Tail(s) /\ mtimecmp_q = Ones + low(former)
    <2>1. Timer!High(mtimecmp_q) = Base - 1
        BY <1>2, <1>8, HalfWritten DEF Ones, low
    <2>2. mtimecmp_q' = Ones + low(deadline) /\ todo' = Tail(Tail(s)) /\ former' = former
        BY <1>1, <1>3, <1>6, <1>8, <2>1, Zenon DEF Ones
    <2>3. DeadlineStage'
        BY <1>3, <2>2 DEF DeadlineStage, s, low
    <2> QED BY <1>2, <1>4, <1>5, <2>2, <2>3
<1>9. CASE todo = Tail(Tail(s)) /\ mtimecmp_q = Ones + low(deadline)
    <2>1. Timer!Low(mtimecmp_q) = low(deadline)
        BY <1>2, <1>9, HalfWritten DEF Ones, low
    <2>2. mtimecmp_q' = Timer!High(deadline) * Base + low(deadline)
          /\ todo' = << >> /\ former' = deadline
        BY <1>1, <1>3, <1>6, <1>9, <2>1, Zenon DEF low
    <2> QED BY <1>2, <1>3, <1>4, <1>5, <2>2 DEF DeadlineStage, DeadlineTypes
<1> QED BY <1>3, <1>7, <1>8, <1>9 DEF DeadlineStage, s, low

LEMMA DeadlineInvariant ==
    ASSUME Timer!ClintAssumption, Order = "guarded", DeadlineTypes, DeadlineStage,
           [Timer!Next]_(Timer!vars)
    PROVE  DeadlineTypes' /\ DeadlineStage'
<1>1. Base \in Nat \ {0} /\ Base * Base \in Nat \ {0} /\ TimeWrites \subseteq 0..Base - 1
    BY DEF Timer!ClintAssumption
<1>2. Timer!TimeNext \in Int
    BY <1>1 DEF Timer!TimeNext, DeadlineTypes
<1>3. CASE Timer!FreeRun /\ UNCHANGED <<mtimecmp_q, Timer!Software>>
    BY <1>2, <1>3 DEF Timer!FreeRun, Timer!Software, DeadlineTypes, DeadlineStage, Steps
<1>4. ASSUME NEW half \in {"high", "low"}, NEW v \in TimeWrites, Timer!WriteTime(half, v)
      PROVE  DeadlineTypes' /\ DeadlineStage'
    <2>1. mtime_q' \in Int
        BY <1>1, <1>2, <1>4
        DEF Timer!WriteTime, Timer!Written, Timer!WithHigh, Timer!WithLow, Timer!High, Timer!Low
    <2> QED BY <1>4, <2>1 DEF Timer!WriteTime, Timer!Software, DeadlineTypes, DeadlineStage, Steps
<1>5. ASSUME NEW t \in Timer!Time, Timer!Choose(t)
      PROVE  DeadlineTypes' /\ DeadlineStage'
    <2>1. /\ todo = << >> /\ todo' = Steps(t) /\ former' = deadline /\ deadline' = t
          /\ mtimecmp_q' = mtimecmp_q /\ mtime_q' = Timer!TimeNext
        BY <1>5 DEF Timer!Choose, Timer!DeadlineWrites, Timer!FreeRun, Steps
    <2>2. mtimecmp_q = deadline
        BY <2>1 DEF DeadlineStage, Steps
    <2> QED BY <1>2, <2>1, <2>2 DEF DeadlineTypes, DeadlineStage, Steps
<1>6. CASE Timer!WriteCmp
    BY <1>1, <1>2, <1>6, DeadlineWritten DEF Timer!WriteCmp, Timer!FreeRun, DeadlineTypes
<1>7. CASE UNCHANGED Timer!vars
    BY <1>7 DEF Timer!vars, DeadlineTypes, DeadlineStage, Steps
<1> QED BY <1>3, <1>4, <1>5, <1>6, <1>7
        DEF Timer!Next, Timer!Idle, Timer!WriteMsip, Timer!WritePresc, Timer!Prescaled

\* Software that moves its deadline in the order the timer documents sees no
\* interrupt before the old deadline or the new one, whatever the time does.
THEOREM GuardedOrderIsQuiet ==
    ASSUME Timer!ClintAssumption, Order = "guarded"
    PROVE  Timer!Spec => []NoSpuriousTimer
<1>1. Timer!Init => DeadlineTypes /\ DeadlineStage
    <2>1. Base * Base \in Nat \ {0}
        BY DEF Timer!ClintAssumption
    <2> QED BY <2>1 DEF Timer!Init, DeadlineTypes, DeadlineStage, Timer!Time
<1>2. DeadlineTypes /\ DeadlineStage /\ [Timer!Next]_(Timer!vars)
          => (DeadlineTypes /\ DeadlineStage)'
    BY DeadlineInvariant
<1>3. DeadlineTypes /\ DeadlineStage => NoSpuriousTimer
    <2> SUFFICES ASSUME DeadlineTypes, DeadlineStage PROVE NoSpuriousTimer
        OBVIOUS
    <2>1. former <= Ones + Timer!Low(former) /\ deadline <= Ones + Timer!Low(deadline)
        BY Halves DEF DeadlineTypes, Timer!ClintAssumption
    <2>2. mtimecmp_q >= former \/ mtimecmp_q >= deadline
        BY <2>1 DEF DeadlineStage, DeadlineTypes, Timer!Time
    <2> QED BY <2>2 DEF DeadlineTypes, Timer!Time, NoSpuriousTimer, Timer!NoSpuriousTimer,
                       Timer!IrqTimer
<1> QED BY <1>1, <1>2, <1>3, PTL DEF Timer!Spec

-----------------------------------------------------------------------------
(* The memory self test.  An element of the march reads Old and writes New,  *)
(* and has Seen the addresses it has left behind.                            *)

Addr == March!Addr
Seen == {x \in Addr : IF March!ElemDown THEN x > addr_q ELSE x < addr_q}
Old == IF elem_q \in {2, 4} THEN 1 ELSE 0
New == IF elem_q \in {1, 3} THEN 1 ELSE 0

\* The word x is as the march left it.
Holding(x) ==
    /\ x \in Seen => mem[x] = New
    /\ elem_q # 0 /\ x \notin Seen => mem[x] = Old

\* Element e has still to read x.
ToRead(e, x) == elem_q < e \/ (elem_q = e /\ x \notin Seen /\ ~(addr_q = x /\ op_q = 1))

Position ==
    /\ march_q \in {"EXEC", "CAPTURE"}
    /\ elem_q \in 0..5 /\ op_q \in {0, 1} /\ addr_q \in Addr
    /\ op_q = 1 => elem_q \in 1..4
    /\ march_q = "CAPTURE" => ~March!OpIsWrite /\ rdata = mem[March!Selected(addr_q)]

\* The steps of a test that goes on: a word is fetched; it is compared; or the
\* march leaves the address, for the next one or for the next element.
Judged ==
    /\ fail_q' <=> (fail_q \/ rdata # Old)
    /\ fail_addr_q' = IF ~fail_q /\ rdata # Old THEN addr_q ELSE fail_addr_q
Fetch ==
    /\ march_q = "EXEC" /\ march_q' \in {"CAPTURE", "IDLE"}
    /\ UNCHANGED <<elem_q, op_q, addr_q, mem, fail_q, fail_addr_q>>
    /\ rdata' = mem[March!Selected(addr_q)]
Compare ==
    /\ march_q = "CAPTURE" /\ march_q' \in {"EXEC", "IDLE"}
    /\ elem_q \in 1..4 /\ op_q = 0 /\ op_q' = 1
    /\ UNCHANGED <<elem_q, addr_q, mem>> /\ Judged
Leave ==
    /\ op_q' = 0 /\ addr_q' \in Addr /\ addr_q \notin Seen
    /\ \/ elem_q' = elem_q /\ Seen' = Seen \cup {addr_q}
       \/ elem_q' = elem_q + 1 /\ Seen' = {} /\ Seen \cup {addr_q} = Addr
    /\ \/ /\ march_q = "EXEC" /\ elem_q # 5 /\ (elem_q = 0 \/ op_q = 1)
          /\ mem' = March!Stored(addr_q, New) /\ UNCHANGED <<fail_q, fail_addr_q>>
       \/ march_q = "CAPTURE" /\ elem_q = 5 /\ mem' = mem /\ Judged
    /\ \/ march_q' \in {"EXEC", "IDLE"} /\ (march_q' = "EXEC" => elem_q' \in 0..5)
       \/ march_q' = "DONE" /\ elem_q' = 6

LEMMA Leaving ==
    ASSUME March!MbistAssumption, Position, ~start_q, March!Advance, March!LastOp, March!Walk
    PROVE  /\ op_q' = 0 /\ addr_q' \in Addr /\ addr_q \notin Seen
           /\ ~March!LastAddr => elem_q' = elem_q /\ Seen' = Seen \cup {addr_q}
           /\ March!LastAddr => elem_q' = elem_q + 1 /\ Seen' = {} /\ Seen \cup {addr_q} = Addr
<1>1. Depth \in Nat /\ Depth >= 2 /\ Addr = 0..Depth - 1 /\ addr_q \in 0..Depth - 1
      /\ elem_q \in 0..5
    BY DEF March!MbistAssumption, Position, Addr, March!Addr
<1>2. /\ op_q' = 0
      /\ elem_q' = IF March!LastAddr THEN elem_q + 1 ELSE elem_q
      /\ addr_q' = IF March!LastAddr THEN (IF elem_q \in {2, 3} THEN Depth - 1 ELSE 0)
                   ELSE IF March!ElemDown THEN addr_q - 1 ELSE addr_q + 1
    BY DEF March!Walk
<1>3. addr_q \notin Seen
    BY <1>1 DEF Seen
<1>4. CASE ~March!LastAddr
    <2>1. elem_q' = elem_q /\ addr_q' \in Addr
        BY <1>1, <1>2, <1>4 DEF March!LastAddr
    <2>2. Seen' = Seen \cup {addr_q}
        <3>1. CASE March!ElemDown
            BY <1>1, <1>2, <1>4, <2>1, <3>1 DEF Seen, March!ElemDown
        <3>2. CASE ~March!ElemDown
            BY <1>1, <1>2, <1>4, <2>1, <3>2 DEF Seen, March!ElemDown
        <3> QED BY <3>1, <3>2
    <2> QED BY <1>2, <1>3, <1>4, <2>1, <2>2
<1>5. CASE March!LastAddr
    <2>1. elem_q' = elem_q + 1 /\ addr_q' = (IF elem_q \in {2, 3} THEN Depth - 1 ELSE 0)
        BY <1>2, <1>5
    <2>2. Seen' = {}
        BY <1>1, <2>1 DEF Seen, March!ElemDown, Addr, March!Addr
    <2>3. Seen \cup {addr_q} = Addr
        BY <1>1, <1>5 DEF March!LastAddr, Seen
    <2> QED BY <1>1, <1>2, <1>3, <1>5, <2>1, <2>2, <2>3
<1> QED BY <1>4, <1>5

LEMMA TestSteps ==
    ASSUME March!MbistAssumption, Position, ~start_q, March!Sequence
    PROVE  Fetch \/ Compare \/ Leave
<1> USE DEF Position
<1>1. /\ march_q' = March!StateNext /\ March!Walk /\ March!Check /\ March!Port
    BY DEF March!Sequence
<1>2. /\ ~March!OpIsWrite => March!OpData = Old
      /\ March!OpIsWrite => March!OpData = New /\ elem_q # 5 /\ March!LastOp
    BY DEF March!OpIsWrite, March!OneOp, March!OpData, Old, New, March!LastOp
<1>3. CASE march_q = "EXEC" /\ ~March!OpIsWrite
    <2>1. ~March!Advance /\ ~March!Ends /\ ~March!Mismatch /\ March!Busy
        BY <1>3 DEF March!Advance, March!Ends, March!Mismatch, March!Busy
    <2> QED BY <1>1, <1>3, <2>1
            DEF Fetch, March!StateNext, March!Walk, March!marchVars, March!Check, March!Port
<1>4. ASSUME march_q = "CAPTURE"
      PROVE  Judged /\ mem' = mem /\ March!Advance
    <2>1. ~March!OpIsWrite
        BY <1>4
    <2>2. March!Mismatch <=> ~fail_q /\ rdata # Old
        BY <1>2, <1>4, <2>1 DEF March!Mismatch
    <2>3. mem' = mem /\ March!Advance
        BY <1>1, <1>4 DEF March!Port, March!Advance
    <2> QED BY <1>1, <2>2, <2>3 DEF Judged, March!Check
<1>5. CASE march_q = "CAPTURE" /\ ~March!LastOp
    <2>1. elem_q \in 1..4 /\ op_q = 0 /\ ~March!Ends
        BY <1>5 DEF March!LastOp, March!OneOp, March!Ends
    <2>2. op_q' = 1 /\ UNCHANGED <<elem_q, addr_q>>
        BY <1>1, <1>4, <1>5 DEF March!Walk
    <2>3. march_q' \in {"EXEC", "IDLE"}
        BY <1>1, <1>5, <2>1 DEF March!StateNext
    <2> QED BY <1>4, <1>5, <2>1, <2>2, <2>3 DEF Compare
<1>6. CASE march_q = "CAPTURE" /\ March!LastOp
    <2>1. elem_q = 5
        BY <1>6 DEF March!LastOp, March!OneOp, March!OpIsWrite
    <2>2. IF March!LastAddr THEN march_q' = "DONE" ELSE march_q' \in {"EXEC", "IDLE"}
        BY <1>1, <1>4, <1>6, <2>1 DEF March!StateNext, March!Ends
    <2> QED BY <1>1, <1>4, <1>6, <2>1, <2>2, Leaving DEF Leave
<1>7. CASE march_q = "EXEC" /\ March!OpIsWrite
    <2>1. March!Advance /\ ~March!Ends /\ ~March!Mismatch
        BY <1>2, <1>7 DEF March!Advance, March!Ends, March!Mismatch
    <2>2. elem_q = 0 \/ op_q = 1
        BY <1>7 DEF March!OpIsWrite, March!OneOp
    <2>3. mem' = March!Stored(addr_q, New) /\ UNCHANGED <<fail_q, fail_addr_q>>
        BY <1>1, <1>2, <1>7, <2>1 DEF March!Port, March!Check
    <2>4. march_q' \in {"EXEC", "IDLE"}
        BY <1>1, <1>7, <2>1 DEF March!StateNext
    <2> QED BY <1>1, <1>2, <1>7, <2>1, <2>2, <2>3, <2>4, Leaving DEF Leave
<1> QED BY <1>3, <1>5, <1>6, <1>7

LEMMA PositionKept ==
    ASSUME Position, Fetch \/ Compare \/ Leave, fault' = fault,
           march_q' \in {"EXEC", "CAPTURE"}, march_q' = "CAPTURE" => ~March!OpIsWrite
    PROVE  Position'
<1>1. CASE Fetch
    BY <1>1 DEF Fetch, Position, Addr, March!Addr, March!Selected, March!OpIsWrite, March!OneOp
<1>2. CASE Compare
    BY <1>2 DEF Compare, Position, Addr, March!Addr
<1>3. CASE Leave
    BY <1>3 DEF Leave, Position, Addr, March!Addr
<1> QED BY <1>1, <1>2, <1>3

\* A word that is written as it should be, and nowhere else, holds what the
\* march left in it.
LEMMA HoldingKept ==
    ASSUME Position, NEW x \in Addr, Holding(x), Fetch \/ Compare \/ Leave,
           Leave => mem'[x] = IF x = addr_q THEN New ELSE mem[x]
    PROVE  Holding(x)'
<1>1. CASE Fetch \/ Compare
    BY <1>1 DEF Fetch, Compare, Holding, Seen, Old, New, March!ElemDown, Addr, March!Addr
<1>2. CASE Leave /\ elem_q' = elem_q /\ Seen' = Seen \cup {addr_q}
    BY <1>2 DEF Holding, Old, New
<1>3. CASE Leave /\ elem_q' = elem_q + 1 /\ Seen' = {} /\ Seen \cup {addr_q} = Addr
    <2>1. mem'[x] = New
        BY <1>3 DEF Holding
    <2>2. Old' = New
        BY <1>3 DEF Old, New, Position
    <2> QED BY <1>3, <2>1, <2>2 DEF Holding
<1> QED BY <1>1, <1>2, <1>3 DEF Leave

\* A word that holds what the march left in it is read so.
LEMMA HoldingRead ==
    ASSUME Position, Compare \/ (Leave /\ march_q = "CAPTURE"), Holding(addr_q),
           March!Selected(addr_q) = addr_q
    PROVE  rdata = Old
<1>1. addr_q \notin Seen /\ elem_q # 0
    BY DEF Compare, Leave, Position, Seen, Addr, March!Addr
<1>2. rdata = mem[addr_q]
    BY DEF Position, Compare
<1> QED BY <1>1, <1>2 DEF Holding

\* If element e reads x wrong the test has failed by the time it has read x.
LEMMA Detection ==
    ASSUME Position, NEW e \in 1..5, NEW x \in Addr, fail_q \/ ToRead(e, x),
           Fetch \/ Compare \/ Leave,
           march_q = "CAPTURE" /\ ~Fetch /\ elem_q = e /\ addr_q = x /\ ToRead(e, x)
               => rdata # Old
    PROVE  fail_q' \/ ToRead(e, x)'
<1>1. CASE Fetch
    BY <1>1 DEF Fetch, ToRead, Seen, March!ElemDown, Addr, March!Addr
<1>2. CASE Compare
    <2>1. SUFFICES ASSUME ~fail_q, rdata = Old PROVE ToRead(e, x)'
        BY <1>2 DEF Compare, Judged
    <2>2. ToRead(e, x) /\ ~(elem_q = e /\ addr_q = x)
        BY <1>2, <2>1 DEF Compare, Fetch
    <2> QED BY <1>2, <2>2 DEF Compare, ToRead, Seen, March!ElemDown, Addr, March!Addr
<1>3. CASE Leave
    <2>1. SUFFICES ASSUME ~fail_q, march_q = "CAPTURE" => rdata = Old
                   PROVE  ToRead(e, x)'
        BY <1>3 DEF Leave, Judged
    <2>2. ToRead(e, x)
        BY <2>1
    <2>3. ~(elem_q = e /\ addr_q = x)
        <3>1. CASE march_q = "CAPTURE"
            BY <1>3, <2>1, <2>2, <3>1 DEF Fetch
        <3>2. CASE march_q = "EXEC"
            BY <1>3, <2>2, <3>2 DEF Leave, ToRead
        <3> QED BY <3>1, <3>2 DEF Position
    <2>4. CASE elem_q' = elem_q /\ Seen' = Seen \cup {addr_q}
        BY <1>3, <2>2, <2>3, <2>4 DEF Leave, ToRead
    <2>5. CASE elem_q' = elem_q + 1 /\ Seen' = {} /\ Seen \cup {addr_q} = Addr
        <3>1. elem_q < e
            BY <2>2, <2>3, <2>5 DEF ToRead
        <3> QED BY <1>3, <2>5, <3>1 DEF Leave, ToRead, Position
    <2> QED BY <1>3, <2>4, <2>5 DEF Leave
<1> QED BY <1>1, <1>2, <1>3

-----------------------------------------------------------------------------
(* What the array holds during a test, and where the test fails, for each    *)
(* class of faults.                                                          *)

LEMMA Faults ==
    ASSUME fault \in March!ArrayFault
    PROVE  /\ fault.kind \in {"none", "stuck", "transition", "coupling", "address"}
           /\ fault.to \in {0, 1} /\ fault.edge \in {0, 1}
           /\ fault.kind # "none" => fault.at \in Addr /\ fault.by \in Addr
           /\ fault.kind \in {"coupling", "address"} => fault.by # fault.at
BY DEF March!ArrayFault, March!Fault, March!Bit, Addr

Sound == ~fail_q /\ \A x \in Addr : Holding(x)

LEMMA SoundKept ==
    ASSUME Position, fault.kind = "none", fault' = fault, Sound, Fetch \/ Compare \/ Leave
    PROVE  Sound'
<1>1. March!Selected(addr_q) = addr_q /\ addr_q \in Addr
    BY DEF March!Selected, Position
<1>2. ASSUME NEW x \in Addr
      PROVE  Holding(x)'
    <2>1. ASSUME Leave PROVE mem'[x] = IF x = addr_q THEN New ELSE mem[x]
        <3>1. CASE mem' = March!Stored(addr_q, New)
            BY <1>1, <3>1 DEF March!Stored, March!Holds, March!Couples, Addr
        <3>2. CASE mem' = mem /\ elem_q = 5
            BY <2>1, <3>2 DEF Sound, Holding, Old, New, Leave
        <3> QED BY <2>1, <3>1, <3>2 DEF Leave
    <2> QED BY <2>1, HoldingKept DEF Sound
<1>3. ~fail_q'
    <2>1. Compare \/ (Leave /\ march_q = "CAPTURE") => rdata = Old
        BY <1>1, HoldingRead DEF Sound
    <2> QED BY <2>1 DEF Sound, Fetch, Compare, Leave, Judged
<1> QED BY <1>2, <1>3 DEF Sound, Addr, March!Addr

\* A stuck cell is read wrong by the first element that expects the other value.
StuckIn ==
    /\ \A x \in Addr : x # fault.at => Holding(x)
    /\ mem[fault.at] = fault.to
    /\ fail_q => fail_addr_q = fault.at
    /\ fail_q \/ ToRead(2 - fault.to, fault.at)

LEMMA StuckInKept ==
    ASSUME Position, fault.kind = "stuck", fault' = fault, fault \in March!ArrayFault,
           StuckIn, Fetch \/ Compare \/ Leave
    PROVE  StuckIn'
<1>1. March!Selected(addr_q) = addr_q /\ addr_q \in Addr
      /\ fault.at \in Addr /\ fault.to \in {0, 1}
    BY Faults DEF March!Selected, Position
<1>2. ASSUME NEW x \in Addr, x # fault.at
      PROVE  Holding(x)'
    <2>1. ASSUME Leave PROVE mem'[x] = IF x = addr_q THEN New ELSE mem[x]
        <3>1. CASE mem' = March!Stored(addr_q, New)
            BY <1>1, <1>2, <3>1 DEF March!Stored, March!Holds, March!Couples, Addr
        <3>2. CASE mem' = mem /\ elem_q = 5
            BY <1>2, <2>1, <3>2 DEF StuckIn, Holding, Old, New, Leave
        <3> QED BY <2>1, <3>1, <3>2 DEF Leave
    <2> QED BY <1>2, <2>1, HoldingKept DEF StuckIn
<1>3. mem'[fault.at] = fault.to
    BY <1>1 DEF StuckIn, Fetch, Compare, Leave, March!Stored, March!Holds, March!Couples, Addr
<1>4. fail_q' => fail_addr_q' = fault.at
    <2>1. Compare \/ (Leave /\ march_q = "CAPTURE") => rdata = Old \/ addr_q = fault.at
        BY <1>1, HoldingRead DEF StuckIn
    <2> QED BY <2>1 DEF StuckIn, Fetch, Compare, Leave, Judged
<1>5. fail_q' \/ ToRead(2 - fault.to, fault.at)'
    <2>1. ASSUME march_q = "CAPTURE", elem_q = 2 - fault.to, addr_q = fault.at
          PROVE  rdata # Old
        BY <1>1, <2>1 DEF StuckIn, Position, Old
    <2>2. fail_q' \/ ToRead(2 - fault.to, fault.at)'
        BY <1>1, <2>1, Detection DEF StuckIn
    <2> QED BY <2>2
<1> QED BY <1>2, <1>3, <1>4, <1>5 DEF StuckIn, Addr, March!Addr

\* A cell that cannot change to a value has the other one for good once that
\* has been written.
Unmoved ==
    /\ elem_q > 1 - fault.to \/ (elem_q = 1 - fault.to /\ fault.at \in Seen)
            => mem[fault.at] = 1 - fault.to
    /\ fail_q \/ ToRead(3 - fault.to, fault.at)

LEMMA UnmovedKept ==
    ASSUME Position, fault.kind = "transition", fault' = fault, fault \in March!ArrayFault,
           Unmoved, Fetch \/ Compare \/ Leave
    PROVE  Unmoved'
<1>1. March!Selected(addr_q) = addr_q /\ addr_q \in Addr
      /\ fault.at \in Addr /\ fault.to \in {0, 1} /\ elem_q \in 0..5
    BY Faults DEF March!Selected, Position
<1> DEFINE Written ==
        elem_q > 1 - fault.to \/ (elem_q = 1 - fault.to /\ fault.at \in Seen)
<1>2. ASSUME Written' PROVE mem'[fault.at] = 1 - fault.to
    <2>1. CASE Fetch \/ Compare
        BY <1>2, <2>1 DEF Unmoved, Fetch, Compare, Seen, March!ElemDown, Addr, March!Addr
    <2>2. CASE Leave
        <3>1. Written \/ (elem_q = 1 - fault.to /\ addr_q = fault.at)
            BY <1>1, <1>2, <2>2 DEF Leave
        <3>2. CASE mem' = March!Stored(addr_q, New)
            <4>1. mem'[fault.at] = IF fault.at = addr_q /\ ~(New = fault.to /\ mem[fault.at] # New)
                                   THEN New ELSE mem[fault.at]
                BY <1>1, <3>2 DEF March!Stored, March!Holds, March!Couples, Addr
            <4> QED BY <1>1, <3>1, <4>1 DEF Unmoved, New
        <3>3. CASE mem' = mem /\ elem_q = 5
            BY <1>1, <3>1, <3>3 DEF Unmoved
        <3> QED BY <2>2, <3>2, <3>3 DEF Leave
    <2> QED BY <2>1, <2>2
<1>3. fail_q' \/ ToRead(3 - fault.to, fault.at)'
    <2>1. ASSUME march_q = "CAPTURE", elem_q = 3 - fault.to, addr_q = fault.at
          PROVE  rdata # Old
        BY <1>1, <2>1 DEF Unmoved, Position, Old
    <2> QED BY <1>1, <2>1, Detection DEF Unmoved
<1> QED BY <1>2, <1>3 DEF Unmoved

\* The element in which the changes of `by' reach `at' for the worse, and the
\* one that reads it: the same if it visits `by' first, else the next.
Below == fault.by < fault.at
Trigger == IF fault.edge = 1 THEN (IF Below <=> fault.to = 1 THEN 1 ELSE 3)
                             ELSE (IF Below <=> fault.to = 0 THEN 2 ELSE 4)
Forced ==
    \/ /\ elem_q = Trigger /\ fault.by \in Seen
       /\ fault.to = fault.edge => fault.at \notin Seen
    \/ fault.to # fault.edge /\ elem_q = Trigger + 1 /\ fault.at \notin Seen
Reveals == IF fault.to = fault.edge THEN Trigger ELSE Trigger + 1

Coupled ==
    /\ Holding(fault.by)
    /\ Forced => mem[fault.at] = fault.to
    /\ fail_q \/ ToRead(Reveals, fault.at)

LEMMA Triggers ==
    ASSUME Position, fault.kind = "coupling", fault \in March!ArrayFault,
           March!MbistAssumption
    PROVE  /\ Trigger \in 1..4 /\ Reveals \in 1..5
           /\ elem_q = Trigger => New = fault.edge /\ Old # fault.edge
           /\ elem_q = Trigger + 1 => Old = fault.edge
           /\ elem_q = Trigger + 1 /\ elem_q # 5 => New # fault.edge
           /\ elem_q = Trigger /\ addr_q = fault.at
                 => (fault.by \in Seen <=> fault.to = fault.edge)
<1>1. /\ fault.to \in {0, 1} /\ fault.edge \in {0, 1} /\ fault.at # fault.by
      /\ fault.at \in Addr /\ fault.by \in Addr
    BY Faults
<1>2. Trigger \in 1..4 /\ Reveals \in 1..5
    BY <1>1 DEF Trigger, Reveals
<1>3. Trigger \in {1, 3} <=> fault.edge = 1
    BY <1>1 DEF Trigger
<1>4. ASSUME elem_q = Trigger, addr_q = fault.at
      PROVE  fault.by \in Seen <=> fault.to = fault.edge
    <2>1. fault.by \in Int /\ fault.at \in Int
        BY <1>1 DEF Addr, March!Addr, March!MbistAssumption
    <2>2. fault.by \in Seen <=> IF March!ElemDown THEN ~Below ELSE Below
        BY <1>1, <1>4, <2>1 DEF Seen, Below
    <2>3. March!ElemDown <=> Trigger \in {3, 4}
        BY <1>4 DEF March!ElemDown
    <2>4. CASE fault.edge = 1
        BY <1>1, <2>2, <2>3, <2>4 DEF Trigger
    <2>5. CASE fault.edge = 0
        BY <1>1, <2>2, <2>3, <2>5 DEF Trigger
    <2> QED BY <1>1, <2>4, <2>5
<1> QED BY <1>1, <1>2, <1>3, <1>4 DEF Old, New

LEMMA CoupledKept ==
    ASSUME March!MbistAssumption, Position, fault.kind = "coupling", fault' = fault,
           fault \in March!ArrayFault, Coupled, Fetch \/ Compare \/ Leave
    PROVE  Coupled'
<1>1. /\ March!Selected(addr_q) = addr_q /\ addr_q \in Addr /\ elem_q \in 0..5
      /\ fault.at \in Addr /\ fault.by \in Addr /\ fault.at # fault.by
    BY Faults DEF March!Selected, Position
<1>2. Trigger' = Trigger /\ Reveals' = Reveals /\ Trigger \in 1..4
    BY Triggers DEF Trigger, Reveals, Below
<1>3. ASSUME mem' = March!Stored(addr_q, New)
      PROVE  /\ mem'[fault.by] = IF fault.by = addr_q THEN New ELSE mem[fault.by]
             /\ addr_q # fault.at =>
                    mem'[fault.at] = IF addr_q = fault.by /\ New = fault.edge /\ mem[fault.by] # New
                                     THEN fault.to ELSE mem[fault.at]
    BY <1>1, <1>3 DEF March!Stored, March!Holds, March!Couples, Addr
<1>4. Holding(fault.by)'
    <2>1. ASSUME Leave PROVE mem'[fault.by] = IF fault.by = addr_q THEN New ELSE mem[fault.by]
        <3>1. CASE mem' = mem /\ elem_q = 5
            BY <2>1, <3>1 DEF Coupled, Holding, Old, New, Leave
        <3> QED BY <1>3, <2>1, <3>1 DEF Leave
    <2>2. \A x \in Addr : Holding(x) /\ (Leave => mem'[x] = IF x = addr_q THEN New ELSE mem[x])
              => Holding(x)'
        BY HoldingKept
    <2> QED BY <1>1, <2>1, <2>2 DEF Coupled, Holding
<1>5. ASSUME Forced' PROVE mem'[fault.at] = fault.to
    <2>1. CASE Fetch \/ Compare
        BY <1>2, <1>5, <2>1
        DEF Coupled, Forced, Fetch, Compare, Seen, March!ElemDown, Addr, March!Addr
    <2>2. CASE Leave /\ elem_q' = elem_q /\ Seen' = Seen \cup {addr_q}
        <3>1. Forced \/ (elem_q = Trigger /\ addr_q = fault.by)
            BY <1>2, <1>5, <2>2 DEF Forced
        <3>2. addr_q # fault.at
            BY <1>1, <1>2, <1>5, <2>2, Triggers DEF Forced
        <3>3. ~Forced => Old # fault.edge /\ New = fault.edge /\ addr_q = fault.by
                         /\ mem[fault.by] = Old
            BY <1>2, <2>2, <3>1, Triggers DEF Coupled, Holding, Leave
        <3>4. CASE mem' = mem /\ elem_q = 5
            BY <1>2, <3>1, <3>4 DEF Coupled
        <3>5. CASE mem' = March!Stored(addr_q, New) /\ elem_q # 5
            <4>1. CASE Forced /\ addr_q = fault.by
                <5>1. elem_q = Trigger + 1
                    BY <2>2, <4>1 DEF Forced, Leave
                <5> QED BY <1>3, <3>2, <3>5, <4>1, <5>1, Triggers DEF Coupled
            <4> QED BY <1>3, <3>1, <3>2, <3>3, <3>5, <4>1 DEF Coupled
        <3> QED BY <2>2, <3>4, <3>5 DEF Leave
    <2>3. CASE Leave /\ elem_q' = elem_q + 1 /\ Seen' = {} /\ Seen \cup {addr_q} = Addr
        <3>1. elem_q = Trigger /\ fault.to # fault.edge /\ elem_q # 5
            BY <1>1, <1>2, <1>5, <2>3 DEF Forced
        <3>2. fault.by \in Seen \/ addr_q = fault.by
            BY <1>1, <2>3
        <3>3. addr_q # fault.at
            BY <1>1, <3>1, <3>2, Triggers
        <3>4. Forced \/ addr_q = fault.by
            BY <3>1, <3>2 DEF Forced
        <3>5. addr_q = fault.by => Old # fault.edge /\ New = fault.edge /\ mem[fault.by] = Old
            BY <1>2, <2>3, <3>1, Triggers DEF Coupled, Holding, Leave
        <3>6. mem' = March!Stored(addr_q, New)
            BY <2>3, <3>1 DEF Leave
        <3> QED BY <1>3, <3>3, <3>4, <3>5, <3>6 DEF Coupled
    <2> QED BY <2>1, <2>2, <2>3 DEF Leave
<1>6. fail_q' \/ ToRead(Reveals, fault.at)'
    <2>1. ASSUME march_q = "CAPTURE", elem_q = Reveals, addr_q = fault.at,
                 ToRead(Reveals, fault.at)
          PROVE  rdata # Old
        <3>1. fault.at \notin Seen
            BY <1>1, <2>1 DEF ToRead
        <3>2. Forced
            BY <1>2, <2>1, <3>1, Triggers DEF Forced, Reveals
        <3>3. Old # fault.to
            BY <1>2, <2>1, Triggers, Faults DEF Reveals
        <3> QED BY <1>1, <2>1, <3>2, <3>3 DEF Coupled, Position
    <2>2. fail_q' \/ (ToRead(Reveals, fault.at))'
        BY <1>1, <1>2, <2>1, Detection, Triggers DEF Coupled, ToRead
    <2> QED BY <2>2
<1> QED BY <1>4, <1>5, <1>6 DEF Coupled

\* Two addresses that select one cell: going up, the element that writes ones
\* changes the cell at the first of them before it reads it at the second.
First == IF fault.at < fault.by THEN fault.at ELSE fault.by
Second == IF fault.at < fault.by THEN fault.by ELSE fault.at

Aliased ==
    /\ elem_q = 1 /\ First \in Seen /\ Second \notin Seen => mem[fault.by] = 1
    /\ fail_q \/ ToRead(1, Second)

LEMMA AliasedKept ==
    ASSUME March!MbistAssumption, Position, fault.kind = "address", fault' = fault,
           fault \in March!ArrayFault, Aliased, Fetch \/ Compare \/ Leave
    PROVE  Aliased'
<1>1. /\ fault.at \in Addr /\ fault.by \in Addr /\ fault.at # fault.by
      /\ addr_q \in Addr /\ elem_q \in 0..5
    BY Faults DEF Position
<1>2. /\ First \in Addr /\ Second \in Addr /\ First < Second
      /\ First' = First /\ Second' = Second
      /\ March!Selected(First) = fault.by /\ March!Selected(Second) = fault.by
    BY <1>1 DEF First, Second, March!Selected, Addr, March!Addr, March!MbistAssumption
<1>3. ASSUME (elem_q = 1 /\ First \in Seen /\ Second \notin Seen)'
      PROVE  mem'[fault.by] = 1
    <2>1. CASE Fetch \/ Compare
        BY <1>2, <1>3, <2>1
        DEF Aliased, Fetch, Compare, Seen, March!ElemDown, Addr, March!Addr
    <2>2. CASE Leave /\ elem_q' = elem_q /\ Seen' = Seen \cup {addr_q}
        <3>1. /\ elem_q = 1 /\ Second \notin Seen
              /\ First \in Seen \/ addr_q = First
            BY <1>2, <1>3, <2>2
        <3>2. mem' = March!Stored(addr_q, 1)
            BY <2>2, <3>1 DEF Leave, New
        <3>3. mem'[fault.by] = IF fault.by = March!Selected(addr_q) THEN 1 ELSE mem[fault.by]
            BY <1>1, <3>2 DEF March!Stored, March!Holds, March!Couples, Addr
        <3> QED BY <1>2, <3>1, <3>3 DEF Aliased
    <2>3. CASE Leave /\ Seen' = {}
        BY <1>2, <1>3, <2>3
    <2> QED BY <2>1, <2>2, <2>3 DEF Leave
<1>4. fail_q' \/ ToRead(1, Second)'
    <2>1. ASSUME march_q = "CAPTURE", elem_q = 1, addr_q = Second
          PROVE  rdata # Old
        <3>1. First \in Seen /\ Second \notin Seen
            BY <1>2, <2>1 DEF Seen, March!ElemDown, Addr, March!Addr, March!MbistAssumption
        <3> QED BY <1>2, <2>1, <3>1 DEF Aliased, Position, Old
    <2>2. fail_q' \/ (ToRead(1, Second))'
        BY <1>2, <2>1, Detection DEF Aliased, ToRead
    <2> QED BY <2>2
<1> QED BY <1>2, <1>3, <1>4 DEF Aliased

Testing ==
    /\ fault.kind = "none" => Sound
    /\ fault.kind = "stuck" => StuckIn
    /\ fault.kind = "transition" => Unmoved
    /\ fault.kind = "coupling" => Coupled
    /\ fault.kind = "address" => Aliased

StuckHolds == fault.kind = "stuck" => mem[fault.at] = fault.to
MarchInv ==
    /\ fault \in March!ArrayFault
    /\ StuckHolds
    /\ clean /\ march_q \in {"EXEC", "CAPTURE"} => Position /\ Testing
    /\ March!VerdictRight

LEMMA TestingKept ==
    ASSUME March!MbistAssumption, Position, Testing, fault' = fault,
           fault \in March!ArrayFault, Fetch \/ Compare \/ Leave
    PROVE  Testing'
BY SoundKept, StuckInKept, UnmovedKept, CoupledKept, AliasedKept DEF Testing

\* At the end of the last element nothing is left to read.
LEMMA Verdict ==
    ASSUME Testing', fault' = fault, fault \in March!ArrayFault, elem_q' = 6
    PROVE  /\ fail_q' <=> fault.kind # "none"
           /\ fault.kind = "stuck" => fail_addr_q' = fault.at
<1>2. CASE fault.kind = "none"
    BY <1>2 DEF Testing, Sound
<1>3. CASE fault.kind = "stuck"
    BY <1>3, Faults DEF Testing, StuckIn, ToRead
<1>4. CASE fault.kind = "transition"
    BY <1>4, Faults DEF Testing, Unmoved, ToRead
<1>5. CASE fault.kind = "coupling"
    <2>1. Reveals' \in 1..5
        BY DEF Reveals, Trigger
    <2> QED BY <1>5, <2>1 DEF Testing, Coupled, ToRead
<1>6. CASE fault.kind = "address"
    BY <1>6 DEF Testing, Aliased, ToRead
<1> QED BY <1>2, <1>3, <1>4, <1>5, <1>6, Faults

\* A test that starts has judged nothing and expects nothing of the array.
LEMMA Starting ==
    ASSUME March!MbistAssumption, fault' = fault, fault \in March!ArrayFault, StuckHolds',
           elem_q' = 0, op_q' = 0, addr_q' = 0, ~fail_q', march_q' = "EXEC"
    PROVE  Position' /\ Testing'
<1>1. Addr = 0..Depth - 1 /\ 0 \in Addr /\ Addr' = Addr
    BY DEF March!MbistAssumption, Addr, March!Addr
<1>2. Seen' = {}
    BY <1>1 DEF Seen, March!ElemDown, Addr, March!Addr
<1>3. \A x : Holding(x)'
    BY <1>2 DEF Holding
<1>4. Position'
    BY <1>1 DEF Position
<1>5. fault.kind = "transition" => Unmoved'
    BY <1>2, Faults DEF Unmoved, ToRead
<1>6. fault.kind = "coupling" => Coupled'
    <2>1. fault.kind = "coupling" => Trigger' \in 1..4 /\ Reveals' \in 1..5
        BY DEF Trigger, Reveals
    <2>2. Holding(fault.by)'
        BY <1>2 DEF Holding
    <2> QED BY <2>1, <2>2 DEF Coupled, Forced, ToRead
<1>7. fault.kind = "stuck" => StuckIn'
    BY <1>3, Faults DEF StuckIn, StuckHolds, ToRead
<1> QED BY <1>2, <1>3, <1>4, <1>5, <1>6, <1>7 DEF Testing, Sound, Aliased, ToRead

LEMMA MarchInvariant ==
    ASSUME March!MbistAssumption, MarchInv, [March!Next]_(March!vars)
    PROVE  MarchInv'
<1>1. CASE UNCHANGED March!vars
    <2>1. /\ UNCHANGED <<march_q, elem_q, op_q, addr_q, fail_q, fail_addr_q>>
          /\ UNCHANGED <<mem, rdata, fault, clean>>
        BY <1>1 DEF March!vars, March!marchVars
    <2>2. Seen' = Seen /\ Old' = Old /\ New' = New
        BY <2>1 DEF Seen, Old, New, March!ElemDown, Addr, March!Addr
    <2>3. \A x : Holding(x) <=> Holding(x)'
        BY <2>1, <2>2, Zenon DEF Holding
    <2>4. \A e, x : ToRead(e, x) <=> ToRead(e, x)'
        BY <2>1, <2>2, Zenon DEF ToRead
    <2>5. Position' <=> Position
        BY <2>1 DEF Position, March!Selected, March!OpIsWrite, March!OneOp, Addr, March!Addr
    <2>6. (Sound' <=> Sound) /\ (StuckIn' <=> StuckIn) /\ (StuckHolds' <=> StuckHolds)
        BY <2>1, <2>3, <2>4 DEF Sound, StuckIn, StuckHolds, Addr, March!Addr
    <2>7. (Unmoved' <=> Unmoved) /\ (Aliased' <=> Aliased)
        BY <2>1, <2>2, <2>4 DEF Unmoved, Aliased, First, Second, ToRead
    <2>8. (Coupled' <=> Coupled)
        BY <2>1, <2>2, <2>4 DEF Coupled, Forced, Reveals, Trigger, Below, ToRead, Holding
    <2>9. (Testing' <=> Testing)
        BY <2>1, <2>6, <2>7, <2>8 DEF Testing
    <2>10. March!VerdictRight' <=> March!VerdictRight
        BY <2>1 DEF March!VerdictRight
    <2> QED BY <2>1, <2>5, <2>6, <2>9, <2>10 DEF MarchInv, March!ArrayFault, March!Addr
<1>2. CASE March!Next
    <2>1. /\ march_q' = March!StateNext /\ March!Walk /\ March!Check /\ March!Port
          /\ clean' = (IF start_q THEN ~March!CutsShort ELSE clean)
          /\ fault' = fault /\ March!Sequence
        BY <1>2 DEF March!Next, March!Sequence
    <2>2. (fault \in March!ArrayFault)'
        BY <2>1 DEF MarchInv, March!ArrayFault, March!Addr
    <2>3. StuckHolds'
        <3>1. \A a, v : fault.kind = "stuck" => March!Stored(a, v)[fault.at] = fault.to
            BY Faults DEF MarchInv, StuckHolds, March!Stored, March!Holds, March!Couples, Addr
        <3> QED BY <2>1, <3>1 DEF MarchInv, StuckHolds, March!Port
    <2>4. CASE start_q /\ clean'
        <3>1. ~March!Mismatch /\ ~March!Ends /\ ~(march_q = "EXEC" /\ ~March!OpIsWrite)
            BY <2>1, <2>4 DEF March!CutsShort
        <3>2. elem_q' = 0 /\ op_q' = 0 /\ addr_q' = 0 /\ fail_q' = FALSE
            BY <2>1, <2>4, <3>1 DEF March!Walk, March!Check
        <3>3. march_q' \in {"EXEC", "IDLE"}
            BY <2>1, <2>4, <3>1 DEF March!StateNext
        <3>4. march_q' = "EXEC" => (Position /\ Testing)'
            BY <2>1, <2>3, <3>2, Starting DEF MarchInv
        <3> QED BY <2>2, <2>3, <3>3, <3>4 DEF MarchInv, March!VerdictRight
    <2>5. CASE ~start_q /\ clean' /\ march_q \in {"EXEC", "CAPTURE"}
        <3>1. Position /\ Testing
            BY <2>1, <2>5 DEF MarchInv
        <3>2. Fetch \/ Compare \/ Leave
            BY <2>1, <2>5, <3>1, TestSteps
        <3>3. Testing'
            BY <2>1, <3>1, <3>2, TestingKept DEF MarchInv
        <3>4. march_q' \in {"EXEC", "CAPTURE"} => Position'
            <4>1. march_q' = "CAPTURE" => ~March!OpIsWrite
                BY <2>1, <2>5 DEF March!StateNext
            <4> QED BY <2>1, <3>1, <3>2, <4>1, PositionKept
        <3>5. march_q' = "DONE" => elem_q' = 6
            BY <3>2 DEF Fetch, Compare, Leave
        <3>6. March!VerdictRight'
            BY <2>1, <3>3, <3>5, Verdict DEF MarchInv, March!VerdictRight
        <3> QED BY <2>2, <2>3, <3>3, <3>4, <3>6 DEF MarchInv
    <2>6. CASE ~start_q /\ clean' /\ march_q \notin {"EXEC", "CAPTURE"}
        <3>1. march_q' \in {march_q, "IDLE"}
            BY <2>1, <2>6 DEF March!StateNext, March!Ends, March!Advance
        <3>2. UNCHANGED <<fail_q, fail_addr_q>>
            BY <2>1, <2>6 DEF March!Check, March!Mismatch
        <3>3. March!VerdictRight'
            BY <2>1, <2>6, <3>1, <3>2 DEF MarchInv, March!VerdictRight
        <3> QED BY <2>2, <2>3, <2>6, <3>1, <3>3 DEF MarchInv
    <2>7. CASE ~clean'
        BY <2>2, <2>3, <2>7 DEF MarchInv, March!VerdictRight
    <2> QED BY <2>4, <2>5, <2>6, <2>7
<1> QED BY <1>1, <1>2

\* The register that says pass or fail: for a memory of any depth and a fault
\* of any of the classes at any address of it, a test that nothing cut short
\* reports the memory bad exactly if it is, and a stuck cell by its address.
THEOREM VerdictsRight ==
    ASSUME March!MbistAssumption
    PROVE  March!Spec => []VerdictRight
<1>1. March!Init => MarchInv
    BY DEF March!Init, MarchInv, StuckHolds, March!VerdictRight
<1>2. MarchInv /\ [March!Next]_(March!vars) => MarchInv'
    BY MarchInvariant
<1>3. MarchInv => VerdictRight
    BY DEF MarchInv, VerdictRight
<1> QED BY <1>1, <1>2, <1>3, PTL DEF March!Spec

-----------------------------------------------------------------------------
(* The boot loader.                                                         *)

Aligned(n) == n \in Nat /\ n % WordBytes = 0

LEMMA Quotient ==
    ASSUME Boot!BootAssumption, NEW n \in Int
    PROVE  /\ n \div WordBytes \in Int /\ n % WordBytes \in 0..WordBytes - 1
           /\ n = WordBytes * (n \div WordBytes) + (n % WordBytes)
BY DEF Boot!BootAssumption

LEMMA RemainderIs ==
    ASSUME Boot!BootAssumption, NEW n \in Int, NEW k \in Int, NEW l \in 0..WordBytes - 1,
           n = k * WordBytes + l
    PROVE  n % WordBytes = l
<1>1. WordBytes \in Nat \ {0}
    BY DEF Boot!BootAssumption
<1>2. PICK q \in Int, r \in 0..WordBytes - 1 : n % WordBytes = r /\ n = WordBytes * q + r
    BY Quotient
<1>3. WordBytes * q + r = k * WordBytes + l
    BY <1>2
<1>4. q = k /\ r = l
    BY <1>1, <1>3, DivisionUnique
<1> QED BY <1>2, <1>4

LEMMA AlignedSums ==
    ASSUME Boot!BootAssumption, NEW a, NEW b, Aligned(a), Aligned(b)
    PROVE  /\ Aligned(a + b)
           /\ a >= b => Aligned(a - b)
           /\ a > b => a >= b + WordBytes
<1>1. WordBytes \in Nat \ {0} /\ a \in Int /\ b \in Int /\ 0 \in 0..WordBytes - 1
    BY DEF Boot!BootAssumption, Aligned
<1>2. PICK k \in Int : a = WordBytes * k
    <2>1. a = WordBytes * (a \div WordBytes) + 0 /\ a \div WordBytes \in Int
        BY <1>1, Quotient DEF Aligned
    <2>2. WordBytes * (a \div WordBytes) \in Int
        BY <1>1, <2>1
    <2> QED BY <2>1, <2>2
<1>3. PICK j \in Int : b = WordBytes * j
    <2>1. b = WordBytes * (b \div WordBytes) + 0 /\ b \div WordBytes \in Int
        BY <1>1, Quotient DEF Aligned
    <2>2. WordBytes * (b \div WordBytes) \in Int
        BY <1>1, <2>1
    <2> QED BY <2>1, <2>2
<1>4. a + b = (k + j) * WordBytes + 0 /\ a - b = (k - j) * WordBytes + 0
    BY <1>1, <1>2, <1>3
<1>5. (a + b) % WordBytes = 0
    <2>1. a + b \in Int /\ k + j \in Int
        BY <1>1
    <2> QED BY <1>1, <1>4, <2>1, RemainderIs
<1>6. (a - b) % WordBytes = 0
    <2>1. a - b \in Int /\ k - j \in Int
        BY <1>1
    <2> QED BY <1>1, <1>4, <2>1, RemainderIs
<1>7. ASSUME a > b PROVE a >= b + WordBytes
    <2>1. CASE k <= j
        <3>1. WordBytes * k <= WordBytes * j
            BY <1>1, <2>1
        <3> QED BY <1>1, <1>2, <1>7, <1>3, <3>1
    <2>2. CASE k >= j + 1
        <3>1. WordBytes * k >= WordBytes * (j + 1)
            BY <1>1, <2>2
        <3>2. WordBytes * (j + 1) = WordBytes * j + WordBytes
            BY <1>1
        <3> QED BY <1>1, <1>2, <1>3, <3>1, <3>2
    <2> QED BY <1>1, <2>1, <2>2
<1> QED BY <1>1, <1>5, <1>6, <1>7 DEF Aligned

LEMMA AlignedWord == ASSUME Boot!BootAssumption PROVE Aligned(0) /\ Aligned(WordBytes)
<1>1. WordBytes \in Nat \ {0} /\ 0 \in 0..WordBytes - 1
    BY DEF Boot!BootAssumption
<1>2. 0 = 0 * WordBytes + 0 /\ WordBytes = 1 * WordBytes + 0
    BY <1>1
<1>3. 0 % WordBytes = 0
    BY <1>1, <1>2, RemainderIs
<1>4. WordBytes % WordBytes = 0
    BY <1>1, <1>2, RemainderIs
<1> QED BY <1>1, <1>3, <1>4 DEF Aligned

LEMMA Behind ==
    ASSUME Boot!BootAssumption, NEW i \in Nat, i >= 1, i % WordBytes = 1 % WordBytes
    PROVE  Aligned(i - 1)
<1>1. WordBytes \in Nat \ {0} /\ 0 \in 0..WordBytes - 1 /\ 1 \in 0..WordBytes - 1
    BY DEF Boot!BootAssumption
<1>2. 1 % WordBytes = 1
    <2>1. 1 = 0 * WordBytes + 1
        BY <1>1
    <2> QED BY <1>1, <2>1, RemainderIs
<1>3. PICK k \in Int : i = WordBytes * k + 1
    BY <1>2, Quotient
<1>4. i - 1 = k * WordBytes + 0 /\ i - 1 \in Int
    BY <1>1, <1>3
<1> QED BY <1>1, <1>4, RemainderIs DEF Aligned

\* Sequences of bytes, and one byte more.
LEMMA SameBytes ==
    ASSUME NEW S, NEW a \in Seq(S), NEW b \in Seq(S), Len(a) = Len(b),
           \A i \in 1..Len(a) : a[i] = b[i]
    PROVE  a = b
OBVIOUS

LEMMA SubOfAppend ==
    ASSUME NEW S, NEW s \in Seq(S), NEW b \in S, NEW m \in 1..Len(s) + 1, NEW n \in 0..Len(s)
    PROVE  SubSeq(Append(s, b), m, n) = SubSeq(s, m, n)
<1>1. /\ SubSeq(s, m, n) \in Seq(S) /\ Len(SubSeq(s, m, n)) = IF m <= n THEN n - m + 1 ELSE 0
      /\ \A i \in 1..n - m + 1 : SubSeq(s, m, n)[i] = s[m + i - 1]
    BY SubSeqProperties
<1>2. PICK t : t = Append(s, b)
    OBVIOUS
<1>3. t \in Seq(S) /\ Len(t) = Len(s) + 1 /\ \A i \in 1..Len(s) : t[i] = s[i]
    BY <1>2
<1>4. /\ SubSeq(t, m, n) \in Seq(S) /\ Len(SubSeq(t, m, n)) = IF m <= n THEN n - m + 1 ELSE 0
      /\ \A i \in 1..n - m + 1 : SubSeq(t, m, n)[i] = t[m + i - 1]
    BY <1>3, SubSeqProperties
<1>5. ASSUME NEW i \in 1..Len(SubSeq(s, m, n)) PROVE SubSeq(t, m, n)[i] = SubSeq(s, m, n)[i]
    <2>1. i \in 1..n - m + 1 /\ m + i - 1 \in 1..Len(s)
        BY <1>1
    <2> QED BY <1>1, <1>3, <1>4, <2>1
<1> QED BY <1>1, <1>2, <1>4, <1>5, SameBytes

LEMMA SubToAppend ==
    ASSUME NEW S, NEW s \in Seq(S), NEW b \in S, NEW m \in 1..Len(s) + 1
    PROVE  SubSeq(Append(s, b), m, Len(s) + 1) = Append(SubSeq(s, m, Len(s)), b)
<1>1. PICK t : t = Append(s, b)
    OBVIOUS
<1>2. /\ t \in Seq(S) /\ Len(t) = Len(s) + 1 /\ Len(s) \in Nat
      /\ m \in 1..Len(t) /\ Len(s) + 1 \in m..Len(t) /\ t[Len(s) + 1] = b
    BY <1>1
<1>3. SubSeq(t, m, Len(s) + 1) = SubSeq(t, m, Len(s) + 1 - 1) \o << t[Len(s) + 1] >>
    BY <1>2, SubSeqRecursiveSecond, SMTT(30)
<1>4. SubSeq(t, m, Len(s)) = SubSeq(s, m, Len(s))
    BY <1>1, <1>2, SubOfAppend
<1>5. PICK l : l = SubSeq(s, m, Len(s))
    OBVIOUS
<1>6. l \in Seq(S)
    BY <1>2, <1>5, SubSeqProperties
<1>7. l \o <<b>> = Append(l, b)
    BY <1>6
<1>8. Len(s) + 1 - 1 = Len(s)
    BY <1>2
<1> QED BY <1>1, <1>2, <1>3, <1>4, <1>5, <1>7, <1>8

\* The image that the packer makes, and what is read of its header.
LEMMA Packed ==
    ASSUME Boot!BootAssumption, NEW call \in Arguments, NEW i \in 1..2
    PROVE  /\ Boot!Segment(call, i).dest \in Nat
           /\ Boot!Segment(call, i).bytes \in Seq({0, 1})
<1>1. call.segs \in Seq([dest : Nat, data : Seq({0, 1})]) /\ call.pad0 \in Nat
    BY DEF Boot!BootAssumption
<1>2. CASE i \in DOMAIN call.segs
    <2>1. call.segs[i] \in [dest : Nat, data : Seq({0, 1})]
        <3>1. PICK s \in Seq([dest : Nat, data : Seq({0, 1})]) : s = call.segs
            BY <1>1
        <3>2. i \in 1..Len(s)
            BY <1>2, <3>1
        <3>3. s[i] \in [dest : Nat, data : Seq({0, 1})]
            BY <3>2, ElementOfSeq
        <3> QED BY <3>1, <3>3
    <2>2. PICK data \in Seq({0, 1}) : data = call.segs[i].data
        BY <2>1
    <2>3. Len(data) \in Nat /\ WordBytes \in Nat \ {0}
        BY <2>2, SMTT(30) DEF Boot!BootAssumption
    <2>4. PICK r \in Nat : r = (-Len(data)) % WordBytes
        BY <2>3
    <2>5. PICK p \in Nat : p = WordBytes * call.pad0
        BY <1>1, <2>3
    <2>6. \A n \in Nat : Boot!Zeros(n) \in Seq({0, 1})
        BY DEF Boot!Zeros
    <2>7. PICK zr \in Seq({0, 1}) : zr = Boot!Zeros(r)
        BY <2>6
    <2>8. PICK zp \in Seq({0, 1}) : zp = IF i = 1 THEN Boot!Zeros(p) ELSE << >>
        <3>1. << >> \in Seq({0, 1})
            OBVIOUS
        <3> QED BY <2>6, <3>1, Zenon
    <2>9. data \o zr \o zp \in Seq({0, 1})
        OBVIOUS
    <2>10. Boot!Padded(i, call.segs[i].data, call.pad0) = data \o zr \o zp
        BY <2>2, <2>4, <2>5, <2>7, <2>8 DEF Boot!Padded
    <2> QED BY <1>2, <2>1, <2>9, <2>10 DEF Boot!Segment
<1>3. CASE i \notin DOMAIN call.segs
    BY <1>3 DEF Boot!Segment
<1> QED BY <1>2, <1>3

\* What a header that was read has in common with that of the image.
FieldsOf(h, call) ==
    /\ h.l0 = Boot!Header(call).l0 \/ h.l1 = Boot!Header(call).l1
    /\ h.d0 \in Nat /\ h.l0 \in Nat /\ h.d1 \in Nat /\ h.l1 \in Nat
    /\ h.crc \in {Boot!Payload(call), <<2>>}

LEMMA HeaderFields ==
    ASSUME Boot!BootAssumption, NEW call \in Arguments
    PROVE  /\ FieldsOf(Boot!Header(call), call) /\ Boot!Header(call).crc = Boot!Payload(call)
           /\ Boot!Payload(call) \in Seq({0, 1})
           /\ Len(Boot!Payload(call)) = Boot!Header(call).l0 + Boot!Header(call).l1
           /\ Boot!Header(call) = [magic |-> TRUE,
                                   flags |-> Boot!Header(call).flags,
                                   d0 |-> Boot!Header(call).d0, l0 |-> Boot!Header(call).l0,
                                   d1 |-> Boot!Header(call).d1, l1 |-> Boot!Header(call).l1,
                                   crc |-> Boot!Header(call).crc]
<1>1. PICK s \in Seq({0, 1}), t \in Seq({0, 1}) :
          s = Boot!Segment(call, 1).bytes /\ t = Boot!Segment(call, 2).bytes
    BY Packed
<1>2. Boot!Payload(call) = s \o t
    BY <1>1 DEF Boot!Payload
<1>3. s \o t \in Seq({0, 1}) /\ Len(s \o t) = Len(s) + Len(t)
    OBVIOUS
<1>4. Boot!Header(call).l0 = Len(s) /\ Boot!Header(call).l1 = Len(t)
    BY <1>1 DEF Boot!Header
<1>5. /\ Boot!Header(call).d0 = Boot!Segment(call, 1).dest
      /\ Boot!Header(call).d1 = Boot!Segment(call, 2).dest
      /\ Boot!Header(call).crc = Boot!Payload(call)
    BY DEF Boot!Header
<1>6. Boot!Segment(call, 1).dest \in Nat /\ Boot!Segment(call, 2).dest \in Nat
    BY Packed
<1>7. Len(s) \in Nat /\ Len(t) \in Nat
    OBVIOUS
<1>8. FieldsOf(Boot!Header(call), call)
    BY <1>4, <1>5, <1>6, <1>7 DEF FieldsOf
<1>9. Boot!Header(call) = [magic |-> TRUE,
                           flags |-> Boot!Header(call).flags,
                           d0 |-> Boot!Header(call).d0, l0 |-> Boot!Header(call).l0,
                           d1 |-> Boot!Header(call).d1, l1 |-> Boot!Header(call).l1,
                           crc |-> Boot!Header(call).crc]
    BY DEF Boot!Header
<1> QED BY <1>2, <1>3, <1>4, <1>5, <1>8, <1>9

LEMMA CorruptedFields ==
    ASSUME Boot!BootAssumption, NEW call \in Arguments,
           NEW h \in Boot!Corrupted(Boot!Header(call))
    PROVE  FieldsOf(h, call)
<1>1. PICK g : g = Boot!Header(call)
    OBVIOUS
<1>2. /\ FieldsOf(g, call)
      /\ g = [magic |-> TRUE, flags |-> g.flags, d0 |-> g.d0, l0 |-> g.l0,
              d1 |-> g.d1, l1 |-> g.l1, crc |-> g.crc]
    BY <1>1, HeaderFields
<1>3. PICK f \in Misread : h \in Boot!MisreadField(g, f)
    BY <1>1 DEF Boot!Corrupted
<1>4. f \in {"magic", "flags", "d0", "l0", "d1", "l1", "crc"} /\ Values \subseteq Nat
    BY DEF Boot!BootAssumption
<1>5. CASE f \in {"magic", "flags", "crc"}
    BY <1>2, <1>3, <1>5 DEF FieldsOf, Boot!MisreadField
<1>6. CASE f = "d0"
    BY <1>2, <1>3, <1>4, <1>6 DEF FieldsOf, Boot!MisreadField
<1>7. CASE f = "l0"
    <2>1. PICK v \in Values : h = [g EXCEPT !.l0 = v]
        BY <1>3, <1>7 DEF Boot!MisreadField
    <2>2. h.l0 = v /\ v \in Nat /\ h.l1 = g.l1 /\ h.d0 = g.d0 /\ h.d1 = g.d1 /\ h.crc = g.crc
        BY <1>2, <1>4, <2>1
    <2> QED BY <1>1, <1>2, <2>2 DEF FieldsOf
<1>8. CASE f = "d1"
    BY <1>2, <1>3, <1>4, <1>8 DEF FieldsOf, Boot!MisreadField
<1>9. CASE f = "l1"
    <2>1. PICK v \in Values : h = [g EXCEPT !.l1 = v]
        BY <1>3, <1>9 DEF Boot!MisreadField
    <2>2. h.l1 = v /\ v \in Nat /\ h.l0 = g.l0 /\ h.d0 = g.d0 /\ h.d1 = g.d1 /\ h.crc = g.crc
        BY <1>2, <1>4, <2>1
    <2> QED BY <1>1, <1>2, <2>2 DEF FieldsOf
<1> QED BY <1>4, <1>5, <1>6, <1>7, <1>8, <1>9

\* Bytes of the payload that the memories have, and where and as what a word
\* that begins with byte i of them is stored.
Stored == read - Len(word_q) - (IF wr_pending_q THEN WordBytes ELSE 0)
Place(i) == IF i < hdr_q.l0 THEN hdr_q.d0 + i ELSE hdr_q.d1 + (i - hdr_q.l0)
WordAt(i) == SubSeq(crc_q, i + 1, i + WordBytes)
Total == hdr_q.l0 + hdr_q.l1

Loads == {"PAY", "CRC", "DONE"}

BootTypes ==
    /\ args \in Arguments
    /\ boot_state \in {"IDLE", "HDR", "CHECK", "FAULT"} \cup Loads
    /\ retries_q \in Nat /\ glitches \in Nat
    /\ DOMAIN tcm = Boot!Itcm \cup Boot!Dtcm

\* What each state of the loader excludes.
Phases ==
    /\ gap \/ wr_pending_q => boot_state = "PAY"
    /\ gap => ~wr_pending_q
    /\ bist \in {"idle", "starts", "busy"}
    /\ bist # "idle" => boot_state \in {"IDLE", "HDR", "FAULT"}
    /\ boot_state \in {"HDR", "CHECK"} => crc_q = << >> /\ word_q = << >> /\ ~in_seg1_q
    /\ boot_done_q <=> boot_state = "DONE"
    /\ boot_fault_q <=> boot_state = "FAULT"
HeaderRead == boot_state \in {"CHECK"} \cup Loads => FieldsOf(hdr_q, args)

\* While the payload comes, the bytes that came are those in the memories, the
\* word the bus has, and the word that is not complete.
BytesCounted == boot_state \in Loads =>
    /\ Boot!HdrOk(hdr_q)
    /\ crc_q \in Seq(0..2) /\ Len(crc_q) = read
    /\ read \in Nat /\ bytes_left_q \in Nat /\ read + bytes_left_q = Total
    /\ word_q \in Seq(0..2) /\ Len(word_q) < WordBytes /\ Aligned(Stored)
    /\ gap \/ boot_state # "PAY" => bytes_left_q = 0
    /\ boot_state = "DONE" => crc_q = hdr_q.crc
WordsExact == boot_state \in Loads =>
    /\ wr_pending_q => /\ word_q = << >> /\ wr_addr_q = cur_addr_q
                       /\ wr_data_q = WordAt(Stored)
    /\ ~wr_pending_q => word_q = SubSeq(crc_q, Stored + 1, read)
Positioned == boot_state \in Loads =>
    IF in_seg1_q
    THEN /\ hdr_q.l1 # 0 /\ hdr_q.l0 <= Stored
         /\ cur_addr_q = hdr_q.d1 + (Stored - hdr_q.l0) /\ seg_left_q = Total - Stored
    ELSE /\ Stored <= hdr_q.l0 /\ (hdr_q.l1 # 0 => Stored < hdr_q.l0)
         /\ cur_addr_q = hdr_q.d0 + Stored /\ seg_left_q = hdr_q.l0 - Stored
Held == boot_state \in Loads /\ ~Boot!Overlap(hdr_q) =>
    \A i \in Nat : i < Stored /\ Aligned(i) => tcm[Place(i)] = WordAt(i)

\* A glitch for each failure, and one for an attempt that has gone wrong.
Spoilt ==
    /\ boot_state \in {"CHECK"} \cup Loads
    /\ \/ hdr_q # Boot!Header(args)
       \/ /\ boot_state \in Loads
          /\ \E i \in 1..read : crc_q[i] # Boot!Payload(args)[i]
Blamed == Boot!HdrOk(Boot!Header(args)) =>
    /\ glitches >= retries_q
    /\ Spoilt => glitches >= retries_q + 1
    /\ boot_fault_q => glitches > RetryMax

Loading == BytesCounted /\ WordsExact /\ Positioned /\ Held
BootInv == BootTypes /\ Phases /\ HeaderRead /\ Loading /\ Blamed

LEMMA BootStarts == ASSUME Boot!BootAssumption PROVE Boot!Init => BootInv
BY DEF Boot!BootAssumption, Boot!Init, BootInv, BootTypes, Phases, HeaderRead, Loading,
       BytesCounted, WordsExact, Positioned, Held, Blamed, Spoilt, Loads

\* The handler leaves nothing of the attempt to the next one.
LEMMA FailureHandled ==
    ASSUME Boot!BootAssumption, BootInv, boot_state \notin {"DONE", "FAULT"},
           Boot!Failed, UNCHANGED <<bist, tcm>>, glitches' \in Nat,
           Boot!HdrOk(Boot!Header(args)) => glitches' >= retries_q + 1
    PROVE  BootInv'
<1>1. /\ boot_state' \in {"IDLE", "FAULT"} /\ ~gap' /\ ~wr_pending_q'
      /\ UNCHANGED <<args, boot_done_q, bist, tcm>>
    BY DEF Boot!Failed
<1> QED
    BY <1>1, SMTT(30) DEF Boot!Failed, Boot!BootAssumption, BootInv, BootTypes, Phases, HeaderRead, Loading,
       BytesCounted, WordsExact, Positioned, Held, Blamed, Spoilt, Loads

\* A step that leaves the payload and the memories alone.
LEMMA LoadingStays ==
    ASSUME Loading, boot_state \in Loads,
           UNCHANGED <<args, hdr_q, bytes_left_q, read, crc_q, word_q, cur_addr_q, seg_left_q,
                       in_seg1_q, wr_pending_q, wr_addr_q, wr_data_q, tcm>>,
           gap' \/ boot_state' # "PAY" => bytes_left_q = 0,
           boot_state' = "DONE" => crc_q = hdr_q.crc
    PROVE  Loading'
<1>1. Stored' = Stored /\ Total' = Total
    BY DEF Stored, Total
<1>2. BytesCounted'
    BY <1>1 DEF Loading, BytesCounted
<1>3. WordsExact' /\ Positioned'
    BY <1>1 DEF Loading, WordsExact, Positioned, WordAt
<1>4. Held'
    BY <1>1 DEF Loading, Held, Place, WordAt
<1> QED BY <1>2, <1>3, <1>4 DEF Loading

\* An attempt that goes wrong in a step was spoilt before, or is by a glitch.
LEMMA BlameStays ==
    ASSUME Boot!BootAssumption, BootInv, UNCHANGED <<args, retries_q, boot_fault_q>>,
           glitches' \in {glitches, glitches + 1},
           Spoilt' => Spoilt \/ glitches' = glitches + 1
    PROVE  Blamed'
BY DEF Boot!BootAssumption, BootInv, BootTypes, Blamed

LEMMA StartKeeps ==
    ASSUME BootInv, Boot!Start
    PROVE  BootInv'
BY DEF Boot!Start, Boot!write, Boot!outcome, BootInv, BootTypes, Phases, HeaderRead, Loading,
       BytesCounted, WordsExact, Positioned, Held, Blamed, Spoilt, Loads

LEMMA HeaderKeeps ==
    ASSUME Boot!BootAssumption, BootInv, Boot!ReadHeader
    PROVE  BootInv'
<1>1. /\ boot_state = "HDR" /\ boot_state' = "CHECK" /\ bist' = "idle"
      /\ UNCHANGED <<args, gap, crc_q, word_q, in_seg1_q, wr_pending_q, retries_q, boot_done_q,
                     boot_fault_q, tcm>>
    BY DEF Boot!ReadHeader, Boot!load, Boot!write, Boot!outcome, Boot!hold, BootInv, Phases, Boot!Init
<1>2. \/ hdr_q' = Boot!Header(args) /\ UNCHANGED glitches
      \/ hdr_q' \in Boot!Corrupted(Boot!Header(args)) /\ glitches' = glitches + 1
    BY DEF Boot!ReadHeader, Boot!Glitch
<1>3. FieldsOf(hdr_q', args)
    BY <1>2, HeaderFields, CorruptedFields DEF BootInv, BootTypes
<1>4. BootTypes'
    BY <1>1, <1>2 DEF BootInv, BootTypes
<1>5. Phases' /\ HeaderRead' /\ Loading'
    BY <1>1, <1>3 DEF BootInv, Phases, HeaderRead, Loading, BytesCounted, WordsExact, Positioned,
                      Held, Loads, FieldsOf
<1>6. Blamed'
    <2>1. Spoilt' => hdr_q' # Boot!Header(args)
        BY <1>1 DEF Spoilt, Loads
    <2>2. Spoilt' => glitches' = glitches + 1
        BY <1>2, <2>1
    <2> QED BY <1>1, <1>2, <2>2, BlameStays
<1> QED BY <1>4, <1>5, <1>6 DEF BootInv

LEMMA CheckKeeps ==
    ASSUME Boot!BootAssumption, BootInv, Boot!CheckHeader
    PROVE  BootInv'
<1>1. CASE ~Boot!HdrOk(hdr_q)
    <2>1. Boot!HdrOk(Boot!Header(args)) => Spoilt
        BY <1>1 DEF Boot!CheckHeader, Spoilt
    <2> QED BY <1>1, <2>1, FailureHandled DEF Boot!CheckHeader, BootInv, BootTypes, Blamed
<1>2. CASE Boot!HdrOk(hdr_q)
    <2>1. /\ boot_state = "CHECK" /\ boot_state' = "PAY"
          /\ cur_addr_q' = hdr_q.d0 /\ seg_left_q' = hdr_q.l0
          /\ bytes_left_q' = hdr_q.l0 + hdr_q.l1 /\ read' = 0
          /\ UNCHANGED <<args, gap, hdr_q, crc_q, word_q, in_seg1_q, Boot!write, Boot!outcome,
                         bist, tcm, glitches>>
        BY <1>2 DEF Boot!CheckHeader
    <2>2. FieldsOf(hdr_q, args) /\ crc_q = << >> /\ word_q = << >> /\ ~in_seg1_q /\ ~wr_pending_q
          /\ ~gap /\ bist = "idle"
        BY <2>1 DEF BootInv, HeaderRead, Phases, Loads
    <2>3. Stored' = 0 /\ hdr_q.l0 # 0
        <3>1. Len(<< >>) = 0
            OBVIOUS
        <3>2. read' = 0 /\ word_q' = << >> /\ ~wr_pending_q'
            BY <2>1, <2>2 DEF Boot!write
        <3>3. Stored' = 0 - 0 - 0
            BY <3>1, <3>2, Zenon DEF Stored
        <3> QED BY <1>2, <3>3 DEF Boot!HdrOk
    <2>4. BytesCounted'
        <3>1. << >> \in Seq(0..2) /\ Len(<< >>) = 0
            OBVIOUS
        <3> QED BY <1>2, <2>1, <2>2, <2>3, <3>1, AlignedWord, SMTT(30)
                DEF BytesCounted, Total, FieldsOf, Boot!BootAssumption
    <2>5. WordsExact'
        <3>1. SubSeq(<< >>, 1, 0) = << >>
            OBVIOUS
        <3> QED BY <2>1, <2>2, <2>3, <3>1 DEF WordsExact, Boot!write
    <2>6. Positioned' /\ Held'
        BY <2>1, <2>2, <2>3 DEF Positioned, Held, Total, FieldsOf
    <2>7. BootTypes' /\ Phases' /\ HeaderRead'
        BY <2>1, <2>2 DEF BootInv, BootTypes, Phases, HeaderRead, Loads, Boot!write, Boot!outcome
    <2>8. Blamed'
        BY <2>1 DEF BootInv, Blamed, Spoilt, Loads, Boot!outcome
    <2> QED BY <2>4, <2>5, <2>6, <2>7, <2>8 DEF BootInv, Loading
<1> QED BY <1>1, <1>2

\* A step that touches neither what was loaded nor the count of failures.
LEMMA QuietKeeps ==
    ASSUME Boot!BootAssumption, BootInv, Boot!Grant \/ Boot!EndCommand \/ Boot!EndGap
    PROVE  BootInv'
<1>1. /\ boot_state \in Loads /\ boot_state' \in {boot_state, "CRC"}
      /\ UNCHANGED <<args, hdr_q, Boot!load, wr_pending_q, wr_addr_q, wr_data_q, Boot!outcome,
                     bist, tcm, glitches>>
      /\ gap' \/ boot_state' # "PAY" => bytes_left_q = 0 /\ ~wr_pending_q
      /\ gap' => boot_state' = "PAY"
      /\ boot_state' = "DONE" <=> boot_state = "DONE"
      /\ wr_pending_q => boot_state' = "PAY"
    BY DEF BootInv, Phases, Loading, BytesCounted, Boot!Grant, Boot!EndCommand, Boot!EndGap,
           Boot!SpiRun, Boot!write, Loads
<1>2. Loading'
    BY <1>1, LoadingStays DEF BootInv, Loading, BytesCounted, Boot!load
<1>3. BootTypes' /\ Phases' /\ HeaderRead'
    BY <1>1 DEF BootInv, BootTypes, Phases, HeaderRead, Loads, Boot!load, Boot!outcome
<1>4. Blamed'
    BY <1>1 DEF BootInv, Blamed, Spoilt, Loads, Boot!load, Boot!outcome
<1> QED BY <1>2, <1>3, <1>4 DEF BootInv

LEMMA GlitchKeeps ==
    ASSUME Boot!BootAssumption, BootInv, Boot!AnswerError \/ Boot!Timeout
    PROVE  BootInv'
<1>1. /\ Boot!Failed /\ UNCHANGED <<bist, tcm>> /\ glitches' = glitches + 1
      /\ boot_state \notin {"DONE", "FAULT"}
    BY DEF BootInv, Phases, Boot!AnswerError, Boot!Timeout, Boot!Glitch
<1>2. glitches' \in Nat /\ (Boot!HdrOk(Boot!Header(args)) => glitches' >= retries_q + 1)
    BY <1>1 DEF BootInv, BootTypes, Blamed
<1> QED BY <1>1, <1>2, FailureHandled

\* A payload that came as it is in the flash passes the check.
LEMMA CrcKeeps ==
    ASSUME Boot!BootAssumption, BootInv, Boot!CheckCrc
    PROVE  BootInv'
<1>1. boot_state = "CRC" /\ boot_state \in Loads /\ UNCHANGED <<bist, tcm, glitches>>
    BY DEF Boot!CheckCrc, Loads
<1>2. /\ crc_q \in Seq(0..2) /\ Len(crc_q) = read /\ read = Total /\ bytes_left_q = 0
    BY <1>1 DEF BootInv, Loading, BytesCounted, Loads, Total, HeaderRead, FieldsOf
<1>3. CASE crc_q # hdr_q.crc
    <2>1. Spoilt
        <3>1. SUFFICES ASSUME ~Spoilt PROVE FALSE
            OBVIOUS
        <3>2. hdr_q = Boot!Header(args) /\ \A i \in 1..read : crc_q[i] = Boot!Payload(args)[i]
            BY <1>1, <3>1 DEF Spoilt
        <3>3. PICK p : p = Boot!Payload(args)
            OBVIOUS
        <3>4. p \in Seq({0, 1}) /\ Len(p) = read /\ hdr_q.crc = p
            BY <1>2, <3>2, <3>3, HeaderFields DEF BootInv, BootTypes, Total
        <3>5. p \in Seq(0..2)
            BY <3>4
        <3>6. crc_q = p
            BY <1>2, <3>2, <3>3, <3>4, <3>5, SameBytes
        <3> QED BY <1>3, <3>4, <3>6
    <2>2. Boot!HdrOk(Boot!Header(args)) => glitches' >= retries_q + 1
        BY <1>1, <2>1 DEF BootInv, Blamed
    <2>3. glitches' \in Nat
        BY <1>1 DEF BootInv, BootTypes
    <2> QED BY <1>1, <1>3, <2>2, <2>3, FailureHandled DEF Boot!CheckCrc
<1>4. CASE crc_q = hdr_q.crc
    <2>1. /\ boot_done_q' = TRUE /\ boot_state' = "DONE"
          /\ UNCHANGED <<args, gap, hdr_q, Boot!load, Boot!write, retries_q, boot_fault_q>>
        BY <1>4 DEF Boot!CheckCrc
    <2>2. Loading'
        BY <1>1, <1>2, <1>4, <2>1, LoadingStays DEF BootInv, Boot!load, Boot!write
    <2>3. BootTypes' /\ Phases' /\ HeaderRead'
        BY <1>1, <2>1 DEF BootInv, BootTypes, Phases, HeaderRead, Loads, Boot!load, Boot!write
    <2>4. Blamed'
        BY <1>1, <2>1 DEF BootInv, Blamed, Spoilt, Loads, Boot!load
    <2> QED BY <2>2, <2>3, <2>4 DEF BootInv
<1> QED BY <1>3, <1>4

\* The memory test runs before the first header is read.
LEMMA BistKeeps ==
    ASSUME BootInv, Boot!BistStarts \/ Boot!BistEnds
    PROVE  BootInv'
<1>1. /\ boot_state \in {"IDLE", "HDR", "FAULT"} /\ DOMAIN tcm' = DOMAIN tcm
      /\ UNCHANGED <<args, boot_state, gap, hdr_q, Boot!load, Boot!write, Boot!outcome, glitches>>
    BY DEF BootInv, Phases, Boot!BistStarts, Boot!BistEnds
<1>2. BootTypes' /\ HeaderRead' /\ Loading'
    BY <1>1 DEF BootInv, BootTypes, HeaderRead, Loading, BytesCounted, WordsExact, Positioned,
                Held, Loads, Boot!load, Boot!write, Boot!outcome
<1>3. bist' \in {"idle", "busy"}
    BY DEF Boot!BistStarts, Boot!BistEnds
<1>4. Phases'
    BY <1>1, <1>3 DEF BootInv, Phases, Boot!load, Boot!write, Boot!outcome
<1>5. Blamed'
    BY <1>1 DEF BootInv, Blamed, Spoilt, Loads, Boot!outcome
<1> QED BY <1>2, <1>4, <1>5 DEF BootInv

\* A word's place lies in a memory, and no two words have the same.
LEMMA PlaceIn ==
    ASSUME Boot!BootAssumption, NEW h, h = hdr_q, Boot!HdrOk(h), FieldsOf(h, args),
           NEW i \in Nat, i < Total
    PROVE  Place(i) \in Boot!Itcm \cup Boot!Dtcm
<1>1. /\ ItcmBase \in Nat /\ ItcmBytes \in Nat /\ DtcmBase \in Nat /\ DtcmBytes \in Nat
      /\ h.d0 \in Nat /\ h.l0 \in Nat /\ h.d1 \in Nat /\ h.l1 \in Nat
    BY DEF Boot!BootAssumption, FieldsOf
<1>2. CASE i < h.l0
    BY <1>1, <1>2 DEF Place, Boot!HdrOk, Boot!SegOk, Boot!SegIn, Boot!Itcm, Boot!Dtcm
<1>3. CASE ~(i < h.l0)
    <2>1. h.l1 # 0 /\ i - h.l0 \in Nat /\ i - h.l0 < h.l1
        BY <1>1, <1>3 DEF Total
    <2> QED BY <1>1, <1>3, <2>1
            DEF Place, Boot!HdrOk, Boot!SegOk, Boot!SegIn, Boot!Itcm, Boot!Dtcm
<1> QED BY <1>2, <1>3

LEMMA PlacesDiffer ==
    ASSUME NEW h, h = hdr_q, FieldsOf(h, args), ~Boot!Overlap(h),
           NEW i \in Nat, NEW j \in Nat, i < j, j < Total
    PROVE  Place(i) # Place(j)
<1>1. h.d0 \in Nat /\ h.l0 \in Nat /\ h.d1 \in Nat /\ h.l1 \in Nat
    BY DEF FieldsOf
<1>2. CASE i < h.l0 /\ ~(j < h.l0)
    <2>1. Place(i) \in h.d0..(h.d0 + h.l0 - 1) /\ Place(j) \in h.d1..(h.d1 + h.l1 - 1)
        BY <1>1, <1>2 DEF Place, Total
    <2> QED BY <2>1 DEF Boot!Overlap
<1>3. CASE i < h.l0 /\ j < h.l0
    BY <1>1, <1>3 DEF Place
<1>4. CASE ~(i < h.l0)
    BY <1>1, <1>4 DEF Place
<1> QED BY <1>2, <1>3, <1>4

\* The word the bus has.
LEMMA Waiting ==
    ASSUME Boot!BootAssumption, BootInv, wr_pending_q
    PROVE  /\ boot_state = "PAY" /\ ~gap
           /\ word_q = << >> /\ Stored \in Nat /\ read \in Nat /\ read = Stored + WordBytes
           /\ Stored < Total /\ read <= Total
           /\ wr_addr_q = Place(Stored) /\ wr_data_q = WordAt(Stored)
           /\ wr_addr_q \in Boot!Itcm \cup Boot!Dtcm
<1>1. boot_state = "PAY" /\ boot_state \in Loads /\ ~gap
    BY DEF BootInv, Phases, Loads
<1>2. /\ word_q = << >> /\ wr_addr_q = cur_addr_q /\ wr_data_q = WordAt(Stored)
      /\ Aligned(Stored) /\ read \in Nat /\ bytes_left_q \in Nat /\ read + bytes_left_q = Total
      /\ Boot!HdrOk(hdr_q)
    BY <1>1 DEF BootInv, Loading, WordsExact, BytesCounted
<1>3. FieldsOf(hdr_q, args) /\ WordBytes \in Nat /\ WordBytes >= 2
    BY <1>1 DEF BootInv, HeaderRead, Boot!BootAssumption
<1>4. Stored \in Nat /\ read = Stored + WordBytes
    <2>1. Len(word_q) = 0
        BY <1>2
    <2>2. Stored = read - 0 - WordBytes
        BY <2>1, Zenon DEF Stored
    <2> QED BY <1>2, <1>3, <2>2 DEF Aligned
<1>5. Stored < Total /\ read <= Total
    BY <1>2, <1>3, <1>4 DEF Total, FieldsOf
<1>6. wr_addr_q = Place(Stored)
    BY <1>1, <1>2, <1>3, <1>4, <1>5 DEF BootInv, Loading, Positioned, Place, Total, FieldsOf
<1>7. Place(Stored) \in Boot!Itcm \cup Boot!Dtcm
    BY <1>2, <1>3, <1>4, <1>5, PlaceIn
<1> QED BY <1>1, <1>2, <1>4, <1>5, <1>6, <1>7

LEMMA AnswerKeeps ==
    ASSUME Boot!BootAssumption, BootInv, Boot!Answer
    PROVE  BootInv'
<1>1. /\ boot_state = "PAY" /\ ~gap /\ boot_state \in Loads
      /\ word_q = << >> /\ Stored \in Nat /\ read \in Nat /\ read = Stored + WordBytes
      /\ Stored < Total /\ read <= Total
      /\ wr_addr_q = Place(Stored) /\ wr_data_q = WordAt(Stored)
      /\ wr_addr_q \in Boot!Itcm \cup Boot!Dtcm
    BY Waiting DEF Boot!Answer, Loads
<1>2. /\ tcm' = [tcm EXCEPT ![Place(Stored)] = WordAt(Stored)]
      /\ wr_pending_q' = FALSE
      /\ UNCHANGED <<args, boot_state, gap, hdr_q, bytes_left_q, read, crc_q, word_q,
                     wr_addr_q, wr_data_q, Boot!outcome, bist, glitches>>
    BY <1>1 DEF Boot!Answer, BootInv, BootTypes
<1>3. /\ Aligned(Stored) /\ WordBytes \in Nat /\ WordBytes >= 2 /\ FieldsOf(hdr_q, args)
      /\ Boot!HdrOk(hdr_q)
    BY <1>1 DEF BootInv, Loading, BytesCounted, HeaderRead, Boot!BootAssumption
<1>4. Stored' = read /\ Total' = Total
    <2>1. Len(word_q) = 0
        BY <1>1
    <2>2. Stored' = read - 0 - 0
        BY <1>2, <2>1, Zenon DEF Stored
    <2> QED BY <1>1, <1>2, <2>2 DEF Total
<1>5. Aligned(read)
    BY <1>1, <1>3, AlignedSums, AlignedWord
<1>6. BytesCounted'
    BY <1>1, <1>2, <1>4, <1>5 DEF BootInv, Loading, BytesCounted
<1>7. WordsExact'
    <2>1. SubSeq(crc_q, read + 1, read) = << >>
        BY <1>1, SubSeqEmpty
    <2> QED BY <1>1, <1>2, <1>4, <2>1 DEF WordsExact
<1>8. Positioned'
    <2>1. Aligned(hdr_q.l0) /\ hdr_q.l0 \in Nat /\ hdr_q.l1 \in Nat /\ hdr_q.d0 \in Nat
          /\ hdr_q.d1 \in Nat
        BY <1>3 DEF Boot!HdrOk, Boot!SegOk, Aligned, FieldsOf
    <2>2. CASE in_seg1_q
        BY <1>1, <1>2, <1>3, <1>4, <2>1, <2>2 DEF Boot!Answer, BootInv, Loading, Positioned, Total
    <2>3. CASE ~in_seg1_q /\ hdr_q.l1 = 0
        BY <1>1, <1>2, <1>3, <1>4, <2>1, <2>3 DEF Boot!Answer, BootInv, Loading, Positioned, Total
    <2>4. CASE ~in_seg1_q /\ hdr_q.l1 # 0
        <3>1. Stored < hdr_q.l0 /\ seg_left_q = hdr_q.l0 - Stored /\ cur_addr_q = hdr_q.d0 + Stored
            BY <1>1, <2>4 DEF BootInv, Loading, Positioned
        <3>2. hdr_q.l0 >= Stored + WordBytes
            BY <1>3, <2>1, <3>1, AlignedSums
        <3>3. CASE seg_left_q = WordBytes
            <4>1. cur_addr_q' = hdr_q.d1 /\ seg_left_q' = hdr_q.l1 /\ in_seg1_q' = TRUE
                BY <2>4, <3>3 DEF Boot!Answer
            <4>2. read = hdr_q.l0
                BY <1>1, <1>3, <2>1, <3>1, <3>3
            <4> QED BY <1>2, <1>4, <2>1, <2>4, <4>1, <4>2 DEF Positioned, Total
        <3>4. CASE seg_left_q # WordBytes
            <4>1. /\ cur_addr_q' = cur_addr_q + WordBytes /\ seg_left_q' = seg_left_q - WordBytes
                  /\ in_seg1_q' = in_seg1_q
                BY <3>4 DEF Boot!Answer
            <4>2. read < hdr_q.l0
                BY <1>1, <1>3, <2>1, <3>1, <3>2, <3>4
            <4> QED BY <1>1, <1>2, <1>3, <1>4, <2>1, <2>4, <3>1, <4>1, <4>2, SMTT(30) DEF Positioned, Total
        <3> QED BY <3>3, <3>4
    <2> QED BY <2>2, <2>3, <2>4
<1>9. Held'
    <2>1. SUFFICES ASSUME ~Boot!Overlap(hdr_q), NEW i \in Nat, i < read, Aligned(i)
                   PROVE  tcm'[Place(i)] = WordAt(i)
        BY <1>1, <1>2, <1>4 DEF Held, Place, WordAt
    <2>2. CASE i = Stored
        BY <1>1, <1>2, <2>2 DEF BootInv, BootTypes
    <2>3. CASE i > Stored
        <3>1. i >= Stored + WordBytes
            BY <1>3, <2>1, <2>3, AlignedSums
        <3> QED BY <1>1, <1>3, <2>1, <3>1
    <2>4. CASE i < Stored
        <3>1. Place(i) # Place(Stored)
            BY <1>1, <1>3, <2>1, <2>4, PlacesDiffer
        <3>2. Place(i) \in Boot!Itcm \cup Boot!Dtcm
            <4>1. i < Total
                BY <1>1, <1>3, <2>4 DEF Total, FieldsOf
            <4> QED BY <1>3, <4>1, PlaceIn
        <3>3. tcm[Place(i)] = WordAt(i)
            BY <1>1, <2>1, <2>4 DEF BootInv, Loading, Held
        <3> QED BY <1>2, <3>1, <3>2, <3>3 DEF BootInv, BootTypes
    <2> QED BY <1>1, <2>2, <2>3, <2>4
<1>10. BootTypes' /\ Phases' /\ HeaderRead'
    BY <1>1, <1>2 DEF BootInv, BootTypes, Phases, HeaderRead, Boot!outcome, Loads
<1>11. Blamed'
    <2>1. Spoilt' => Spoilt
        BY <1>2 DEF Spoilt
    <2> QED BY <1>2, <2>1, BlameStays DEF Boot!outcome
<1> QED BY <1>6, <1>7, <1>8, <1>9, <1>10, <1>11 DEF BootInv, Loading

LEMMA ByteKeeps ==
    ASSUME Boot!BootAssumption, BootInv, Boot!ReadByte
    PROVE  BootInv'
<1>1. /\ boot_state = "PAY" /\ boot_state \in Loads /\ ~gap /\ ~wr_pending_q /\ bytes_left_q > 0
      /\ bytes_left_q' = bytes_left_q - 1 /\ read' = read + 1
      /\ UNCHANGED <<args, boot_state, gap, hdr_q, cur_addr_q, seg_left_q, in_seg1_q,
                     Boot!outcome, bist, tcm>>
    BY DEF Boot!ReadByte, Boot!SpiRun, Loads
<1>2. PICK b \in 0..2 :
          /\ IF b = Boot!FlashByte THEN UNCHANGED glitches ELSE glitches' = glitches + 1
          /\ crc_q' = Append(crc_q, b)
          /\ IF Len(word_q) + 1 < WordBytes
             THEN word_q' = Append(word_q, b) /\ UNCHANGED Boot!write
             ELSE /\ word_q' = << >>
                  /\ wr_pending_q' = TRUE /\ wr_gntd_q' = FALSE
                  /\ wr_addr_q' = cur_addr_q /\ wr_data_q' = Append(word_q, b)
    BY DEF Boot!ReadByte, Boot!Glitch
<1>3. /\ Boot!HdrOk(hdr_q) /\ crc_q \in Seq(0..2) /\ Len(crc_q) = read
      /\ read \in Nat /\ bytes_left_q \in Nat /\ read + bytes_left_q = Total
      /\ word_q \in Seq(0..2) /\ Len(word_q) < WordBytes /\ Aligned(Stored)
      /\ WordBytes \in Nat /\ FieldsOf(hdr_q, args)
    BY <1>1 DEF BootInv, Loading, BytesCounted, HeaderRead, Boot!BootAssumption
<1>4. Stored = read - Len(word_q) /\ Stored \in Nat /\ Len(word_q) \in Nat /\ Stored <= read
    <2>1. Stored = read - Len(word_q) - 0
        BY <1>1, Zenon DEF Stored
    <2>2. Len(word_q) \in Nat
        BY <1>3
    <2> QED BY <1>3, <2>1, <2>2 DEF Aligned
<1>5. word_q = SubSeq(crc_q, Stored + 1, read)
    BY <1>1 DEF BootInv, Loading, WordsExact
<1>6. Append(word_q, b) = SubSeq(crc_q', Stored + 1, read + 1)
    <2>1. PICK m : m = Stored + 1
        OBVIOUS
    <2>2. m \in 1..Len(crc_q) + 1
        BY <1>3, <1>4, <2>1
    <2>3. SubSeq(Append(crc_q, b), m, Len(crc_q) + 1) = Append(SubSeq(crc_q, m, Len(crc_q)), b)
        BY <1>3, <2>2, SubToAppend
    <2> QED BY <1>2, <1>3, <1>5, <2>1, <2>3
<1>7. crc_q' \in Seq(0..2) /\ Len(crc_q') = read'
    BY <1>1, <1>2, <1>3
<1>8. Total' = Total
    BY <1>1 DEF Total
<1>9. /\ Stored' = Stored
      /\ word_q' \in Seq(0..2) /\ Len(word_q') < WordBytes
      /\ wr_pending_q' => /\ word_q' = << >> /\ wr_addr_q' = cur_addr_q
                          /\ wr_data_q' = SubSeq(crc_q', Stored + 1, Stored + WordBytes)
      /\ ~wr_pending_q' => word_q' = SubSeq(crc_q', Stored + 1, read + 1)
    <2>1. CASE Len(word_q) + 1 < WordBytes
        <3>1. word_q' = Append(word_q, b) /\ ~wr_pending_q'
            BY <1>1, <1>2, <2>1 DEF Boot!write
        <3>2. word_q' \in Seq(0..2) /\ Len(word_q') = Len(word_q) + 1
            BY <1>3, <3>1
        <3>3. Stored' = read' - Len(word_q') - 0
            BY <3>1, Zenon DEF Stored
        <3> QED BY <1>1, <1>3, <1>4, <1>6, <2>1, <3>1, <3>2, <3>3
    <2>2. CASE ~(Len(word_q) + 1 < WordBytes)
        <3>1. /\ word_q' = << >> /\ wr_pending_q' = TRUE
              /\ wr_addr_q' = cur_addr_q /\ wr_data_q' = Append(word_q, b)
            BY <1>2, <2>2
        <3>2. Len(word_q) + 1 = WordBytes /\ Stored + WordBytes = read + 1
            BY <1>3, <1>4, <2>2
        <3>3. word_q' \in Seq(0..2) /\ Len(word_q') = 0
            BY <3>1
        <3>4. Stored' = read' - Len(word_q') - WordBytes
            BY <3>1, Zenon DEF Stored
        <3>5. Stored' = Stored
            BY <1>1, <1>3, <1>4, <3>2, <3>3, <3>4
        <3>6. wr_data_q' = SubSeq(crc_q', Stored + 1, Stored + WordBytes)
            BY <1>6, <3>1, <3>2
        <3>7. Len(word_q') < WordBytes
            BY <1>4, <3>2, <3>3
        <3> QED BY <3>1, <3>3, <3>5, <3>6, <3>7
    <2> QED BY <2>1, <2>2
<1>10. BytesCounted'
    <2>1. bytes_left_q' \in Nat /\ read' \in Nat /\ read' + bytes_left_q' = Total
        BY <1>1, <1>3
    <2> QED BY <1>1, <1>3, <1>7, <1>8, <1>9, <2>1 DEF BytesCounted
<1>11. WordsExact'
    BY <1>1, <1>9 DEF WordsExact, WordAt
<1>12. Positioned'
    BY <1>1, <1>8, <1>9 DEF BootInv, Loading, Positioned
<1>13. Held'
    <2>1. SUFFICES ASSUME ~Boot!Overlap(hdr_q), NEW i \in Nat, i < Stored, Aligned(i)
                   PROVE  tcm[Place(i)] = SubSeq(crc_q', i + 1, i + WordBytes)
        BY <1>1, <1>9 DEF Held, Place, WordAt
    <2>2. i + WordBytes <= Stored
        BY <1>3, <2>1, AlignedSums
    <2>3. SubSeq(crc_q', i + 1, i + WordBytes) = SubSeq(crc_q, i + 1, i + WordBytes)
        <3>1. i + 1 \in 1..Len(crc_q) + 1 /\ i + WordBytes \in 0..Len(crc_q)
            BY <1>3, <1>4, <2>1, <2>2
        <3> QED BY <1>2, <1>3, <3>1, SubOfAppend
    <2> QED BY <1>1, <2>1, <2>3 DEF BootInv, Loading, Held, WordAt
<1>14. BootTypes' /\ Phases' /\ HeaderRead'
    <2>1. glitches' \in Nat
        BY <1>2 DEF BootInv, BootTypes
    <2> QED BY <1>1, <2>1 DEF BootInv, BootTypes, Phases, HeaderRead, Boot!outcome, Loads
<1>15. Blamed'
    <2>1. ASSUME ~Spoilt, b = Boot!FlashByte PROVE ~Spoilt'
        <3>1. hdr_q = Boot!Header(args) /\ \A i \in 1..read : crc_q[i] = Boot!Payload(args)[i]
            BY <1>1, <2>1 DEF Spoilt
        <3>2. Len(Boot!Payload(args)) = Total
            BY <3>1, HeaderFields DEF BootInv, BootTypes, Total
        <3>3. b = Boot!Payload(args)[read + 1]
            BY <1>1, <1>3, <2>1, <3>2 DEF Boot!FlashByte
        <3>4. \A i \in 1..read + 1 : crc_q'[i] = IF i = read + 1 THEN b ELSE crc_q[i]
            BY <1>2, <1>3
        <3>5. \A i \in 1..read + 1 : crc_q'[i] = Boot!Payload(args)[i]
            BY <1>3, <3>1, <3>3, <3>4
        <3> QED BY <1>1, <3>1, <3>5 DEF Spoilt, Loads
    <2> QED BY <1>1, <1>2, <2>1, BlameStays DEF Boot!outcome
<1> QED BY <1>10, <1>11, <1>12, <1>13, <1>14, <1>15 DEF BootInv, Loading

LEMMA BootInvariance == ASSUME Boot!BootAssumption PROVE Boot!Spec => []BootInv
<1>1. BootInv /\ [Boot!Next]_(Boot!vars) => BootInv'
    <2> SUFFICES ASSUME BootInv, [Boot!Next]_(Boot!vars) PROVE BootInv'
        OBVIOUS
    <2>1. CASE UNCHANGED Boot!vars
        BY <2>1 DEF Boot!vars, Boot!load, Boot!write, Boot!outcome, BootInv, BootTypes, Phases,
            HeaderRead, Loading, BytesCounted, WordsExact, Positioned, Held, Blamed, Spoilt,
            Stored, Total, Place, WordAt
    <2> QED BY <2>1, StartKeeps, HeaderKeeps, CheckKeeps, QuietKeeps, GlitchKeeps, CrcKeeps,
               BistKeeps, AnswerKeeps, ByteKeeps DEF Boot!Next
<1> QED BY <1>1, BootStarts, PTL DEF Boot!Spec

\* The words of a segment that begins at byte `from' of the payload.
LEMMA SegmentHeld ==
    ASSUME Boot!BootAssumption, NEW p \in Seq({0, 1}), NEW from \in Nat, NEW len \in Nat,
           Aligned(from), Aligned(len), from + len <= Len(p), NEW dest \in Nat,
           \A i \in Nat : Aligned(i) /\ from <= i /\ i < from + len =>
               /\ dest + (i - from) \in DOMAIN tcm
               /\ tcm[dest + (i - from)] = SubSeq(p, i + 1, i + WordBytes)
    PROVE  Boot!HasWords(dest, SubSeq(p, from + 1, from + len))
<1>1. PICK s : s = SubSeq(p, from + 1, from + len)
    OBVIOUS
<1>2. /\ s \in Seq({0, 1}) /\ Len(s) = len
      /\ \A i \in 1..len : s[i] = p[from + i]
    <2>1. \A i \in from + 1..from + len : p[i] \in {0, 1}
        BY ElementOfSeq
    <2>2. /\ SubSeq(p, from + 1, from + len) \in Seq({0, 1})
          /\ Len(SubSeq(p, from + 1, from + len))
                = IF from + 1 <= from + len THEN from + len - (from + 1) + 1 ELSE 0
          /\ \A i \in 1..from + len - (from + 1) + 1 :
                 SubSeq(p, from + 1, from + len)[i] = p[from + 1 + i - 1]
        BY <2>1, SubSeqProperties
    <2>3. Len(s) = len
        <3>1. CASE len = 0
            BY <1>1, <2>2, <3>1
        <3>2. CASE len > 0
            <4>1. from + 1 <= from + len /\ from + len - (from + 1) + 1 = len
                BY <3>2
            <4> QED BY <1>1, <2>2, <4>1
        <3> QED BY <3>1, <3>2
    <2>4. ASSUME NEW i \in 1..len PROVE s[i] = p[from + i]
        <3>1. i \in 1..from + len - (from + 1) + 1 /\ from + 1 + i - 1 = from + i
            OBVIOUS
        <3> QED BY <1>1, <2>2, <3>1
    <2> QED BY <1>1, <2>2, <2>3, <2>4
<1>3. ASSUME NEW i \in 1..len, i % WordBytes = 1 % WordBytes
      PROVE  /\ dest + i - 1 \in DOMAIN tcm
             /\ tcm[dest + i - 1] = SubSeq(s, i, i + WordBytes - 1)
    <2>1. Aligned(i - 1)
        BY <1>3, Behind
    <2>2. PICK a \in Nat : a = from + (i - 1)
        BY <1>3
    <2>3. Aligned(a)
        BY <2>1, <2>2, AlignedSums
    <2>4. WordBytes \in Nat \ {0}
        BY DEF Boot!BootAssumption
    <2>5. i - 1 + WordBytes <= len
        BY <1>3, <2>1, AlignedSums
    <2>6. from <= a /\ a < from + len /\ dest + (a - from) = dest + i - 1
        BY <1>3, <2>2
    <2>7. tcm[dest + i - 1] = SubSeq(p, a + 1, a + WordBytes) /\ dest + i - 1 \in DOMAIN tcm
        BY <2>2, <2>3, <2>6
    <2>8. SubSeq(s, i, i + WordBytes - 1) = SubSeq(p, a + 1, a + WordBytes)
        <3>1. PICK f \in 1..Len(p), t \in 1..Len(p) : f = from + 1 /\ t = from + len
            BY <1>3
        <3>2. i \in 1..t - f + 1 /\ i + WordBytes - 1 \in 1..t - f + 1
            BY <1>3, <2>4, <2>5, <3>1
        <3>3. SubSeq(SubSeq(p, f, t), i, i + WordBytes - 1)
                  = SubSeq(p, f + i - 1, f + (i + WordBytes - 1) - 1)
            BY <3>2, SubSeqOfSubSeq, SMTT(30)
        <3>4. f + i - 1 = a + 1 /\ f + (i + WordBytes - 1) - 1 = a + WordBytes
            BY <1>3, <2>2, <2>4, <3>1
        <3> QED BY <1>1, <3>1, <3>3, <3>4
    <2> QED BY <2>7, <2>8
<1>4. Boot!HasWords(dest, s)
    <2> SUFFICES ASSUME NEW w \in Boot!Words(dest, s)
                 PROVE  w.addr \in DOMAIN tcm /\ tcm[w.addr] = w.word
        BY DEF Boot!HasWords
    <2>1. PICK i \in 1..Len(s) :
              /\ i % WordBytes = 1 % WordBytes
              /\ w = [addr |-> dest + i - 1, word |-> SubSeq(s, i, i + WordBytes - 1)]
        BY DEF Boot!Words
    <2>2. w.addr = dest + i - 1 /\ w.word = SubSeq(s, i, i + WordBytes - 1)
        BY <2>1
    <2>3. i \in 1..len
        BY <1>2
    <2> QED BY <1>3, <2>1, <2>2, <2>3
<1> QED BY <1>1, <1>4

\* What was loaded when the core is released.
Loaded(p) ==
    /\ boot_state = "DONE" /\ boot_state \in Loads /\ ~wr_pending_q
    /\ args \in Arguments /\ FieldsOf(hdr_q, args) /\ Boot!HdrOk(hdr_q)
    /\ DOMAIN tcm = Boot!Itcm \cup Boot!Dtcm
    /\ hdr_q.l0 \in Nat \ {0} /\ hdr_q.l1 \in Nat /\ hdr_q.d0 \in Nat /\ hdr_q.d1 \in Nat
    /\ Aligned(hdr_q.l0) /\ Aligned(hdr_q.l1)
    /\ Total \in Nat /\ Total = hdr_q.l0 + hdr_q.l1
    /\ p \in Seq({0, 1}) /\ p = Boot!Payload(args) /\ Len(p) = Total
    /\ crc_q = p /\ Stored = Total

LEMMA LoadedPayload ==
    ASSUME Boot!BootAssumption, BootInv, boot_done_q
    PROVE  Loaded(Boot!Payload(args))
<1>1. boot_state = "DONE" /\ boot_state \in Loads /\ ~wr_pending_q
    BY DEF BootInv, Phases, Loads
<1>2. /\ Boot!HdrOk(hdr_q) /\ crc_q \in Seq(0..2) /\ Len(crc_q) = read
      /\ read \in Nat /\ bytes_left_q = 0 /\ read + bytes_left_q = Total
      /\ word_q \in Seq(0..2) /\ Len(word_q) < WordBytes /\ Aligned(Stored)
      /\ crc_q = hdr_q.crc
    BY <1>1 DEF BootInv, Loading, BytesCounted
<1>3. /\ WordBytes \in Nat /\ WordBytes >= 2 /\ FieldsOf(hdr_q, args)
      /\ DOMAIN tcm = Boot!Itcm \cup Boot!Dtcm /\ args \in Arguments
    BY <1>1 DEF BootInv, BootTypes, HeaderRead, Boot!BootAssumption
<1>4. /\ hdr_q.l0 \in Nat \ {0} /\ hdr_q.l1 \in Nat /\ hdr_q.d0 \in Nat /\ hdr_q.d1 \in Nat
      /\ Aligned(hdr_q.l0) /\ Aligned(hdr_q.l1)
    BY <1>2, <1>3, AlignedWord DEF Boot!HdrOk, Boot!SegOk, Aligned, FieldsOf
<1>5. Total \in Nat /\ Total = hdr_q.l0 + hdr_q.l1 /\ Aligned(Total) /\ read = Total
    BY <1>2, <1>4, AlignedSums DEF Total
<1>6. Total >= WordBytes
    <2>1. Total > 0 /\ 0 \in Nat
        BY <1>4, <1>5
    <2>2. Aligned(0)
        BY <1>3, AlignedWord
    <2>3. Total >= 0 + WordBytes
        BY <1>5, <2>1, <2>2, AlignedSums
    <2> QED BY <1>3, <1>5, <2>3
<1>7. crc_q = Boot!Payload(args)
    <2>1. PICK one : one = <<2>> /\ Len(one) = 1
        <3>1. Len(<<2>>) = 1
            OBVIOUS
        <3> QED BY <3>1, Zenon
    <2>2. Len(crc_q) >= 2
        BY <1>2, <1>3, <1>5, <1>6
    <2>3. crc_q # <<2>>
        <3>1. Len(crc_q) # 1
            BY <1>2, <2>2
        <3> QED BY <2>1, <3>1, Zenon
    <2> QED BY <1>2, <1>3, <2>3 DEF FieldsOf
<1>8. Stored = Total
    <2>1. Len(word_q) \in Nat
        BY <1>2
    <2>2. Stored = read - Len(word_q) - 0
        BY <1>1, Zenon DEF Stored
    <2>3. Stored \in Nat /\ Stored <= Total
        BY <1>2, <1>5, <2>1, <2>2 DEF Aligned
    <2>4. Stored < Total => Total >= Stored + WordBytes
        BY <1>2, <1>5, <2>3, AlignedSums
    <2> QED BY <1>2, <1>3, <1>5, <2>1, <2>2, <2>3, <2>4
<1>9. PICK p \in Seq({0, 1}) : p = Boot!Payload(args) /\ Len(p) = Total
    BY <1>2, <1>3, <1>5, <1>7, HeaderFields
<1> QED BY <1>1, <1>2, <1>3, <1>4, <1>5, <1>7, <1>8, <1>9 DEF Loaded

\* A header that was read and whose places are the image's, or of segments that
\* are empty, puts the payload where the image has it.
LEMMA SamePlaces ==
    ASSUME Boot!BootAssumption, args \in Arguments, FieldsOf(hdr_q, args),
           Total = Len(Boot!Payload(args)), ~Boot!Misplaced
    PROVE  /\ Boot!Overlap(hdr_q) <=> Boot!Overlap(Boot!Header(args))
           /\ Boot!Delivered(hdr_q) <=> Boot!Delivered(Boot!Header(args))
<1>1. PICK g, h, p : g = Boot!Header(args) /\ h = hdr_q /\ p = Boot!Payload(args)
    OBVIOUS
<1>2. FieldsOf(g, args) /\ p \in Seq({0, 1}) /\ Len(p) = g.l0 + g.l1
    BY <1>1, HeaderFields
<1>3. h.l0 = g.l0 /\ h.l1 = g.l1
    BY <1>1, <1>2 DEF FieldsOf, Total
<1>4. h.d0 = g.d0 /\ (h.l1 # 0 => h.d1 = g.d1)
    BY <1>1 DEF Boot!Misplaced
<1>5. CASE h.l1 # 0
    BY <1>1, <1>3, <1>4, <1>5 DEF Boot!Overlap, Boot!Delivered
<1>6. CASE h.l1 = 0
    <2>1. ASSUME NEW d \in Nat PROVE d..(d + 0 - 1) = {}
        OBVIOUS
    <2>2. ~Boot!Overlap(h) /\ ~Boot!Overlap(g)
        BY <1>2, <1>1, <1>3, <1>6, <2>1 DEF Boot!Overlap, FieldsOf
    <2>3. SubSeq(p, g.l0 + 1, Len(p)) = << >>
        BY <1>2, <1>3, <1>6 DEF FieldsOf
    <2>4. \A d \in Nat : Boot!HasWords(d, << >>)
        BY DEF Boot!HasWords, Boot!Words
    <2>5. h.d1 \in Nat /\ g.d1 \in Nat
        BY <1>1, <1>2 DEF FieldsOf
    <2> QED BY <1>1, <1>3, <1>4, <2>2, <2>3, <2>4, <2>5 DEF Boot!Delivered
<1> QED BY <1>5, <1>6

\* The boot loader, for words, memories, images and headers of every size and
\* misread bytes, refused writes and lost progress at any step: the core is
\* released only on the payload of the flash, each word at the place the
\* header that was read gives it, which is the image's unless an address was
\* misread as another legal one; nothing is written outside the memories; and booting is
\* given up only on an image that cannot be loaded, or after as many glitches
\* as there are attempts.
THEOREM PayloadIsDelivered ==
    ASSUME Boot!BootAssumption
    PROVE  Boot!Spec => []DeliversPayload
<1>1. ASSUME BootInv PROVE Boot!NeverWild
    BY <1>1, Waiting DEF Boot!NeverWild
<1>2. ASSUME BootInv PROVE Boot!GivesUpForCause
    BY <1>2 DEF BootInv, Blamed, Boot!GivesUpForCause
<1>3. ASSUME BootInv, boot_done_q, ~Boot!Overlap(hdr_q)
      PROVE  Boot!Delivered(hdr_q)
    <2>1. PICK p : p = Boot!Payload(args) /\ Loaded(p)
        BY <1>3, LoadedPayload
    <2>2. \A i \in Nat : i < Total /\ Aligned(i) =>
               /\ Place(i) \in DOMAIN tcm
               /\ tcm[Place(i)] = SubSeq(p, i + 1, i + WordBytes)
        <3>1. \A i \in Nat : i < Stored /\ Aligned(i) => tcm[Place(i)] = WordAt(i)
            BY <1>3, <2>1 DEF Loaded, BootInv, Loading, Held
        <3>2. \A i \in Nat : i < Total => Place(i) \in DOMAIN tcm
            BY <2>1, PlaceIn DEF Loaded
        <3> QED BY <2>1, <3>1, <3>2 DEF Loaded, WordAt
    <2>3. Boot!HasWords(hdr_q.d0, SubSeq(p, 1, hdr_q.l0))
        <3>1. ASSUME NEW i \in Nat, Aligned(i), 0 <= i, i < 0 + hdr_q.l0
              PROVE  /\ hdr_q.d0 + (i - 0) \in DOMAIN tcm
                     /\ tcm[hdr_q.d0 + (i - 0)] = SubSeq(p, i + 1, i + WordBytes)
            <4>1. i < Total /\ i < hdr_q.l0 /\ hdr_q.d0 + (i - 0) = hdr_q.d0 + i
                BY <2>1, <3>1 DEF Loaded
            <4>2. Place(i) = hdr_q.d0 + i
                BY <4>1 DEF Place
            <4> QED BY <2>2, <3>1, <4>1, <4>2
        <3>2. 0 \in Nat /\ Aligned(0) /\ 0 + hdr_q.l0 <= Len(p)
            BY <2>1, AlignedWord DEF Loaded
        <3>3. Boot!HasWords(hdr_q.d0, SubSeq(p, 0 + 1, 0 + hdr_q.l0))
            BY <2>1, <3>1, <3>2, SegmentHeld DEF Loaded
        <3>4. 0 + 1 = 1 /\ 0 + hdr_q.l0 = hdr_q.l0
            BY <2>1 DEF Loaded
        <3> QED BY <3>3, <3>4
    <2>4. Boot!HasWords(hdr_q.d1, SubSeq(p, hdr_q.l0 + 1, Len(p)))
        <3>1. ASSUME NEW i \in Nat, Aligned(i), hdr_q.l0 <= i, i < hdr_q.l0 + hdr_q.l1
              PROVE  /\ hdr_q.d1 + (i - hdr_q.l0) \in DOMAIN tcm
                     /\ tcm[hdr_q.d1 + (i - hdr_q.l0)] = SubSeq(p, i + 1, i + WordBytes)
            <4>1. i < Total /\ ~(i < hdr_q.l0)
                BY <2>1, <3>1 DEF Loaded
            <4>2. Place(i) = hdr_q.d1 + (i - hdr_q.l0)
                BY <4>1 DEF Place
            <4> QED BY <2>2, <3>1, <4>1, <4>2
        <3>2. hdr_q.l0 + hdr_q.l1 <= Len(p) /\ hdr_q.l0 + hdr_q.l1 = Len(p)
            BY <2>1 DEF Loaded
        <3>3. Boot!HasWords(hdr_q.d1, SubSeq(p, hdr_q.l0 + 1, hdr_q.l0 + hdr_q.l1))
            BY <2>1, <3>1, <3>2, SegmentHeld DEF Loaded
        <3> QED BY <3>2, <3>3
    <2> QED BY <2>1, <2>3, <2>4 DEF Boot!Delivered
<1>4. ASSUME BootInv, boot_done_q
      PROVE  /\ ~wr_pending_q /\ args \in Arguments /\ FieldsOf(hdr_q, args)
             /\ Total = Len(Boot!Payload(args))
    <2>1. PICK p : p = Boot!Payload(args) /\ Loaded(p)
        BY <1>4, LoadedPayload
    <2> QED BY <2>1 DEF Loaded
<1>5. BootInv => DeliversPayload
    BY <1>1, <1>2, <1>3, <1>4, SamePlaces DEF DeliversPayload, Boot!DeliversPayload, Boot!Delivered
<1> QED BY <1>5, BootInvariance, PTL
=============================================================================
