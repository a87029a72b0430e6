----------------------------- MODULE CoreProofs -----------------------------
(***************************************************************************)
(* Theorems about Core, for every program, register list and address space *)
(* CoreAssumption admits: its registers fit together, what it asks of the  *)
(* bus it holds, and every edge is a step of the abstract hart or none.    *)
(***************************************************************************)
EXTENDS Core, TLAPS

\* Instructions and what they name.
LEMMA Offered ==
    ASSUME FetchOK, NEW i \in instr
    PROVE  i \in Instruction /\ i.n \in 1..Len(Saved) /\ instr = {i} /\ instr # {}
<1>1. i \in Instruction /\ instr = {i} BY DEF FetchOK, Offers
<1> QED BY <1>1, CoreAssumption

LEMMA Registers == /\ \A k \in 1..Len(Saved) : Saved[k] \in Reg
                   /\ "a0" \in Reg
BY CoreAssumption DEF Reg

LEMMA Fetches ==
    ASSUME FetchOK, \/ Waits \/ InLine
                    \/ \E target \in Pc : Redirect(target)
    PROVE  FetchOK'
<1>1. {} \in Offers BY DEF Offers
<1>2. CASE Waits BY <1>2 DEF Waits, FetchOK, Offers
<1>3. CASE InLine BY <1>3, CoreAssumption DEF InLine, FetchOK, Offers
<1>4. CASE \E target \in Pc : Redirect(target)
  BY <1>1, <1>4 DEF Redirect, FetchOK, Offers
<1> QED BY <1>2, <1>3, <1>4

\* An instruction that waits stays on offer.
LEMMA WaitsKeeps ==
    ASSUME Waits, instr # {}
    PROVE  instr' = instr /\ pc' = pc
BY DEF Waits

LEMMA TrapTaken ==
    ASSUME CoreTypeOK, NEW vector \in Pc, TakeTrap(vector), irq' \in BOOLEAN
    PROVE  FetchOK' /\ DataOK' /\ TrapOK'
<1> USE DEF CoreTypeOK, TakeTrap
<1>1. FetchOK' BY Fetches
<1>2. DataOK' BY DEF DataOK, dataVars
<1>3. TrapOK' BY DEF TrapOK, FetchOK
<1> QED BY <1>1, <1>2, <1>3

\* Outside the states that wait, nothing is under way.
LEMMA AtRest ==
    ASSUME NEW s \in {"RUN", "SLEEP"}, Go(s), lsu_q' = "IDLE"
    PROVE  ControlOK'
<1>1. state_q' = s /\ seq_idx_q' = 0 /\ seq_pend_q' = FALSE BY DEF Go
<1>2. seq_idx_q' \in 0..Len(Saved) + 1 BY <1>1, CoreAssumption
<1>3. ~seq_pend_q' /\ seq_pend_q' \in BOOLEAN BY <1>1
<1>4. ~(lsu_q' # "IDLE") /\ ~(state_q' = "WAIT_LSU" \/ seq_pend_q') BY <1>1, <1>3
<1>5. \A i \in instr' : seq_pend_q' => IsMem(i)' BY <1>3
<1> QED BY <1>1, <1>2, <1>3, <1>4, <1>5 DEF ControlOK

LEMMA Writing ==
    ASSUME DataOK, NEW r \in Reg, NEW values \in SUBSET Pc, Writes(r, values)
    PROVE  reg' \in [Reg -> Pc]
BY DEF DataOK, Writes

LEMMA AtRestNow ==
    ASSUME ControlOK, state_q \in {"RUN", "SLEEP", "WAIT_MD"}
    PROVE  lsu_q = "IDLE" /\ seq_idx_q = 0 /\ seq_pend_q = FALSE
<1>1. state_q # "SEQ" /\ state_q # "WAIT_LSU" OBVIOUS
<1>2. seq_idx_q = 0 /\ ~seq_pend_q /\ seq_pend_q \in BOOLEAN BY <1>1 DEF ControlOK
<1>3. lsu_q = "IDLE" BY <1>1, <1>2 DEF ControlOK
<1> QED BY <1>2, <1>3

\* An answer puts a value where there is a register or a word for it.
LEMMA Performs ==
    ASSUME CoreTypeOK, NEW i \in instr, NEW err \in BOOLEAN,
           state_q = "SEQ" => IsMem(i),
           ~err => Access(i).addr \in Mem,
           Perform(i, err)
    PROVE  reg' \in [Reg -> Pc] /\ mem' \in [Mem -> Pc]
<1>1. i.n \in 1..Len(Saved) BY Offered DEF CoreTypeOK
<1>2. Access(i).reg \in Reg
  <2>1. CASE state_q = "SEQ"
    <3>1. seq_idx_q \in Nat /\ seq_idx_q < i.n
      BY <2>1, CoreAssumption DEF CoreTypeOK, ControlOK, IsMem
    <3>2. i.n - seq_idx_q \in 1..Len(Saved) BY <1>1, <3>1, CoreAssumption
    <3>3. BeatReg(i) = Saved[i.n - seq_idx_q] BY <2>1 DEF BeatReg
    <3> QED BY <2>1, <3>2, <3>3, Registers DEF Access
  <2>2. CASE state_q # "SEQ" BY <1>1, <2>2, Registers DEF Access
  <2> QED BY <2>1, <2>2
<1>3. mem' \in [Mem -> Pc] BY <1>2 DEF Perform, CoreTypeOK, DataOK
<1>4. reg' \in [Reg -> Pc]
  <2>1. CASE ~Access(i).we /\ ~err
    <3>1. mem[Access(i).addr] \in Pc BY <2>1 DEF CoreTypeOK, DataOK
    <3> QED BY <2>1, <3>1 DEF Perform, CoreTypeOK, DataOK
  <2>2. CASE ~(~Access(i).we /\ ~err) BY <2>2 DEF Perform, CoreTypeOK, DataOK
  <2> QED BY <2>1, <2>2
<1> QED BY <1>3, <1>4

\* The control part of an access, alone or within a sequence.
LEMMA Accesses ==
    ASSUME CoreTypeOK, NEW i \in instr, NEW gnt \in BOOLEAN, NEW rv \in BOOLEAN,
           NEW err \in BOOLEAN, WaitLsu(i, gnt, rv, err), ~(LsuValid(rv))
    PROVE  ControlOK'
<1>1. state_q = "WAIT_LSU" /\ lsu_q \in {"ADDR", "DATA"}
  BY DEF WaitLsu, CoreTypeOK, ControlOK
<1>2. /\ state_q' = "WAIT_LSU" /\ seq_idx_q' = 0 /\ seq_pend_q' = FALSE
  BY DEF WaitLsu, Go
<1>3. lsu_q' \in {"ADDR", "DATA"}
  BY <1>1 DEF WaitLsu, LsuAdvance, LsuNext, LsuValid
<1>4. instr' = instr /\ instr # {} BY WaitsKeeps DEF WaitLsu
<1>5. seq_idx_q' \in 0..Len(Saved) + 1 BY <1>2, CoreAssumption
<1> QED BY <1>2, <1>3, <1>4, <1>5 DEF ControlOK

LEMMA Beats ==
    ASSUME CoreTypeOK, NEW i \in instr, NEW gnt \in BOOLEAN, NEW rv \in BOOLEAN,
           NEW err \in BOOLEAN, SeqMem(i, gnt, rv, err)
    PROVE  ControlOK'
<1> USE DEF CoreTypeOK
<1>1. state_q' = "SEQ" /\ IsMem(i) /\ state_q = "SEQ" BY DEF SeqMem, Go
<1>2. instr' = instr /\ instr = {i} BY Offered, WaitsKeeps DEF SeqMem
<1>3. seq_pend_q \in BOOLEAN /\ (lsu_q # "IDLE" <=> seq_pend_q)
  BY <1>1 DEF ControlOK
<1>4. lsu_q \in {"IDLE", "ADDR", "DATA"} BY DEF ControlOK
<1>5. lsu_q' = LsuNext(SeqIssue(i), gnt, rv) /\ (rv => lsu_q = "DATA") /\ err = FALSE
  BY DEF SeqMem, LsuAdvance, MayAnswer
<1>6. seq_pend_q' = PendNext(SeqIssue(i), LsuValid(rv))
      /\ seq_idx_q' = IdxNext(i, SeqIssue(i), SeqStepDone(i, rv, err))
  BY DEF SeqMem
<1>7. seq_idx_q \in 0..Len(Saved) + 1 /\ i.n \in 1..Len(Saved) BY Offered DEF ControlOK
<1>8. CASE ~seq_pend_q
  <2>1. SeqIssue(i) /\ lsu_q = "IDLE" /\ rv = FALSE
    BY <1>1, <1>3, <1>5, <1>8 DEF SeqIssue
  <2>2. lsu_q' \in {"ADDR", "DATA"} BY <1>5, <2>1 DEF LsuNext
  <2>3. seq_pend_q' = TRUE BY <1>6, <2>1 DEF PendNext
  <2>4. seq_idx_q' = seq_idx_q
    BY <1>1, <1>6, <2>1 DEF IdxNext, SeqStepDone, LsuValid
  <2>5. \A j \in instr' : IsMem(j)' BY <1>1, <1>2, <2>4 DEF IsMem
  <2> QED BY <1>1, <1>2, <1>7, <2>2, <2>3, <2>4, <2>5 DEF ControlOK
<1>9. CASE seq_pend_q /\ ~rv
  <2>1. ~SeqIssue(i) /\ lsu_q \in {"ADDR", "DATA"} BY <1>3, <1>4, <1>9 DEF SeqIssue
  <2>2. lsu_q' \in {"ADDR", "DATA"} BY <1>5, <1>9, <2>1 DEF LsuNext
  <2>3. seq_pend_q' = TRUE BY <1>3, <1>6, <1>9, <2>1 DEF PendNext, LsuValid
  <2>4. seq_idx_q' = seq_idx_q
    BY <1>1, <1>6, <1>9 DEF IdxNext, SeqStepDone, LsuValid
  <2>5. \A j \in instr' : IsMem(j)' BY <1>1, <1>2, <2>4 DEF IsMem
  <2> QED BY <1>1, <1>2, <1>7, <2>2, <2>3, <2>4, <2>5 DEF ControlOK
<1>10. CASE seq_pend_q /\ rv
  <2>1. ~SeqIssue(i) /\ lsu_q = "DATA" BY <1>5, <1>10 DEF SeqIssue
  <2>2. lsu_q' = "IDLE" BY <1>5, <1>10, <2>1 DEF LsuNext
  <2>3. seq_pend_q' = FALSE BY <1>6, <1>10, <2>1 DEF PendNext, LsuValid
  <2>4. seq_idx_q' = seq_idx_q + 1
    BY <1>1, <1>5, <1>6, <1>10, <2>1 DEF IdxNext, SeqStepDone, LsuValid
  <2>5. seq_idx_q' \in 0..Len(Saved) + 1
    BY <1>1, <1>7, <2>4, CoreAssumption DEF IsMem
  <2> QED BY <1>1, <1>2, <2>2, <2>3, <2>5 DEF ControlOK
<1> QED BY <1>3, <1>8, <1>9, <1>10

-----------------------------------------------------------------------------
(* One lemma per group of actions.                                          *)

LEMMA OneCycle ==
    ASSUME CoreTypeOK, irq' \in BOOLEAN, NEW en \in BOOLEAN,
           \/ NothingToDo(en) \/ Sleep(en) \/ Interrupt(en)
           \/ \E i \in instr, deny \in BOOLEAN : Exception(en, i, deny)
           \/ \E i \in instr : Alu(en, i) \/ Csr(en, i) \/ Mret(en, i) \/ Wfi(en, i)
           \/ \E i \in instr, target \in Pc : Jump(en, i, target)
    PROVE  CoreTypeOK'
<1> USE DEF CoreTypeOK
<1>1. CASE NothingToDo(en)
  <2>1. lsu_q' = "IDLE" BY <1>1, AtRestNow DEF NothingToDo
  <2>2. ControlOK' BY <1>1, <2>1, AtRest DEF NothingToDo
  <2>3. FetchOK' BY <1>1, Fetches DEF NothingToDo
  <2>4. DataOK' /\ TrapOK' BY <1>1 DEF NothingToDo, DataOK, TrapOK, dataVars, trapVars
  <2> QED BY <2>2, <2>3, <2>4
<1>2. CASE Sleep(en)
  <2>1. lsu_q' = "IDLE" BY <1>2, AtRestNow DEF Sleep
  <2>2. ControlOK' BY <1>2, <2>1, AtRest DEF Sleep
  <2>3. FetchOK' BY <1>2, Fetches DEF Sleep
  <2>4. DataOK' /\ TrapOK' BY <1>2 DEF Sleep, DataOK, TrapOK, dataVars, trapVars
  <2> QED BY <2>2, <2>3, <2>4
<1>3. CASE Interrupt(en)
  <2>1. lsu_q' = "IDLE"
    BY <1>3, AtRestNow DEF Interrupt, TakeIrq, InstrExec, LsuQuiet
  <2>2. ControlOK' BY <1>3, <2>1, AtRest DEF Interrupt
  <2>3. FetchOK' /\ DataOK' /\ TrapOK'
    BY <1>3, TrapTaken, CoreAssumption DEF Interrupt
  <2> QED BY <2>2, <2>3
<1>4. ASSUME NEW i \in instr, NEW deny \in BOOLEAN, Exception(en, i, deny)
      PROVE CoreTypeOK'
  <2>1. lsu_q' = "IDLE"
    BY <1>4, AtRestNow DEF Exception, Executes, InstrExec, LsuQuiet
  <2>2. ControlOK' BY <1>4, <2>1, AtRest DEF Exception
  <2>3. FetchOK' /\ DataOK' /\ TrapOK'
    BY <1>4, TrapTaken, CoreAssumption DEF Exception
  <2> QED BY <2>2, <2>3
<1>5. ASSUME NEW i \in instr, Alu(en, i) PROVE CoreTypeOK'
  <2>1. lsu_q' = "IDLE" BY <1>5, AtRestNow DEF Alu, Executes, InstrExec
  <2>2. ControlOK' BY <1>5, <2>1, AtRest DEF Alu
  <2>3. FetchOK' BY <1>5, Fetches DEF Alu
  <2>4. DataOK' BY <1>5, Writing DEF Alu, DataOK
  <2>5. TrapOK' BY <1>5 DEF Alu, TrapOK, trapVars
  <2> QED BY <2>2, <2>3, <2>4, <2>5
<1>6. ASSUME NEW i \in instr, Csr(en, i) PROVE CoreTypeOK'
  <2>1. lsu_q' = "IDLE" BY <1>6, AtRestNow DEF Csr, Executes, InstrExec
  <2>2. ControlOK' BY <1>6, <2>1, AtRest DEF Csr
  <2>3. FetchOK' BY <1>6, Fetches DEF Csr
  <2>4. {mepc_q} \subseteq Pc BY DEF TrapOK
  <2>5. DataOK' BY <1>6, <2>4, Writing DEF Csr, DataOK
  <2>6. TrapOK' BY <1>6 DEF Csr, TrapOK
  <2> QED BY <2>2, <2>3, <2>5, <2>6
<1>7. ASSUME NEW i \in instr, Mret(en, i) PROVE CoreTypeOK'
  <2>1. lsu_q' = "IDLE" BY <1>7, AtRestNow DEF Mret, Executes, InstrExec
  <2>2. ControlOK' BY <1>7, <2>1, AtRest DEF Mret
  <2>3. FetchOK' BY <1>7, Fetches DEF Mret, TrapOK
  <2>4. DataOK' /\ TrapOK' BY <1>7 DEF Mret, DataOK, TrapOK, dataVars
  <2> QED BY <2>2, <2>3, <2>4
<1>8. ASSUME NEW i \in instr, Wfi(en, i) PROVE CoreTypeOK'
  <2>1. lsu_q' = "IDLE" BY <1>8, AtRestNow DEF Wfi, Executes, InstrExec
  <2>2. ControlOK' BY <1>8, <2>1, AtRest DEF Wfi
  <2>3. NextPc[pc] \in Pc BY CoreAssumption DEF FetchOK
  <2>4. FetchOK' BY <1>8, <2>3, Fetches DEF Wfi
  <2>5. DataOK' /\ TrapOK' BY <1>8 DEF Wfi, DataOK, TrapOK, dataVars, trapVars
  <2> QED BY <2>2, <2>4, <2>5
<1>9. ASSUME NEW i \in instr, NEW target \in Pc, Jump(en, i, target)
      PROVE CoreTypeOK'
  <2>1. lsu_q' = "IDLE" BY <1>9, AtRestNow DEF Jump, Executes, InstrExec
  <2>2. ControlOK' BY <1>9, <2>1, AtRest DEF Jump
  <2>3. FetchOK' BY <1>9, Fetches DEF Jump
  <2>4. {NextPc[pc]} \subseteq Pc BY CoreAssumption DEF FetchOK
  <2>5. DataOK' BY <1>9, <2>4, Writing DEF Jump, DataOK
  <2>6. TrapOK' BY <1>9 DEF Jump, TrapOK, trapVars
  <2> QED BY <2>2, <2>3, <2>5, <2>6
<1> QED BY <1>1, <1>2, <1>3, <1>4, <1>5, <1>6, <1>7, <1>8, <1>9

LEMMA Starts ==
    ASSUME CoreTypeOK, irq' \in BOOLEAN, NEW en \in BOOLEAN, NEW i \in instr,
           \/ StartMd(en, i) \/ StartSeq(en, i)
           \/ \E deny, gnt \in BOOLEAN : StartLsu(en, i, deny, gnt)
    PROVE  CoreTypeOK'
<1> USE DEF CoreTypeOK
<1>1. lsu_q = "IDLE" /\ seq_idx_q = 0 /\ seq_pend_q = FALSE
  BY AtRestNow DEF StartMd, StartSeq, StartLsu, Executes, InstrExec
<1>2. Waits /\ UNCHANGED <<dataVars, trapVars>> BY DEF StartMd, StartSeq, StartLsu
<1>3. FetchOK' /\ instr' # {} BY <1>2, Fetches, WaitsKeeps, Offered
<1>4. DataOK' /\ TrapOK' BY <1>2 DEF DataOK, TrapOK, dataVars, trapVars
<1>5. seq_idx_q' = 0 /\ seq_pend_q' = FALSE
  BY <1>1 DEF StartMd, StartSeq, StartLsu, Go
<1>6. seq_idx_q' \in 0..Len(Saved) + 1 BY <1>5, CoreAssumption
<1>7. \/ state_q' \in {"WAIT_MD", "SEQ"} /\ lsu_q' = "IDLE"
      \/ state_q' = "WAIT_LSU" /\ lsu_q' \in {"ADDR", "DATA"}
  BY <1>1 DEF StartMd, StartSeq, StartLsu, Go, LsuAdvance, LsuNext
<1>8. ControlOK' BY <1>3, <1>5, <1>6, <1>7 DEF ControlOK
<1> QED BY <1>3, <1>4, <1>8

LEMMA WaitsFor ==
    ASSUME CoreTypeOK, irq' \in BOOLEAN,
           \/ \E done \in BOOLEAN : WaitMd(done)
           \/ \E i \in instr, gnt, rv, err \in BOOLEAN : WaitLsu(i, gnt, rv, err)
    PROVE  CoreTypeOK'
<1> USE DEF CoreTypeOK
<1>1. ASSUME NEW done \in BOOLEAN, WaitMd(done) PROVE CoreTypeOK'
  <2>1. lsu_q' = "IDLE" /\ lsu_q = "IDLE" BY <1>1, AtRestNow DEF WaitMd
  <2>2. TrapOK' BY <1>1 DEF WaitMd, TrapOK, trapVars
  <2>3. FetchOK' BY <1>1, Fetches DEF WaitMd
  <2>4. DataOK' BY <1>1, Writing DEF WaitMd, DataOK
  <2>5. CASE done BY <1>1, <2>1, <2>2, <2>3, <2>4, <2>5, AtRest DEF WaitMd
  <2>6. CASE ~done
    <3>1. state_q' = "WAIT_MD" /\ seq_idx_q' = 0 /\ seq_pend_q' = FALSE
      BY <1>1, <2>6 DEF WaitMd, Go
    <3>2. instr' # {} BY <1>1, <2>6, WaitsKeeps DEF WaitMd, ControlOK
    <3>3. seq_idx_q' \in 0..Len(Saved) + 1 BY <3>1, CoreAssumption
    <3>4. ControlOK' BY <2>1, <3>1, <3>2, <3>3 DEF ControlOK
    <3> QED BY <2>2, <2>3, <2>4, <3>4
  <2> QED BY <2>5, <2>6
<1>2. ASSUME NEW i \in instr, NEW gnt \in BOOLEAN, NEW rv \in BOOLEAN,
             NEW err \in BOOLEAN, WaitLsu(i, gnt, rv, err)
      PROVE CoreTypeOK'
  <2>1. CASE ~LsuValid(rv)
    <3>1. Waits /\ UNCHANGED <<dataVars, trapVars>> BY <1>2, <2>1 DEF WaitLsu
    <3>2. DataOK' /\ TrapOK' BY <3>1 DEF DataOK, TrapOK, dataVars, trapVars
    <3> QED BY <1>2, <2>1, <3>1, <3>2, Fetches, Accesses
  <2>2. CASE LsuValid(rv)
    <3>1. lsu_q' = "IDLE" /\ Go("RUN")
      BY <1>2, <2>2 DEF WaitLsu, LsuAdvance, LsuNext, LsuValid
    <3>2. ControlOK' BY <3>1, AtRest
    <3>3. CASE err
      <4>1. TakeTrap(ExcVector) BY <1>2, <2>2, <3>3 DEF WaitLsu
      <4> QED BY <3>2, <4>1, TrapTaken, CoreAssumption
    <3>4. CASE ~err
      <4>1. InLine /\ Perform(i, err) /\ UNCHANGED <<sp, trapVars>>
        BY <1>2, <2>2, <3>4 DEF WaitLsu
      <4>2. Access(i).addr \in Mem /\ state_q # "SEQ"
        BY <1>2, <2>2, <3>4 DEF WaitLsu, MayAnswer, LsuValid
      <4>3. reg' \in [Reg -> Pc] /\ mem' \in [Mem -> Pc]
        BY <4>1, <4>2, Performs
      <4>4. DataOK' /\ TrapOK' BY <4>1, <4>3 DEF DataOK, TrapOK, trapVars
      <4> QED BY <3>2, <4>1, <4>4, Fetches
    <3> QED BY <3>3, <3>4
  <2> QED BY <2>1, <2>2
<1> QED BY <1>1, <1>2

LEMMA Sequencing ==
    ASSUME CoreTypeOK, irq' \in BOOLEAN, NEW i \in instr,
           \/ \E deny \in BOOLEAN : SeqDenied(i, deny)
           \/ \E rv, err \in BOOLEAN : SeqFault(i, rv, err)
           \/ \E gnt, rv, err \in BOOLEAN : SeqMem(i, gnt, rv, err)
           \/ SeqZero(i) \/ SeqLast(i)
    PROVE  CoreTypeOK'
<1> USE DEF CoreTypeOK
<1>1. ASSUME NEW deny \in BOOLEAN, SeqDenied(i, deny) PROVE CoreTypeOK'
  <2>1. lsu_q' = "IDLE"
    BY <1>1 DEF SeqDenied, SeqIssue, LsuQuiet, ControlOK
  <2> QED BY <1>1, <2>1, AtRest, TrapTaken, CoreAssumption DEF SeqDenied
<1>2. ASSUME NEW rv \in BOOLEAN, NEW err \in BOOLEAN, SeqFault(i, rv, err)
      PROVE CoreTypeOK'
  <2>1. lsu_q' = "IDLE" BY <1>2 DEF SeqFault, LsuAdvance, LsuNext, LsuValid
  <2> QED BY <1>2, <2>1, AtRest, TrapTaken, CoreAssumption DEF SeqFault
<1>3. ASSUME NEW gnt \in BOOLEAN, NEW rv \in BOOLEAN, NEW err \in BOOLEAN,
             SeqMem(i, gnt, rv, err)
      PROVE CoreTypeOK'
  <2>1. ControlOK' BY <1>3, Beats
  <2>2. FetchOK' BY <1>3, Fetches DEF SeqMem
  <2>3. TrapOK' BY <1>3 DEF SeqMem, TrapOK, trapVars
  <2>4. reg' \in [Reg -> Pc] /\ mem' \in [Mem -> Pc]
    <3>1. CASE LsuValid(rv)
      <4>1. Perform(i, err) /\ IsMem(i) /\ Access(i).addr \in Mem
        BY <1>3, <3>1 DEF SeqMem, MayAnswer, LsuValid
      <4> QED BY <4>1, Performs
    <3>2. CASE ~LsuValid(rv) BY <1>3, <3>2 DEF SeqMem, DataOK
    <3> QED BY <3>1, <3>2
  <2>5. DataOK' BY <1>3, <2>4 DEF SeqMem, DataOK
  <2> QED BY <2>1, <2>2, <2>3, <2>5
<1>4. ASSUME SeqZero(i) PROVE CoreTypeOK'
  <2>1. /\ state_q' = "SEQ" /\ Waits /\ UNCHANGED <<seq_pend_q, sp, mem, trapVars, lsu_q>>
        /\ ~IsMem(i) /\ seq_idx_q' = seq_idx_q + 1 /\ seq_idx_q = i.n
        /\ reg' = [reg EXCEPT !["a0"] = ZeroPc]
    BY <1>4, Offered DEF SeqZero, Go, IdxNext, IsZero, IsMem
  <2>2. seq_pend_q = FALSE /\ lsu_q = "IDLE" BY <1>4, <2>1 DEF SeqZero, ControlOK
  <2>3. seq_idx_q' \in 0..Len(Saved) + 1 BY <2>1, Offered, CoreAssumption
  <2>4. FetchOK' /\ instr' # {} BY <2>1, Fetches, Offered, WaitsKeeps
  <2>5. ControlOK' BY <2>1, <2>2, <2>3, <2>4 DEF ControlOK
  <2>6. DataOK' BY <2>1, Registers, CoreAssumption DEF DataOK
  <2>7. TrapOK' BY <2>1 DEF TrapOK, trapVars
  <2> QED BY <2>4, <2>5, <2>6, <2>7
<1>5. ASSUME SeqLast(i) PROVE CoreTypeOK'
  <2>1. /\ Go("RUN") /\ UNCHANGED <<reg, mem, trapVars, lsu_q>> /\ ~IsMem(i)
        /\ state_q = "SEQ" /\ sp' = SpFinal(i)
        /\ InLine \/ Redirect(reg[BeatReg(i)])
    BY <1>5 DEF SeqLast, IsLast
  <2>2. lsu_q' = "IDLE" BY <2>1 DEF ControlOK
  <2>3. ControlOK' BY <2>1, <2>2, AtRest
  <2>4. reg[BeatReg(i)] \in Pc BY <2>1, Offered, Registers DEF BeatReg, DataOK
  <2>5. FetchOK' BY <2>1, <2>4, Fetches
  <2>6. sp' \in 0..Wrap - 1 BY <2>1, CoreAssumption DEF SpFinal, DataOK
  <2>7. DataOK' /\ TrapOK' BY <2>1, <2>6 DEF DataOK, TrapOK, trapVars
  <2> QED BY <2>3, <2>5, <2>7
<1> QED BY <1>1, <1>2, <1>3, <1>4, <1>5

-----------------------------------------------------------------------------
LEMMA InitTypeOK == ASSUME Init PROVE CoreTypeOK
<1>1. FetchOK /\ TrapOK BY CoreAssumption DEF Init, FetchOK, TrapOK, Offers
<1>2. DataOK BY CoreAssumption DEF Init, DataOK
<1>3. ControlOK
  <2>1. state_q = "RUN" /\ lsu_q = "IDLE" /\ seq_idx_q = 0 /\ seq_pend_q = FALSE
        /\ instr = {}
    BY DEF Init
  <2>2. seq_idx_q \in 0..Len(Saved) + 1 BY <2>1, CoreAssumption
  <2>3. lsu_q # "IDLE" <=> state_q = "WAIT_LSU" \/ seq_pend_q BY <2>1
  <2> QED BY <2>1, <2>2, <2>3 DEF ControlOK
<1> QED BY <1>1, <1>2, <1>3 DEF CoreTypeOK

LEMMA TypeKept ==
    ASSUME CoreTypeOK, [Next]_vars
    PROVE  CoreTypeOK'
<1>1. CASE Next
  <2>1. irq' \in BOOLEAN BY <1>1 DEF Next
  <2>2. CASE Wait BY <2>1, <2>2, WaitsFor, Sequencing DEF Wait
  <2>3. ASSUME NEW en \in BOOLEAN, Run(en) PROVE CoreTypeOK'
    BY <2>1, <2>3, OneCycle, Starts DEF Run
  <2> QED BY <1>1, <2>2, <2>3 DEF Next
<1>2. CASE UNCHANGED vars
  BY <1>2 DEF vars, coreVars, fsmVars, fetchVars, dataVars, trapVars,
     CoreTypeOK, FetchOK, DataOK, TrapOK, ControlOK, IsMem
<1> QED BY <1>1, <1>2

\* The registers keep their ranges and fit together: an access is under way
\* exactly in the states and steps that wait for its answer.
THEOREM TypeCorrect == Spec => []CoreTypeOK
<1>1. Init => CoreTypeOK
  BY InitTypeOK
<1>2. ASSUME CoreTypeOK, [Next]_vars PROVE CoreTypeOK'
  BY <1>2, TypeKept
<1> QED BY <1>1, <1>2, PTL DEF Spec

\* While an access is under way nothing that drives the data port changes.
LEMMA Held ==
    ASSUME CoreTypeOK, Next, lsu_q # "IDLE", lsu_q' # "IDLE"
    PROVE  UNCHANGED <<state_q, seq_idx_q, reg, sp>>
<1> USE DEF CoreTypeOK
<1>1. state_q \in {"WAIT_LSU", "SEQ"} /\ (state_q = "SEQ" => seq_pend_q)
  BY DEF ControlOK
<1>2. \A i \in instr : seq_pend_q => IsMem(i) BY DEF ControlOK
<1>3. ASSUME NEW i \in instr, NEW gnt \in BOOLEAN, NEW rv \in BOOLEAN,
             NEW err \in BOOLEAN, WaitLsu(i, gnt, rv, err)
      PROVE UNCHANGED <<state_q, seq_idx_q, reg, sp>>
  <2>1. ~LsuValid(rv) BY <1>3 DEF WaitLsu, LsuAdvance, LsuNext, LsuValid
  <2>2. seq_idx_q = 0 BY <1>3 DEF WaitLsu, ControlOK
  <2> QED BY <1>3, <2>1, <2>2 DEF WaitLsu, Go, dataVars
<1>4. ASSUME NEW i \in instr, NEW gnt \in BOOLEAN, NEW rv \in BOOLEAN,
             NEW err \in BOOLEAN, SeqMem(i, gnt, rv, err)
      PROVE UNCHANGED <<state_q, seq_idx_q, reg, sp>>
  <2>1. seq_pend_q /\ IsMem(i) /\ state_q = "SEQ" BY <1>1, <1>4 DEF SeqMem
  <2>2. ~LsuValid(rv)
    BY <1>4, <2>1 DEF SeqMem, SeqIssue, LsuAdvance, LsuNext, LsuValid
  <2>3. seq_idx_q' = seq_idx_q BY <1>4, <2>1, <2>2 DEF SeqMem, IdxNext, SeqStepDone
  <2> QED BY <1>4, <2>1, <2>2, <2>3 DEF SeqMem, Go
<1>5. ASSUME NEW i \in instr, NEW deny \in BOOLEAN, NEW rv \in BOOLEAN,
             NEW err \in BOOLEAN,
             SeqDenied(i, deny) \/ SeqFault(i, rv, err) \/ SeqZero(i) \/ SeqLast(i)
      PROVE FALSE
  <2>1. state_q = "SEQ" /\ seq_pend_q /\ IsMem(i)
    BY <1>1, <1>2, <1>5 DEF SeqDenied, SeqFault, SeqZero, SeqLast
  <2>2. ~SeqDenied(i, deny) BY <2>1 DEF SeqDenied, SeqIssue
  <2>3. ~SeqFault(i, rv, err) BY DEF SeqFault, LsuAdvance, LsuNext, LsuValid
  <2>4. ~IsZero(i) BY <2>1, Offered, CoreAssumption DEF IsMem, IsZero, ControlOK
  <2> QED BY <1>5, <2>1, <2>2, <2>3, <2>4 DEF SeqZero, SeqLast, IsLast
<1>6. CASE Wait BY <1>1, <1>3, <1>4, <1>5, <1>6 DEF Wait, WaitMd
<1>7. ASSUME NEW en \in BOOLEAN, Run(en) PROVE FALSE
  BY <1>1, <1>7 DEF Run, NothingToDo, Sleep, Interrupt, TakeIrq, Executes, InstrExec,
     Exception, Alu, Csr, Mret, Wfi, Jump, StartMd, StartSeq, StartLsu
<1> QED BY <1>6, <1>7 DEF Next

\* The core holds address, direction and data of an access until it is answered.
THEOREM HoldsRequest == Spec => RequestHeld
<1> DEFINE Keeps == \A i \in instr : lsu_q # "IDLE" /\ lsu_q' # "IDLE"
                                       => Request(i)' = Request(i)
<1>1. ASSUME CoreTypeOK, [Next]_vars PROVE [Keeps]_vars
  <2>1. CASE Next
    BY <1>1, <2>1, Held DEF Request, Access, BeatAddr, BeatReg, IsMem
  <2> QED BY <1>1, <2>1
<1> QED BY <1>1, TypeCorrect, PTL DEF Spec, RequestHeld

-----------------------------------------------------------------------------
(* The core implements Hart.  Of an instruction that takes several cycles    *)
(* the invariant remembers its kind, and of a sequence that each word it has *)
(* moved is the same in its register and in its place on the stack: nothing  *)
(* is lost if it traps, and all is done when it ends.                        *)

Pops == {"pop", "popret", "popretz"}
Begun == state_q \in {"WAIT_LSU", "WAIT_MD", "SEQ"}

KindOf(i) ==
    /\ state_q = "WAIT_LSU" => i.op \in {"load", "store"}
    /\ state_q = "WAIT_MD" => i.op = "div"
    /\ state_q = "SEQ" => i.op \in Stacks

Moved(i) ==
    /\ \A k \in 1..i.n : k > i.n - seq_idx_q =>
          Promise!Slot(i, k) \in Mem /\ mem[Promise!Slot(i, k)] = reg[Saved[k]]
    /\ i.op = "popretz" /\ seq_idx_q > i.n => reg["a0"] = ZeroPc

SeqInv == \A i \in instr : KindOf(i) /\ (state_q = "SEQ" => Moved(i))

HartInv == CoreTypeOK /\ SeqInv

LEMMA ModuloApart ==
    ASSUME NEW m \in Nat \ {0}, NEW x \in Int, NEW y \in Int, x < y, y < x + m
    PROVE  x % m # y % m
<1>1. /\ x = m * (x \div m) + (x % m) /\ x \div m \in Int /\ x % m \in 0..m - 1
      /\ y = m * (y \div m) + (y % m) /\ y \div m \in Int /\ y % m \in 0..m - 1
    OBVIOUS
<1> DEFINE d == (y \div m) - (x \div m)
<1>2. ASSUME x % m = y % m PROVE FALSE
    <2>1. d \in Int /\ y - x = m * d
        BY <1>1, <1>2
    <2> HIDE DEF d
    <2>2. CASE d <= 0
        <3>1. m * d <= 0 BY <2>1, <2>2
        <3> QED BY <2>1, <3>1
    <2>3. CASE d >= 1
        <3>1. m * d >= m BY <2>1, <2>3
        <3> QED BY <2>1, <3>1
    <2> QED BY <2>1, <2>2, <2>3
<1> QED BY <1>2

\* Different places of a list lie at different addresses.
LEMMA SlotsApart ==
    ASSUME NEW i \in Instruction, sp \in Int,
           NEW j \in 1..i.n, NEW k \in 1..i.n, Promise!Slot(i, j) = Promise!Slot(i, k)
    PROVE  j = k
<1> DEFINE base == IF i.op = "push" THEN sp - i.n ELSE sp + Frame - i.n
<1>1. i.n \in 1..Len(Saved) /\ i.n <= Frame /\ Frame <= Wrap /\ base \in Int
      /\ Wrap \in Nat \ {0} /\ i.n \in Nat /\ Frame \in Nat
    BY CoreAssumption
<1>2. \A p \in 1..i.n : Promise!Slot(i, p) = (base + p - 1) % Wrap
    BY DEF Promise!Slot
<1> HIDE DEF base
<1>3. ASSUME NEW p \in 1..i.n, NEW q \in 1..i.n, p < q
      PROVE  Promise!Slot(i, p) # Promise!Slot(i, q)
    <2>1. base + p - 1 \in Int /\ base + q - 1 \in Int
          /\ base + p - 1 < base + q - 1 /\ base + q - 1 < base + p - 1 + Wrap
        BY <1>1, <1>3
    <2> QED BY <1>1, <1>2, <2>1, ModuloApart
<1> QED BY <1>1, <1>3

\* The beat at hand moves the place of the list it has reached, from the top.
LEMMA BeatIsPlace ==
    ASSUME CoreTypeOK, NEW i \in instr, state_q = "SEQ", IsMem(i)
    PROVE  /\ i.n - seq_idx_q \in 1..i.n
           /\ Access(i) = [we |-> i.op = "push",
                           addr |-> Promise!Slot(i, i.n - seq_idx_q),
                           reg |-> Saved[i.n - seq_idx_q]]
<1>1. i.n \in Nat /\ seq_idx_q \in Nat /\ seq_idx_q < i.n /\ sp \in Int /\ Frame \in Int
    BY Offered, CoreAssumption DEF CoreTypeOK, ControlOK, DataOK, IsMem
<1>2. i.n - seq_idx_q \in 1..i.n
    BY <1>1
<1>3. BeatReg(i) = Saved[i.n - seq_idx_q]
    BY DEF BeatReg
<1>4. BeatAddr(i) = Promise!Slot(i, i.n - seq_idx_q)
    <2>1. sp - (seq_idx_q + 1) = sp - i.n + (i.n - seq_idx_q) - 1
        BY <1>1
    <2>2. sp + Frame - (seq_idx_q + 1) = sp + Frame - i.n + (i.n - seq_idx_q) - 1
        BY <1>1
    <2> QED BY <2>1, <2>2 DEF BeatAddr, Promise!Slot
<1> QED BY <1>2, <1>3, <1>4 DEF Access


\* A beat that is answered moves one more word and changes no other.
LEMMA BeatMoves ==
    ASSUME HartInv, NEW i \in instr, state_q = "SEQ", IsMem(i), Moved(i),
           Access(i).addr \in Mem, Perform(i, FALSE)
    PROVE  LET b == i.n - seq_idx_q IN
           /\ \A k \in 1..i.n : k >= b => /\ Promise!Slot(i, k) \in Mem
                                          /\ mem'[Promise!Slot(i, k)] = reg'[Saved[k]]
           /\ i.op = "push" => /\ reg' = reg
                               /\ mem' = [mem EXCEPT ![Promise!Slot(i, b)] = reg[Saved[b]]]
           /\ i.op \in Pops => /\ mem' = mem
                               /\ reg' = [reg EXCEPT ![Saved[b]] = mem[Promise!Slot(i, b)]]
<1> USE DEF HartInv, CoreTypeOK
<1> DEFINE b == i.n - seq_idx_q
<1>1. i \in Instruction /\ i.n \in 1..Len(Saved) /\ Len(Saved) \in Nat /\ i.op \in Stacks
    BY Offered, CoreAssumption DEF SeqInv, KindOf
<1>2. b \in 1..i.n /\ Promise!Slot(i, b) \in Mem
    BY BeatIsPlace
<1>3. sp \in Int /\ reg \in [Reg -> Pc] /\ mem \in [Mem -> Pc]
    BY CoreAssumption DEF DataOK
<1>4. \A k \in 1..i.n : k > b => Promise!Slot(i, k) \in Mem
                                 /\ mem[Promise!Slot(i, k)] = reg[Saved[k]]
    BY DEF Moved
<1>5. \A k \in 1..i.n : Saved[k] \in Reg
    BY <1>1, Registers
<1>6. /\ i.op = "push" => /\ reg' = reg
                          /\ mem' = [mem EXCEPT ![Promise!Slot(i, b)] = reg[Saved[b]]]
      /\ i.op \in Pops => /\ mem' = mem
                          /\ reg' = [reg EXCEPT ![Saved[b]] = mem[Promise!Slot(i, b)]]
    <2>1. Access(i) = [we |-> i.op = "push", addr |-> Promise!Slot(i, b), reg |-> Saved[b]]
        BY BeatIsPlace
    <2> HIDE DEF b
    <2>2. /\ Access(i).we = (i.op = "push")
          /\ Access(i).addr = Promise!Slot(i, b) /\ Access(i).reg = Saved[b]
        <3> HIDE DEF HartInv, CoreTypeOK
        <3>1. Access(i).addr = Promise!Slot(i, b) BY <2>1
        <3>2. Access(i).reg = Saved[b] BY <2>1
        <3>3. Access(i).we = (i.op = "push") BY <2>1
        <3> QED BY <3>1, <3>2, <3>3
    <2>3. /\ mem' = IF Access(i).we
                    THEN [mem EXCEPT ![Access(i).addr] = reg[Access(i).reg]] ELSE mem
          /\ reg' = IF ~Access(i).we
                    THEN [reg EXCEPT ![Access(i).reg] = mem[Access(i).addr]] ELSE reg
        BY DEF Perform
    <2>4. i.op \in Pops => i.op # "push"
        BY DEF Pops
    <2> QED BY <2>2, <2>3, <2>4
<1> HIDE DEF b
<1>7. ASSUME NEW k \in 1..i.n, k >= b
      PROVE  Promise!Slot(i, k) \in Mem /\ mem'[Promise!Slot(i, k)] = reg'[Saved[k]]
    <2>1. CASE k = b
        <3>1. CASE i.op = "push"
            BY <1>2, <1>3, <1>6, <2>1, <3>1
        <3>2. CASE i.op \in Pops
            BY <1>2, <1>3, <1>5, <1>6, <2>1, <3>2
        <3> QED BY <1>1, <3>1, <3>2 DEF Stacks, Pops
    <2>2. CASE k # b
        <3>1. Promise!Slot(i, k) \in Mem /\ mem[Promise!Slot(i, k)] = reg[Saved[k]]
            BY <1>1, <1>2, <1>4, <1>7, <2>2
        <3>2. Promise!Slot(i, k) # Promise!Slot(i, b)
            BY <1>1, <1>2, <1>3, <2>2, SlotsApart
        <3>3. Saved[k] # Saved[b]
            BY <1>1, <1>2, <2>2, CoreAssumption
        <3>4. CASE i.op = "push"
            BY <1>2, <1>3, <1>6, <3>1, <3>2, <3>4
        <3>5. CASE i.op \in Pops
            BY <1>3, <1>5, <1>6, <3>1, <3>3, <3>5
        <3> QED BY <1>1, <3>4, <3>5 DEF Stacks, Pops
    <2> QED BY <2>1, <2>2
<1> QED BY <1>6, <1>7 DEF b

-----------------------------------------------------------------------------
(* The invariant, and the step of Hart, for each group of actions.           *)

\* A state in which nothing is begun.
LEMMA NothingBegun ==
    ASSUME state_q' \in {"RUN", "SLEEP"}
    PROVE  SeqInv'
BY DEF SeqInv, KindOf

\* What begins has its own kind, and a sequence has moved nothing yet.
LEMMA StartsKeep ==
    ASSUME HartInv, NEW en \in BOOLEAN, NEW i \in instr,
           \/ StartMd(en, i) \/ StartSeq(en, i)
           \/ \E deny, gnt \in BOOLEAN : StartLsu(en, i, deny, gnt)
    PROVE  SeqInv' /\ Promise!Begin(i)
<1> USE DEF HartInv
<1>1. /\ instr = {i} /\ instr' = {i} /\ pc' = pc /\ i.n \in Nat
      /\ UNCHANGED <<dataVars, trapVars>>
    <2>1. Waits /\ UNCHANGED <<dataVars, trapVars>>
        BY DEF StartMd, StartSeq, StartLsu
    <2>2. instr = {i} /\ i.n \in 1..Len(Saved) /\ Len(Saved) \in Nat
        BY Offered, CoreAssumption DEF CoreTypeOK
    <2> QED BY <2>1, <2>2, WaitsKeeps
<1>2. InstrExec(en) /\ ~Due
    BY DEF StartMd, StartSeq, StartLsu, Executes, TakeIrq
<1>3. state_q = "RUN" /\ ~Promise!Due
    BY <1>2 DEF InstrExec, Due, Promise!Due
<1>4. /\ state_q' \in {"WAIT_LSU", "WAIT_MD", "SEQ"}
      /\ state_q' = "WAIT_LSU" => i.op \in {"load", "store"}
      /\ state_q' = "WAIT_MD" => i.op = "div"
      /\ state_q' = "SEQ" => i.op \in Stacks
    BY DEF StartMd, StartSeq, StartLsu, Go
<1>5. state_q' = "SEQ" => seq_idx_q' = 0
    BY <1>3, AtRestNow DEF StartMd, StartSeq, StartLsu, Go, CoreTypeOK
<1>6. SeqInv'
    BY <1>1, <1>4, <1>5 DEF SeqInv, KindOf, Moved
<1>7. Promise!Begin(i)
    <2>1. i.op \in {"div", "load", "store"} \cup Promise!Stacks
        BY <1>4 DEF Stacks, Promise!Stacks, Promise!Pops
    <2>2. state_q' # "SLEEP" /\ state_q # "SLEEP" /\ ~Begun
        BY <1>3, <1>4 DEF Begun
    <2> QED BY <1>1, <1>3, <1>4, <2>1, <2>2
            DEF Promise!Begin, Promise!dataVars, Promise!trapVars, dataVars, trapVars, Begun
<1> QED BY <1>6, <1>7


\* Traps: no effect, and the instruction can be executed again.
LEMMA TrapsAsPromised ==
    ASSUME TakeTrap(ExcVector), state_q # "SLEEP", state_q' = "RUN",
           NEW i \in instr, i.op \in {"bad", "load", "store"} \cup Stacks,
           Begun \/ ~Due
    PROVE  Promise!Except(i)
<1>1. Promise!Trap(ExcVector)
    <2>1. /\ pc' = ExcVector /\ mepc_q' = pc /\ mstatus_mie_q' = FALSE
          /\ mstatus_mpie_q' = mstatus_mie_q /\ UNCHANGED dataVars
        BY DEF TakeTrap, Redirect
    <2>2. (state_q \in {"WAIT_LSU", "WAIT_MD", "SEQ"})' = FALSE
          /\ (state_q = "SLEEP")' = (state_q = "SLEEP")
        OBVIOUS
    <2> QED BY <2>1, <2>2 DEF Promise!Trap, dataVars, Promise!dataVars
<1>2. i.op \in {"bad", "load", "store"} \cup Promise!Stacks
    BY DEF Stacks, Promise!Stacks, Promise!Pops
<1> QED BY <1>1, <1>2 DEF Promise!Except, Begun, Due, Promise!Due

LEMMA OneCycleAsPromised ==
    ASSUME HartInv, NEW en \in BOOLEAN, NEW i \in instr,
           \/ Alu(en, i) \/ Csr(en, i) \/ Mret(en, i) \/ Wfi(en, i)
           \/ \E target \in Pc : Jump(en, i, target)
    PROVE  SeqInv' /\ Promise!InOneCycle(i)
<1>1. InstrExec(en) /\ ~Due /\ state_q = "RUN"
    BY DEF Alu, Csr, Mret, Wfi, Jump, Executes, TakeIrq, InstrExec
<1>2. /\ state_q' \in {"RUN", "SLEEP"}
      /\ state_q' = "SLEEP" <=> i.op = "wfi"
    BY DEF Alu, Csr, Mret, Wfi, Jump, Go
<1>3. SeqInv'
    BY <1>2, NothingBegun
<1>4. /\ state_q # "SLEEP" /\ ~Promise!Due
      /\ ~(state_q \in {"WAIT_LSU", "WAIT_MD", "SEQ"})
      /\ (state_q \in {"WAIT_LSU", "WAIT_MD", "SEQ"})' = FALSE
    BY <1>1, <1>2 DEF Due, Promise!Due
<1>5. reg \in [Reg -> Pc] /\ Promise!Reg = Reg
    BY DEF HartInv, CoreTypeOK, DataOK, Reg, Promise!Reg
<1>6. ASSUME NEW values, UNCHANGED reg \/ \E r \in Reg : Writes(r, values), UNCHANGED mem
      PROVE  UNCHANGED sp => Promise!WriteBack
    BY <1>5, <1>6 DEF Writes, Promise!WriteBack
<1>7. CASE Alu(en, i)
    <2>1. Promise!WriteBack
        BY <1>6, <1>7 DEF Alu, Promise!WriteBack
    <2>2. (state_q = "SLEEP")' = (state_q = "SLEEP")
        BY <1>1, <1>2, <1>7 DEF Alu
    <2> QED BY <1>3, <1>4, <1>7, <2>1, <2>2
            DEF Alu, InLine, Promise!InOneCycle, trapVars, Promise!trapVars
<1>8. ASSUME NEW target \in Pc, Jump(en, i, target)
      PROVE  Promise!InOneCycle(i)
    <2>1. Promise!Link
        BY <1>5, <1>8 DEF Jump, Writes, Promise!Link
    <2>2. (state_q = "SLEEP")' = (state_q = "SLEEP")
        BY <1>1, <1>2, <1>8 DEF Jump
    <2> QED BY <1>4, <1>8, <2>1, <2>2
            DEF Jump, Redirect, Promise!InOneCycle, trapVars, Promise!trapVars
<1>9. CASE Csr(en, i)
    <2>1. Promise!WriteBack
        BY <1>6, <1>9 DEF Csr
    <2>2. (state_q = "SLEEP")' = (state_q = "SLEEP")
        BY <1>1, <1>2, <1>9 DEF Csr
    <2>3. i.op = "csr" /\ pc' = NextPc[pc]
        BY <1>9 DEF Csr, InLine
    <2> QED BY <1>3, <1>4, <2>1, <2>2, <2>3 DEF Promise!InOneCycle
<1>10. CASE Mret(en, i)
    <2>1. (state_q = "SLEEP")' = (state_q = "SLEEP")
        BY <1>1, <1>2, <1>10 DEF Mret
    <2>2. i.op = "mret" /\ pc' = mepc_q /\ mstatus_mie_q' = mstatus_mpie_q
          /\ mstatus_mpie_q' = TRUE /\ mepc_q' = mepc_q /\ UNCHANGED Promise!dataVars
        BY <1>10 DEF Mret, Redirect, dataVars, Promise!dataVars
    <2> QED BY <1>3, <1>4, <2>1, <2>2 DEF Promise!InOneCycle
<1>11. CASE Wfi(en, i)
    <2>1. (state_q = "SLEEP")' = TRUE
        BY <1>2, <1>11 DEF Wfi
    <2>2. i.op = "wfi" /\ pc' = NextPc[pc]
        BY <1>11 DEF Wfi, Redirect
    <2>3. UNCHANGED Promise!dataVars /\ UNCHANGED Promise!trapVars
        BY <1>11 DEF Wfi, dataVars, Promise!dataVars, trapVars, Promise!trapVars
    <2> QED BY <1>3, <1>4, <2>1, <2>2, <2>3 DEF Promise!InOneCycle
<1> QED BY <1>3, <1>7, <1>8, <1>9, <1>10, <1>11

\* While nothing is executed the core waits for an instruction, or sleeps.
LEMMA RestAsPromised ==
    ASSUME HartInv, NEW en \in BOOLEAN, NothingToDo(en) \/ Sleep(en) \/ Interrupt(en)
    PROVE  /\ SeqInv'
           /\ \/ Promise!Await \/ Promise!Wake \/ Promise!Interrupt
              \/ UNCHANGED Promise!hartVars
<1>1. state_q \in {"RUN", "SLEEP"} /\ state_q' \in {"RUN", "SLEEP"}
    BY DEF NothingToDo, Sleep, Interrupt, TakeIrq, InstrExec, Go
<1>2. SeqInv'
    BY <1>1, NothingBegun
<1>3. /\ ~(state_q \in {"WAIT_LSU", "WAIT_MD", "SEQ"})
      /\ (state_q \in {"WAIT_LSU", "WAIT_MD", "SEQ"})' = FALSE
      /\ (state_q \in {"WAIT_LSU", "WAIT_MD", "SEQ"})
            = (state_q \in {"WAIT_LSU", "WAIT_MD", "SEQ"})'
    BY <1>1
<1>4. ASSUME NothingToDo(en) \/ Sleep(en)
      PROVE  /\ Waits
             /\ UNCHANGED Promise!dataVars /\ UNCHANGED Promise!trapVars
    BY <1>4 DEF NothingToDo, Sleep, dataVars, trapVars, Promise!dataVars, Promise!trapVars
<1>5. CASE (NothingToDo(en) \/ Sleep(en)) /\ state_q' = state_q
    <2>1. (state_q = "SLEEP")' = (state_q = "SLEEP")
        BY <1>5
    <2>2. CASE instr = {}
        <3>1. pc' = pc
            BY <1>4, <1>5 DEF Waits
        <3>2. Promise!Await
            BY <1>3, <1>4, <1>5, <2>1, <2>2, <3>1 DEF Promise!Await
        <3> QED BY <1>2, <3>2
    <2>3. CASE instr # {}
        <3>1. pc' = pc /\ instr' = instr
            BY <1>4, <1>5, <2>3 DEF Waits
        <3>2. UNCHANGED Promise!hartVars
            BY <1>3, <1>4, <1>5, <2>1, <3>1 DEF Promise!hartVars
        <3> QED BY <1>2, <3>2
    <2> QED BY <2>2, <2>3
<1>7. CASE (NothingToDo(en) \/ Sleep(en)) /\ state_q' # state_q
    <2>1. state_q = "SLEEP" /\ state_q' = "RUN"
        BY <1>1, <1>7 DEF NothingToDo, Sleep, Go
    <2>2. (state_q = "SLEEP")' = FALSE
        BY <2>1
    <2>3. pc' = pc
        BY <1>4, <1>7 DEF Waits
    <2>4. Promise!Wake
        BY <1>3, <1>4, <1>7, <2>1, <2>2, <2>3 DEF Promise!Wake
    <2> QED BY <1>2, <2>4
<1>6. CASE Interrupt(en)
    <2>1. /\ state_q = "RUN" /\ state_q' = "RUN" /\ Due /\ TakeTrap(IrqVector)
        BY <1>6 DEF Interrupt, TakeIrq, InstrExec, Go
    <2>2. (state_q = "SLEEP")' = (state_q = "SLEEP")
        BY <2>1
    <2>3. Promise!Trap(IrqVector)
        BY <1>3, <2>1, <2>2 DEF TakeTrap, Redirect, Promise!Trap, dataVars, Promise!dataVars
    <2>4. Promise!Due /\ state_q # "SLEEP"
        BY <2>1 DEF Due, Promise!Due
    <2>5. Promise!Interrupt
        BY <1>3, <2>3, <2>4 DEF Promise!Interrupt
    <2> QED BY <1>2, <2>5
<1> QED BY <1>5, <1>6, <1>7

\* No effect yet, and none to come: an instruction refused or one that faults.
LEMMA FaultsAsPromised ==
    ASSUME HartInv, NEW i \in instr,
           \/ \E en, deny \in BOOLEAN : Exception(en, i, deny)
           \/ \E deny \in BOOLEAN : SeqDenied(i, deny)
           \/ \E rv, err \in BOOLEAN : SeqFault(i, rv, err)
    PROVE  SeqInv' /\ Promise!Except(i)
<1>1. TakeTrap(ExcVector) /\ state_q' = "RUN"
    BY DEF Exception, SeqDenied, SeqFault, Go
<1>2. /\ state_q # "SLEEP" /\ (Begun \/ ~Due)
      /\ i.op \in {"bad", "load", "store"} \cup Stacks
    BY DEF Exception, SeqDenied, SeqFault, Executes, TakeIrq, InstrExec, Begun,
           HartInv, SeqInv, KindOf
<1> QED BY <1>1, <1>2, NothingBegun, TrapsAsPromised

LEMMA StillWaiting ==
    ASSUME HartInv, state_q' = state_q, state_q \in {"WAIT_LSU", "WAIT_MD"}, Waits,
           UNCHANGED <<dataVars, trapVars>>
    PROVE  SeqInv' /\ UNCHANGED Promise!hartVars
<1>1. pc' = pc /\ instr' = instr
    BY WaitsKeeps DEF HartInv, CoreTypeOK, ControlOK
<1>2. SeqInv'
    BY <1>1 DEF HartInv, SeqInv, KindOf
<1>3. /\ (state_q \in {"WAIT_LSU", "WAIT_MD", "SEQ"})'
            = (state_q \in {"WAIT_LSU", "WAIT_MD", "SEQ"})
      /\ (state_q = "SLEEP")' = (state_q = "SLEEP")
    OBVIOUS
<1> QED BY <1>1, <1>2, <1>3
        DEF Promise!hartVars, Promise!dataVars, Promise!trapVars, dataVars, trapVars

LEMMA DivisionAsPromised ==
    ASSUME HartInv, NEW done \in BOOLEAN, WaitMd(done), NEW i \in instr
    PROVE  SeqInv' /\ (Promise!Finish(i) \/ UNCHANGED Promise!hartVars)
<1>1. CASE done
    <2>1. /\ \E r \in Reg : Writes(r, Pc)
          /\ state_q = "WAIT_MD" /\ state_q' = "RUN" /\ pc' = NextPc[pc]
          /\ UNCHANGED <<sp, mem, trapVars>>
        BY <1>1 DEF WaitMd, Go, InLine
    <2>2. /\ state_q \in {"WAIT_LSU", "WAIT_MD", "SEQ"}
          /\ (state_q \in {"WAIT_LSU", "WAIT_MD", "SEQ"})' = FALSE
          /\ (state_q = "SLEEP")' = (state_q = "SLEEP")
        BY <2>1
    <2>3. i.op = "div"
        BY <2>1 DEF HartInv, SeqInv, KindOf
    <2>4. Promise!WriteBack
        <3>1. reg \in [Reg -> Pc] /\ Promise!Reg = Reg
            BY DEF HartInv, CoreTypeOK, DataOK, Reg, Promise!Reg
        <3> QED BY <2>1, <3>1 DEF Writes, Promise!WriteBack
    <2>5. Promise!Finish(i)
        BY <2>1, <2>2, <2>3, <2>4 DEF Promise!Finish, Promise!trapVars, trapVars
    <2> QED BY <2>1, <2>5, NothingBegun
<1>2. CASE ~done
    <2>1. state_q = "WAIT_MD" /\ state_q' = "WAIT_MD" /\ Waits
          /\ UNCHANGED <<dataVars, trapVars>>
        BY <1>2 DEF WaitMd, Go, dataVars
    <2> QED BY <2>1, StillWaiting
<1> QED BY <1>1, <1>2

LEMMA AccessAsPromised ==
    ASSUME HartInv, NEW i \in instr, NEW gnt \in BOOLEAN, NEW rv \in BOOLEAN,
           NEW err \in BOOLEAN, WaitLsu(i, gnt, rv, err)
    PROVE  /\ SeqInv'
           /\ Promise!Finish(i) \/ Promise!Except(i) \/ UNCHANGED Promise!hartVars
<1>1. state_q = "WAIT_LSU" /\ i.op \in {"load", "store"}
    BY DEF WaitLsu, HartInv, SeqInv, KindOf
<1>2. CASE ~LsuValid(rv)
    <2>1. state_q' = "WAIT_LSU" /\ Waits /\ UNCHANGED <<dataVars, trapVars>>
        BY <1>2 DEF WaitLsu, Go
    <2> QED BY <1>1, <2>1, StillWaiting
<1>3. CASE LsuValid(rv) /\ err
    <2>1. TakeTrap(ExcVector) /\ state_q' = "RUN"
        BY <1>3 DEF WaitLsu, Go
    <2> QED BY <1>1, <2>1, NothingBegun, TrapsAsPromised DEF Begun
<1>4. CASE LsuValid(rv) /\ ~err
    <2>1. /\ state_q' = "RUN" /\ pc' = NextPc[pc] /\ Perform(i, err)
          /\ UNCHANGED <<sp, trapVars>> /\ Access(i).addr \in Mem
        BY <1>4 DEF WaitLsu, Go, InLine, LsuValid, MayAnswer
    <2>2. Access(i).addr = sp /\ Access(i).reg = Saved[i.n]
        BY <1>1 DEF Access
    <2>3. Access(i).we <=> i.op = "store"
        BY <1>1 DEF Access
    <2>4. /\ i.op = "store" => mem' = [mem EXCEPT ![sp] = reg[Saved[i.n]]] /\ reg' = reg
          /\ i.op = "load" => reg' = [reg EXCEPT ![Saved[i.n]] = mem[sp]] /\ mem' = mem
        BY <1>4, <2>1, <2>2, <2>3 DEF Perform
    <2>5. /\ state_q \in {"WAIT_LSU", "WAIT_MD", "SEQ"}
          /\ (state_q \in {"WAIT_LSU", "WAIT_MD", "SEQ"})' = FALSE
          /\ (state_q = "SLEEP")' = (state_q = "SLEEP")
        BY <1>1, <2>1
    <2>6. Promise!Finish(i)
        BY <1>1, <2>1, <2>2, <2>4, <2>5 DEF Promise!Finish, Promise!trapVars, trapVars
    <2> QED BY <2>1, <2>6, NothingBegun
<1> QED BY <1>2, <1>3, <1>4

-----------------------------------------------------------------------------
(* Sequences.                                                               *)

\* A register of the list has one place in it.
LEMMA OneHolder ==
    ASSUME NEW i \in Instruction, NEW k \in 1..i.n
    PROVE  /\ Promise!Holder(i, Saved[k]) = {k}
           /\ Promise!Loaded(i, Saved[k]) = Promise!Slot(i, k)
<1>1. \A j \in 1..i.n : j \in 1..Len(Saved) /\ (Saved[j] = Saved[k] => j = k)
    BY CoreAssumption
<1>2. Promise!Holder(i, Saved[k]) = {k}
    BY <1>1 DEF Promise!Holder
<1> QED BY <1>2 DEF Promise!Loaded

\* Where the stack pointer stays the words of a list keep their places.
LEMMA PlacesStay ==
    ASSUME sp' = sp, NEW i
    PROVE  /\ \A k \in 1..i.n : Promise!Slot(i, k)' = Promise!Slot(i, k)
           /\ \A a : Promise!Place(i, a)' = Promise!Place(i, a)
           /\ \A r : Promise!Loaded(i, r)' = Promise!Loaded(i, r)
           /\ Promise!SpAfter(i)' = Promise!SpAfter(i)
<1>1. \A k : Promise!Slot(i, k)' = Promise!Slot(i, k)
    BY DEF Promise!Slot
<1>2. \A a : Promise!Place(i, a)' = Promise!Place(i, a)
    BY DEF Promise!Place, Promise!Slot
<1>3. \A r : Promise!Loaded(i, r)' = Promise!Loaded(i, r)
    BY DEF Promise!Loaded, Promise!Slot, Promise!Holder
<1>4. Promise!SpAfter(i)' = Promise!SpAfter(i)
    BY DEF Promise!SpAfter
<1> QED BY <1>1, <1>2, <1>3, <1>4

\* A word pushed, in its place, leaves the outcome of the push as it was.
LEMMA PushedEarly ==
    ASSUME HartInv, NEW i \in instr, i.op = "push", sp' = sp, reg' = reg,
           NEW b \in 1..i.n, NEW v, mem' = [mem EXCEPT ![Promise!Slot(i, b)] = v]
    PROVE  Promise!Outcome(i)' = Promise!Outcome(i)
<1>1. mem \in [Mem -> Pc] /\ Promise!Reg = Reg
    BY DEF HartInv, CoreTypeOK, DataOK, Reg, Promise!Reg
<1>2. \A a \in Mem : Promise!Place(i, a) = {} => mem'[a] = mem[a]
    BY <1>1 DEF Promise!Place
<1>3. Promise!MemAfter(i)' = Promise!MemAfter(i)
    <2> DEFINE P(a) == Promise!Place(i, a)
               M(f) == [a \in Mem |-> IF P(a) # {} THEN reg[Saved[CHOOSE k \in P(a) : TRUE]]
                                                  ELSE f[a]]
    <2>1. Promise!MemAfter(i) = M(mem)
        BY DEF Promise!MemAfter
    <2>2. Promise!MemAfter(i)' = M(mem')
        BY DEF Promise!MemAfter, Promise!Place, Promise!Slot
    <2>3. M(mem') = M(mem)
        <3> HIDE DEF P
        <3> QED BY <1>2 DEF P
    <2> QED BY <2>1, <2>2, <2>3
<1>4. Promise!RegAfter(i)' = Promise!RegAfter(i)
    BY PlacesStay DEF Promise!RegAfter, Promise!Pops
<1> QED BY <1>3, <1>4, PlacesStay DEF Promise!Outcome

\* So does a word popped into its register, and a0 cleared for a popretz.
LEMMA PoppedEarly ==
    ASSUME HartInv, NEW i \in instr, i.op \in Pops, sp' = sp, mem' = mem,
           NEW r \in Reg, NEW v, reg' = [reg EXCEPT ![r] = v],
           \/ \E b \in 1..i.n : r = Saved[b] /\ Promise!Slot(i, b) \in Mem
           \/ i.op = "popretz" /\ r = "a0"
    PROVE  Promise!Outcome(i)' = Promise!Outcome(i)
<1>1. /\ reg \in [Reg -> Pc] /\ Promise!Reg = Reg
      /\ i \in Instruction /\ i.n \in 1..Len(Saved)
    BY Offered DEF HartInv, CoreTypeOK, DataOK, Reg, Promise!Reg
<1>2. i.op # "push" /\ i.op \in Promise!Pops
    BY DEF Pops, Promise!Pops
<1>3. Promise!MemAfter(i)' = Promise!MemAfter(i)
    BY <1>2, PlacesStay DEF Promise!MemAfter
<1>4. \A q \in Reg : q # r => reg'[q] = reg[q]
    BY <1>1
<1>5. \/ Promise!Holder(i, r) # {} /\ Promise!Loaded(i, r) \in Mem
      \/ i.op = "popretz" /\ r = "a0"
    BY <1>1, OneHolder
<1>6. Promise!RegAfter(i)' = Promise!RegAfter(i)
    BY <1>1, <1>2, <1>4, <1>5, PlacesStay DEF Promise!RegAfter, Promise!Holder
<1> QED BY <1>3, <1>6, PlacesStay DEF Promise!Outcome

LEMMA BeatAsPromised ==
    ASSUME HartInv, NEW i \in instr, NEW gnt \in BOOLEAN, NEW rv \in BOOLEAN,
           NEW err \in BOOLEAN, SeqMem(i, gnt, rv, err)
    PROVE  SeqInv' /\ (Promise!Early(i) \/ UNCHANGED Promise!hartVars)
<1>1. /\ state_q = "SEQ" /\ state_q' = "SEQ" /\ IsMem(i) /\ err = FALSE
      /\ UNCHANGED <<sp, trapVars>> /\ Waits
    BY DEF SeqMem, Go
<1>2. i.op \in Stacks /\ Moved(i)
    BY <1>1 DEF HartInv, SeqInv, KindOf
<1>3. instr = {i} /\ instr' = {i} /\ pc' = pc /\ i \in Instruction
    BY <1>1, Offered, WaitsKeeps DEF HartInv, CoreTypeOK
<1>4. /\ (state_q \in {"WAIT_LSU", "WAIT_MD", "SEQ"})'
            = (state_q \in {"WAIT_LSU", "WAIT_MD", "SEQ"})
      /\ (state_q = "SLEEP")' = (state_q = "SLEEP")
      /\ state_q \in {"WAIT_LSU", "WAIT_MD", "SEQ"}
    BY <1>1
<1>5. i.n \in Nat /\ seq_idx_q \in Nat /\ seq_idx_q < i.n
    BY <1>1, Offered, CoreAssumption DEF HartInv, CoreTypeOK, ControlOK, IsMem
<1>6. CASE ~LsuValid(rv)
    <2>1. reg' = reg /\ mem' = mem /\ seq_idx_q' = seq_idx_q
        BY <1>1, <1>6 DEF SeqMem, IdxNext, SeqStepDone
    <2>2. Moved(i)'
        BY <1>1, <1>2, <2>1, PlacesStay DEF Moved
    <2>3. SeqInv'
        BY <1>1, <1>2, <1>3, <2>2 DEF SeqInv, KindOf
    <2>4. UNCHANGED Promise!hartVars
        BY <1>1, <1>3, <1>4, <2>1
        DEF Promise!hartVars, Promise!dataVars, Promise!trapVars, trapVars
    <2> QED BY <2>3, <2>4
<1>7. CASE LsuValid(rv)
    <2> DEFINE b == i.n - seq_idx_q
    <2>1. Perform(i, FALSE) /\ Access(i).addr \in Mem /\ seq_idx_q' = seq_idx_q + 1
        BY <1>1, <1>7 DEF SeqMem, MayAnswer, LsuValid, IdxNext, SeqStepDone
    <2>2. /\ \A k \in 1..i.n : k >= b => /\ Promise!Slot(i, k) \in Mem
                                          /\ mem'[Promise!Slot(i, k)] = reg'[Saved[k]]
          /\ i.op = "push" => /\ reg' = reg
                              /\ mem' = [mem EXCEPT ![Promise!Slot(i, b)] = reg[Saved[b]]]
          /\ i.op \in Pops => /\ mem' = mem
                              /\ reg' = [reg EXCEPT ![Saved[b]] = mem[Promise!Slot(i, b)]]
        BY <1>1, <1>2, <2>1, BeatMoves
    <2>3. b \in 1..i.n /\ i.n - seq_idx_q' = b - 1 /\ ~(seq_idx_q' > i.n)
        BY <1>5, <2>1
    <2> HIDE DEF b
    <2>4. Moved(i)'
        <3>1. \A k \in 1..i.n : k > i.n - seq_idx_q' => k >= b
            BY <1>5, <2>3
        <3>2. \A k \in 1..i.n : Promise!Slot(i, k)' = Promise!Slot(i, k)
            BY <1>1, PlacesStay
        <3> QED BY <2>2, <2>3, <3>1, <3>2 DEF Moved
    <2>5. SeqInv'
        BY <1>1, <1>2, <1>3, <2>4 DEF SeqInv, KindOf
    <2>6. Promise!Outcome(i)' = Promise!Outcome(i)
        <3>1. CASE i.op = "push"
            BY <1>1, <2>2, <2>3, <3>1, PushedEarly
        <3>2. CASE i.op \in Pops
            <4>1. Saved[b] \in Reg /\ Promise!Slot(i, b) \in Mem
                BY <1>3, <1>5, <2>2, <2>3, Registers, CoreAssumption
            <4> QED BY <1>1, <2>2, <2>3, <3>2, <4>1, PoppedEarly
        <3> QED BY <1>2, <3>1, <3>2 DEF Stacks, Pops
    <2>7. i.op \in Promise!Stacks
        BY <1>2 DEF Stacks, Promise!Stacks, Promise!Pops
    <2>8. Promise!Early(i)
        BY <1>1, <1>3, <1>4, <2>6, <2>7 DEF Promise!Early, Promise!trapVars, trapVars
    <2> QED BY <2>5, <2>8
<1> QED BY <1>6, <1>7

LEMMA ClearAsPromised ==
    ASSUME HartInv, NEW i \in instr, SeqZero(i)
    PROVE  SeqInv' /\ Promise!Early(i)
<1>1. /\ state_q = "SEQ" /\ state_q' = "SEQ" /\ i.op = "popretz" /\ Waits
      /\ seq_idx_q = i.n /\ seq_idx_q' = seq_idx_q + 1
      /\ reg' = [reg EXCEPT !["a0"] = ZeroPc] /\ UNCHANGED <<sp, mem, trapVars>>
    BY DEF SeqZero, IsZero, IdxNext, Go
<1>2. i.op \in Stacks /\ Moved(i)
    BY <1>1 DEF HartInv, SeqInv, KindOf
<1>3. /\ instr = {i} /\ instr' = {i} /\ pc' = pc /\ i \in Instruction
      /\ i.n \in 1..Len(Saved) /\ i.n \in Nat
    BY <1>1, Offered, WaitsKeeps, CoreAssumption DEF HartInv, CoreTypeOK
<1>4. /\ (state_q \in {"WAIT_LSU", "WAIT_MD", "SEQ"})'
            = (state_q \in {"WAIT_LSU", "WAIT_MD", "SEQ"})
      /\ (state_q = "SLEEP")' = (state_q = "SLEEP")
      /\ state_q \in {"WAIT_LSU", "WAIT_MD", "SEQ"}
    BY <1>1
<1>5. reg \in [Reg -> Pc]
    BY DEF HartInv, CoreTypeOK, DataOK
<1>6. \A k \in 1..i.n : reg'[Saved[k]] = reg[Saved[k]]
    BY <1>1, <1>3, <1>5, Registers, CoreAssumption
<1>7. Moved(i)'
    <2>1. \A k \in 1..i.n : k > i.n - seq_idx_q
        BY <1>1, <1>3
    <2>2. reg'["a0"] = ZeroPc
        BY <1>1, <1>5, Registers
    <2> QED BY <1>1, <1>2, <1>6, <2>1, <2>2, PlacesStay DEF Moved
<1>8. SeqInv'
    BY <1>1, <1>2, <1>3, <1>7 DEF SeqInv, KindOf
<1>9. Promise!Outcome(i)' = Promise!Outcome(i)
    BY <1>1, Registers, PoppedEarly DEF Pops
<1>10. i.op \in Promise!Stacks
    BY <1>2 DEF Stacks, Promise!Stacks, Promise!Pops
<1>11. Promise!Early(i)
    BY <1>1, <1>3, <1>4, <1>9, <1>10 DEF Promise!Early, Promise!trapVars, trapVars
<1> QED BY <1>8, <1>11

\* What the last step of a sequence leaves is the outcome promised at its start.
LEMMA LastAsPromised ==
    ASSUME HartInv, NEW i \in instr, SeqLast(i)
    PROVE  SeqInv' /\ Promise!Finish(i)
<1>1. /\ state_q = "SEQ" /\ state_q' = "RUN" /\ IsLast(i)
      /\ UNCHANGED <<reg, mem, trapVars>> /\ sp' = SpFinal(i)
    BY DEF SeqLast, Go
<1>2. i.op \in Stacks /\ Moved(i)
    BY <1>1 DEF HartInv, SeqInv, KindOf
<1>3. i \in Instruction /\ i.n \in 1..Len(Saved) /\ i.n \in Nat /\ seq_idx_q \in Nat
      /\ Len(Saved) \in Nat
    BY Offered, CoreAssumption DEF HartInv, CoreTypeOK, ControlOK
<1>4. seq_idx_q >= i.n /\ (i.op = "popretz" => seq_idx_q > i.n)
    BY <1>1, <1>3 DEF IsLast, IsMem, IsZero
<1>5. /\ \A k \in 1..i.n : Promise!Slot(i, k) \in Mem
                            /\ mem[Promise!Slot(i, k)] = reg[Saved[k]]
      /\ i.op = "popretz" => reg["a0"] = ZeroPc
    BY <1>2, <1>3, <1>4 DEF Moved
<1>6. reg \in [Reg -> Pc] /\ mem \in [Mem -> Pc] /\ Promise!Reg = Reg
    BY DEF HartInv, CoreTypeOK, DataOK, Reg, Promise!Reg
<1>7. mem = Promise!MemAfter(i)
    <2>1. ASSUME NEW a \in Mem, Promise!Place(i, a) # {}
          PROVE  reg[Saved[CHOOSE k \in Promise!Place(i, a) : TRUE]] = mem[a]
        <3>1. PICK k : k = CHOOSE j \in Promise!Place(i, a) : TRUE
            OBVIOUS
        <3>2. k \in 1..i.n /\ Promise!Slot(i, k) = a
            BY <2>1, <3>1 DEF Promise!Place
        <3> QED BY <1>5, <3>1, <3>2
    <2> QED BY <1>6, <2>1 DEF Promise!MemAfter
<1>8. reg = Promise!RegAfter(i)
    <2>1. ASSUME NEW r \in Reg, Promise!Holder(i, r) # {}
          PROVE  mem[Promise!Loaded(i, r)] = reg[r]
        <3>1. PICK k \in 1..i.n : Saved[k] = r
            BY <2>1 DEF Promise!Holder
        <3>2. Promise!Loaded(i, r) = Promise!Slot(i, k)
            BY <1>3, <3>1, OneHolder
        <3> QED BY <1>5, <3>1, <3>2
    <2> QED BY <1>5, <1>6, <2>1 DEF Promise!RegAfter
<1>9. sp' = Promise!SpAfter(i)
    BY <1>1 DEF SpFinal, Promise!SpAfter
<1>10. pc' = Promise!PcAfter(i)
    <2>1. BeatReg(i) = Saved[1]
        BY <1>1 DEF BeatReg, IsLast
    <2> QED BY <1>8, <2>1 DEF SeqLast, Redirect, InLine, Promise!PcAfter, Promise!Returns
<1>11. /\ (state_q \in {"WAIT_LSU", "WAIT_MD", "SEQ"})' = FALSE
       /\ (state_q = "SLEEP")' = (state_q = "SLEEP")
       /\ state_q \in {"WAIT_LSU", "WAIT_MD", "SEQ"}
    BY <1>1
<1>12. i.op \notin {"div", "load", "store"}
    BY <1>2 DEF Stacks
<1>13. Promise!Finish(i)
    BY <1>1, <1>5, <1>7, <1>8, <1>9, <1>10, <1>11, <1>12
    DEF Promise!Finish, Promise!trapVars, trapVars
<1> QED BY <1>1, <1>13, NothingBegun

-----------------------------------------------------------------------------
LEMMA StepAsPromised ==
    ASSUME HartInv, Next
    PROVE  SeqInv' /\ [Promise!Next]_(Promise!hartVars)
<1>1. ASSUME NEW en \in BOOLEAN, Run(en)
      PROVE  SeqInv' /\ [Promise!Next]_(Promise!hartVars)
    <2>1. CASE NothingToDo(en) \/ Sleep(en) \/ Interrupt(en)
        BY <2>1, RestAsPromised DEF Promise!Next
    <2>2. ASSUME NEW i \in instr, NEW deny \in BOOLEAN, Exception(en, i, deny)
          PROVE  SeqInv' /\ Promise!Next
        BY <2>2, FaultsAsPromised DEF Promise!Next
    <2>3. ASSUME NEW i \in instr, \/ Alu(en, i) \/ Csr(en, i) \/ Mret(en, i) \/ Wfi(en, i)
                                  \/ \E target \in Pc : Jump(en, i, target)
          PROVE  SeqInv' /\ Promise!Next
        BY <2>3, OneCycleAsPromised DEF Promise!Next
    <2>4. ASSUME NEW i \in instr, \/ StartMd(en, i) \/ StartSeq(en, i)
                                  \/ \E deny, gnt \in BOOLEAN : StartLsu(en, i, deny, gnt)
          PROVE  SeqInv' /\ Promise!Next
        BY <2>4, StartsKeep DEF Promise!Next
    <2> QED BY <1>1, <2>1, <2>2, <2>3, <2>4 DEF Run
<1>2. ASSUME NEW done \in BOOLEAN, WaitMd(done)
      PROVE  SeqInv' /\ [Promise!Next]_(Promise!hartVars)
    <2>1. PICK i \in instr : TRUE
        BY <1>2 DEF WaitMd, HartInv, CoreTypeOK, ControlOK
    <2> QED BY <1>2, <2>1, DivisionAsPromised DEF Promise!Next
<1>3. ASSUME NEW i \in instr, NEW gnt \in BOOLEAN, NEW rv \in BOOLEAN,
             NEW err \in BOOLEAN, NEW deny \in BOOLEAN,
             \/ WaitLsu(i, gnt, rv, err) \/ SeqDenied(i, deny) \/ SeqFault(i, rv, err)
             \/ SeqMem(i, gnt, rv, err) \/ SeqZero(i) \/ SeqLast(i)
      PROVE  SeqInv' /\ [Promise!Next]_(Promise!hartVars)
    <2>1. CASE WaitLsu(i, gnt, rv, err)
        BY <2>1, AccessAsPromised DEF Promise!Next
    <2>2. CASE SeqDenied(i, deny) \/ SeqFault(i, rv, err)
        BY <2>2, FaultsAsPromised DEF Promise!Next
    <2>3. CASE SeqMem(i, gnt, rv, err)
        BY <2>3, BeatAsPromised DEF Promise!Next
    <2>4. CASE SeqZero(i) \/ SeqLast(i)
        BY <2>4, ClearAsPromised, LastAsPromised DEF Promise!Next
    <2> QED BY <1>3, <2>1, <2>2, <2>3, <2>4
<1>4. CASE Wait
    BY <1>2, <1>3, <1>4 DEF Wait
<1> QED BY <1>1, <1>4 DEF Next

\* The core implements Hart: each instruction takes effect once and whole or
\* traps without effect, interrupts come between instructions, and a push or
\* pop that traps half way has the same outcome when it is executed again.
THEOREM ImplementsHart == Spec => HartSpec
<1>1. Init => HartInv /\ Promise!Init
    <2> SUFFICES ASSUME Init PROVE HartInv /\ Promise!Init
        OBVIOUS
    <2>1. CoreTypeOK
        BY InitTypeOK
    <2>2. SeqInv
        BY DEF Init, SeqInv
    <2>3. Promise!Init
        BY DEF Init, Promise!Init
    <2> QED BY <2>1, <2>2, <2>3 DEF HartInv
<1>2. ASSUME HartInv, [Next]_vars
      PROVE  HartInv' /\ [Promise!Next]_(Promise!hartVars)
    <2>1. CoreTypeOK'
        BY <1>2, TypeKept DEF HartInv
    <2>2. CASE Next
        BY <1>2, <2>1, <2>2, StepAsPromised DEF HartInv
    <2>3. CASE UNCHANGED vars
        <3>1. UNCHANGED <<state_q, seq_idx_q, pc, instr, dataVars, trapVars>>
            BY <2>3 DEF vars, coreVars, fsmVars, fetchVars
        <3>2. SeqInv'
            BY <1>2, <3>1 DEF HartInv, SeqInv, KindOf, Moved, Promise!Slot, dataVars
        <3>3. UNCHANGED Promise!hartVars
            BY <3>1 DEF Promise!hartVars, Promise!dataVars, Promise!trapVars,
                        dataVars, trapVars
        <3> QED BY <2>1, <3>2, <3>3 DEF HartInv
    <2> QED BY <1>2, <2>2, <2>3
<1> QED BY <1>1, <1>2, PTL DEF Spec, HartSpec, Promise!Spec

=============================================================================
