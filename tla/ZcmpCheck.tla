------------------------------ MODULE ZcmpCheck ------------------------------
(***************************************************************************)
(* scripts/check_zcmp.py: the table of the Zcmp sequencer, dumped by its   *)
(* bench, is checked against Spike.  A generated program has every cm.*    *)
(* instruction once; the script follows the commit log with a model of     *)
(* registers and memory, interprets the dumped steps of each cm.*          *)
(* instruction over that model, and compares with what Spike wrote and     *)
(* where it went on.                                                       *)
(*                                                                         *)
(* The dumped table is the sequencer's with at most one defect.  The       *)
(* program has the first MaxList of the twelve register lists, MaxSpimm    *)
(* adjustments for each and the moves of MaxMoved registers; a value is a  *)
(* number of its own.                                                      *)
(***************************************************************************)
EXTENDS Integers, Sequences, SequencesExt

CONSTANTS
    MaxList,   \* lists of registers
    MaxSpimm,  \* values of the additional adjustment
    MaxMoved,  \* registers that are moved
    Defects    \* the kinds of defect a table may have

StepDefects == {"imm", "rd", "rs1", "rs2", "we", "azero", "ret", "drop", "swap"}

\* Sizes up to those of the script, which has 12, 4 and 8.
ZcmpAssumption ==
    /\ MaxList \in 1..12 /\ MaxSpimm \in 1..4 /\ MaxMoved \in 1..8
    /\ Defects \subseteq StepDefects \cup {"none", "missing", "extra"}

VARIABLES
    program,           \* what gen_program wrote: its cases, in order
    defect,            \* of the dumped table: kind, encoding, step
    phase, case,       \* "seed", "commit" or "end"; which case of the program
    regs, memm,        \* the model, updated from every commit
    checked, used, bad,
    verdict

vars == <<program, defect, phase, case, regs, memm, checked, used, bad, verdict>>

ZERO == 0
RA == 1
SP == 2
T0 == 5
OTHER_REG == 7
A0 == 10
A1 == 11
SREGN == <<RA, 8, 9, 18, 19, 20, 21, 22, 23, 24, 25, 26, 27>>
Saved(n) == {SREGN[j] : j \in 1..n}
Registers == {ZERO, SP, T0, OTHER_REG, A0, A1} \cup Saved(13)

\* The last list has two registers more than the one before.
ListLength(l) == IF l = 12 THEN 13 ELSE l

None == -1
SP0 == 256
Stack == {SP0 + 4 * k : k \in -16..2}
MemGet(a) == IF a \in DOMAIN memm THEN memm[a] ELSE None

BaseBytes(n) == ((4 * n + 15) \div 16) * 16
Adjust(e) == BaseBytes(e.a) + 16 * e.b

\* An encoding: the length of a list and spimm, or the two registers of a move.
Enc(op, a, b) == [op |-> op, a |-> a, b |-> b]
Ops == <<"cm.push", "cm.pop", "cm.popretz", "cm.popret">>
Returns(e) == e.op \in {"cm.popretz", "cm.popret"}
Moves(e) == e.op \in {"cm.mva01s", "cm.mvsa01"}

----------------------------------------------------------------------------
(* The table of the sequencer. *)

Step == [mem |-> FALSE, we |-> FALSE, rs1 |-> SP, rs2 |-> ZERO, rd |-> ZERO,
         imm |-> 0, azero |-> FALSE, wb |-> FALSE, last |-> FALSE, ret |-> FALSE]

Move(to, from, last) == [Step EXCEPT !.rd = to, !.rs1 = from, !.wb = TRUE, !.last = last]

Sequencer(e) ==
    LET n == e.a
        Beat(k) == [Step EXCEPT !.mem = TRUE,
                        !.we = (e.op = "cm.push"),
                        !.rs2 = IF e.op = "cm.push" THEN SREGN[n + 1 - k] ELSE ZERO,
                        !.rd = IF e.op = "cm.push" THEN ZERO ELSE SREGN[n + 1 - k],
                        !.imm = (IF e.op = "cm.push" THEN 0 ELSE Adjust(e)) - 4 * k]
        Zero == [Step EXCEPT !.wb = TRUE, !.azero = TRUE, !.rd = A0]
        Sp == [Step EXCEPT !.wb = TRUE, !.last = TRUE, !.rd = SP,
                   !.imm = IF e.op = "cm.push" THEN -Adjust(e) ELSE Adjust(e),
                   !.ret = Returns(e), !.rs2 = IF e.op = "cm.push" THEN ZERO ELSE RA]
    IN CASE e.op = "cm.mva01s" -> <<Move(A0, e.a, FALSE), Move(A1, e.b, TRUE)>>
         [] e.op = "cm.mvsa01" -> <<Move(e.a, A0, FALSE), Move(e.b, A1, TRUE)>>
         [] OTHER -> [k \in 1..(IF e.op = "cm.popretz" THEN n + 2 ELSE n + 1) |->
                         IF k <= n THEN Beat(k)
                         ELSE IF k = n + 1 /\ e.op = "cm.popretz" THEN Zero ELSE Sp]

\* A step in the place of another one: what ends the sequence and where that
\* returns to belong to the place.
Placed(s, t) ==
    [s EXCEPT !.last = t.last, !.ret = t.ret,
              !.rs2 = IF t.ret THEN t.rs2 ELSE IF s.ret THEN ZERO ELSE s.rs2]

\* The same with a step k that is wrong, left out, or done after the next one.
Broken(seq, kind, k) ==
    CASE kind = "imm" -> [seq EXCEPT ![k].imm = @ + 4]
      [] kind = "rd" -> [seq EXCEPT ![k].rd = OTHER_REG]
      [] kind = "rs1" -> [seq EXCEPT ![k].rs1 = OTHER_REG]
      [] kind = "rs2" -> [seq EXCEPT ![k].rs2 = OTHER_REG]
      [] kind = "we" -> [seq EXCEPT ![k].we = ~@]
      [] kind = "azero" -> [seq EXCEPT ![k].azero = ~@]
      [] kind = "ret" -> [seq EXCEPT ![k].ret = ~@]
      [] kind = "drop" -> SubSeq(seq, 1, k - 1) \o SubSeq(seq, k + 1, Len(seq))
      [] kind = "swap" -> [seq EXCEPT ![k] = Placed(seq[k + 1], seq[k]),
                                      ![k + 1] = Placed(seq[k], seq[k + 1])]

\* Where a defect of a kind makes another table.
Applies(s, kind) ==
    CASE kind = "rd" -> ~s.we
      [] kind = "rs1" -> s.wb /\ ~s.azero
      [] kind = "rs2" -> s.we \/ s.ret
      [] kind = "we" -> s.mem
      [] kind = "azero" -> s.wb
      [] kind = "ret" -> s.last
      [] kind = "swap" -> ~s.last
      [] OTHER -> TRUE

----------------------------------------------------------------------------
(* gen_program *)

PushPops ==
    [i \in 1..(4 * MaxList * MaxSpimm) |->
        LET l == (i - 1) \div MaxSpimm
        IN Enc(Ops[(l \div MaxList) + 1], ListLength((l % MaxList) + 1), (i - 1) % MaxSpimm)]

\* Every pair of registers for the first move, every unequal one for the second:
\* a register has two instructions with each, one with itself.
MvReg(r) == SREGN[r + 2]
MovePairs ==
    LET row == 2 * MaxMoved - 1
    IN [i \in 1..(MaxMoved * row) |->
            LET r1 == (i - 1) \div row
                j == (i - 1) % row
                k == IF j > 2 * r1 THEN j + 1 ELSE j
            IN Enc(IF k % 2 = 0 THEN "cm.mva01s" ELSE "cm.mvsa01", MvReg(r1), MvReg(k \div 2))]

Cases == PushPops \o MovePairs
Encodings == Range(Cases)
Unused == Enc("cm.push", 0, 0)  \* in the table only by a defect: no list is empty

\* What goes into slot k of the stack of case c.
SlotValue(c, k) == 4000 + 64 * c + k

CmPc(c) == 1000000 + 100 * c
Label77(c) == CmPc(c) + 6

\* The instructions in front of a case: lists of registers or of stack slots,
\* the highest register first, the return address in the last slot; and the
\* seeds of a pair.  Each is a commit that the model follows.
SeedRegs(c, e) ==
    IF e.op = "cm.push"
    THEN [r \in DOMAIN regs |-> CASE r = SP -> SP0
            [] \E j \in 1..e.a : SREGN[j] = r -> 3000 + (CHOOSE j \in 1..e.a : SREGN[j] = r)
            [] OTHER -> regs[r]]
    ELSE IF Moves(e)
    THEN (IF e.op = "cm.mva01s"
          THEN [regs EXCEPT ![e.a] = 5000 + e.a, ![e.b] = 6000 + e.b,
                            ![A0] = IF @ = 0 THEN 7000 ELSE @, ![A1] = IF @ = 0 THEN 7001 ELSE @]
          ELSE regs)
    ELSE [regs EXCEPT ![SP] = SP0 - Adjust(e), ![T0] = SlotValue(c, e.a),
                      ![A0] = IF e.op = "cm.popretz" THEN 9999 ELSE @]

SeedSlots(c, e) ==
    IF e.op = "cm.push" \/ Moves(e) THEN memm
    ELSE [a \in DOMAIN memm |->
            IF \E k \in 1..e.a : a = SP0 - 4 * k
            THEN LET k == (SP0 - a) \div 4
                 IN IF Returns(e) /\ k = e.a THEN Label77(c) ELSE SlotValue(c, k)
            ELSE memm[a]]

----------------------------------------------------------------------------

Init ==
    /\ program = Cases
    /\ \E kind \in Defects, e \in Encodings :
         \/ kind \in {"none", "missing", "extra"} /\ defect = [kind |-> kind, enc |-> e, step |-> 1]
         \/ /\ kind \notin {"none", "missing", "extra"}
            /\ \E k \in 1..Len(Sequencer(e)) :
                   /\ Applies(Sequencer(e)[k], kind)
                   /\ defect = [kind |-> kind, enc |-> e, step |-> k]
    /\ phase = "seed" /\ case = 1
    /\ regs = [r \in Registers |-> 0]
    /\ memm = [a \in Stack |-> None]
    /\ checked = 0 /\ used = {} /\ bad = 0
    /\ verdict = "none"

\* load_dump: the sequences of the table by encoding.
Lacks(e) == defect.kind = "missing" /\ e = defect.enc
Dumped == {e \in Encodings : ~Lacks(e)} \cup (IF defect.kind = "extra" THEN {Unused} ELSE {})
Steps(e) == IF e = defect.enc /\ defect.kind \notin {"none", "missing", "extra"}
            THEN Broken(Sequencer(e), defect.kind, defect.step)
            ELSE Sequencer(e)

\* What a commit line of Spike says: the registers written, sorted, and the
\* accesses in order.  Not of this repository: the Zcmp instructions as such.
SpikeSp(e) == IF e.op = "cm.push" THEN regs[SP] - Adjust(e) ELSE regs[SP] + Adjust(e)
Slot(e, k) == regs[SP] - 4 * k + (IF e.op = "cm.push" THEN 0 ELSE Adjust(e))
SpikeWrites(e) ==
    CASE e.op = "cm.push" -> [r \in {SP} |-> SpikeSp(e)]
      [] e.op = "cm.mva01s" -> [r \in {A0, A1} |-> regs[IF r = A0 THEN e.a ELSE e.b]]
      [] e.op = "cm.mvsa01" -> [r \in {e.a, e.b} |-> regs[IF r = e.a THEN A0 ELSE A1]]
      [] OTHER -> [r \in {SP} \cup Saved(e.a) \cup (IF e.op = "cm.popretz" THEN {A0} ELSE {}) |->
                      IF r = SP THEN SpikeSp(e)
                      ELSE IF r = A0 THEN 0
                      ELSE memm[Slot(e, CHOOSE k \in 1..e.a : SREGN[e.a + 1 - k] = r)]]
SpikeMem(e) ==
    IF Moves(e) THEN <<>>
    ELSE [k \in 1..e.a |->
            [addr |-> Slot(e, k),
             data |-> IF e.op = "cm.push" THEN regs[SREGN[e.a + 1 - k]] ELSE None]]
SpikeNext(e) == IF Returns(e) THEN SpikeWrites(e)[RA] ELSE CmPc(case) + 2

\* expected_events: every step reads the state before the instruction.
NoWrites == [r \in {} |-> 0]
Write(w, r, v) == [x \in DOMAIN w \cup {r} |-> IF x = r THEN v ELSE w[x]]

Interpret(ev, s) ==
    CASE s.mem /\ s.we -> [ev EXCEPT !.memb = Append(@, [addr |-> regs[SP] + s.imm,
                                                         data |-> regs[s.rs2]])]
      [] s.mem /\ ~s.we -> [ev EXCEPT !.memb = Append(@, [addr |-> regs[SP] + s.imm,
                                                          data |-> None]),
                                !.regw = IF s.rd = ZERO THEN @
                                         ELSE Write(@, s.rd, MemGet(regs[SP] + s.imm))]
      [] ~s.mem /\ s.wb /\ s.rd # ZERO ->
             [ev EXCEPT !.regw =
                 Write(@, s.rd, IF s.azero THEN s.imm ELSE regs[s.rs1] + s.imm)]
      [] OTHER -> ev
Returned(ev, s) ==
    IF ~(s.last /\ s.ret) THEN ev
    ELSE [ev EXCEPT !.next = IF s.rs2 \in DOMAIN ev.regw THEN ev.regw[s.rs2] ELSE regs[s.rs2]]

\* The events of the first k steps of a sequence, for every k.
Events(seq) ==
    LET after[k \in 0..Len(seq)] ==
            IF k = 0 THEN [regw |-> NoWrites, memb |-> <<>>, next |-> CmPc(case) + 2]
            ELSE Returned(Interpret(after[k - 1], seq[k]), seq[k])
    IN after[Len(seq)]
Expected(e) == Events(Steps(e))

\* mutant: where the program goes on is not compared
AgreesInWrites(e) ==
    LET exp == Expected(e) IN exp.regw = SpikeWrites(e) /\ exp.memb = SpikeMem(e)

Agrees(e) ==
    LET exp == Expected(e)
    IN /\ exp.regw = SpikeWrites(e) /\ exp.memb = SpikeMem(e)
       /\ exp.next = SpikeNext(e)

Seed ==
    /\ phase = "seed" /\ phase' = "commit"
    /\ regs' = SeedRegs(case, program[case])
    /\ memm' = SeedSlots(case, program[case])
    /\ UNCHANGED <<program, defect, case, checked, used, bad, verdict>>

\* One cm.* commit: checked when the table has it, and followed by the model.
Commit ==
    /\ phase = "commit"
    /\ LET e == program[case]
           writes == SpikeWrites(e)
           accesses == SpikeMem(e)
       IN /\ IF ~Lacks(e)
             THEN /\ checked' = checked + 1 /\ used' = used \cup {e}
                  /\ bad' = IF Agrees(e) THEN bad ELSE bad + 1
             ELSE UNCHANGED <<checked, used, bad>>
          /\ regs' = [r \in DOMAIN regs |->
                 IF r \in DOMAIN writes THEN writes[r] ELSE regs[r]]
          /\ memm' = [a \in DOMAIN memm |->
                 IF \E k \in DOMAIN accesses :
                        accesses[k].addr = a /\ accesses[k].data # None
                 THEN (CHOOSE m \in Range(accesses) : m.addr = a).data
                 ELSE memm[a]]
    /\ IF case = Len(program)
       THEN phase' = "report" /\ UNCHANGED case
       ELSE phase' = "seed" /\ case' = case + 1
    /\ UNCHANGED <<program, defect, verdict>>

Report ==
    /\ phase = "report" /\ phase' = "end"
    /\ verdict' = IF bad = 0 /\ Dumped \ used = {} /\ checked = Len(program)
                  THEN "PASS" ELSE "FAIL"
    /\ UNCHANGED <<program, defect, case, regs, memm, checked, used, bad>>

Next == Seed \/ Commit \/ Report

Spec == Init /\ [][Next]_vars

----------------------------------------------------------------------------

\* Two steps exchanged that are not both accesses to memory.
OrderUnseen ==
    /\ defect.kind = "swap"
    /\ LET seq == Sequencer(defect.enc)
       IN ~(seq[defect.step].mem /\ seq[defect.step + 1].mem)

\* The check passes the table of the sequencer and no table with a wrong step,
\* a step too few, accesses to memory in another order, an instruction too few or
\* one too many (scripts/check_zcmp.py:22-33, 176-207, 266-280).  It passes every
\* other order of the steps too, that of a push whose stack pointer is written
\* before its last store among them, as it sorts what is written to registers
\* and reads none of it; lines 31-32 have "misplaced the sp write in the order
\* therefore fails here".
TableVerdict ==
    phase = "end" => (verdict = "PASS" <=> defect.kind = "none" \/ OrderUnseen)
=============================================================================
