-------------------------------- MODULE Cosim --------------------------------
(***************************************************************************)
(* The random co-simulation: verif/core/random_regress.py asks             *)
(* gen_random_prog.py for a program per seed, has it built, and runs       *)
(* cosim.py, which executes it on Spike and on the core and compares what  *)
(* they retired up to the end label.                                       *)
(*                                                                         *)
(* An instruction is what decides where a program goes: a register it      *)
(* writes, by role; an access through the base register; or a branch.      *)
(* What a branch compares is random data, so each execution of it may go   *)
(* either way.  A retired instruction is its place and whether what it     *)
(* wrote is right.                                                         *)
(***************************************************************************)
EXTENDS Integers, Sequences, FiniteSets, SequencesExt

CONSTANTS
    Seeds,      \* programs of a regression
    Count,      \* --count, instructions of a body
    Loops,      \* values of --loops
    Ahead,      \* how far a branch reaches
    Slack,      \* what the retire bound leaves for the prologue
    MaxRetired  \* retired instructions kept of an execution

\* Bodies of one instruction could retire more than the bound.
CosimAssumption ==
    /\ Seeds \in Nat \ {0} /\ Loops \subseteq Nat \ {0}
    /\ Count \in Nat /\ Count >= 2
    /\ Ahead \in Nat \ {0}
    /\ Slack \in Nat /\ Slack >= 2
    /\ MaxRetired \in Nat \ {0}

VARIABLES
    pc, seed, loops,
    body, pending, target,   \* the program, branches still in the air, labels
    at, counter, base,       \* its execution: place, outer counter, base intact
    arch,                    \* what the architecture retires
    spike, rtl,              \* the two logs
    verdict, passed, failed,
    good                     \* history: seeds whose program the core ran right

program == <<body, pending, target>>
hart == <<at, counter, base, arch>>
logs == <<spike, rtl, verdict>>
tally == <<passed, failed, good>>
vars == <<pc, seed, loops, program, hart, logs, tally>>

Prologue == 0
Decrement == Len(body) + 1
LoopBack == Len(body) + 2
Done == Len(body) + 3
Fail == Len(body) + 4
Reset == -1
Stops == {Done, Fail}
AfterBody == IF loops > 1 THEN Decrement ELSE Done

----------------------------------------------------------------------------
(* verif/core/gen_random_prog.py *)

\* mutant: the pool of the destinations has the counter of the outer loop
PoolWithCounter == {"pool", "counter"}

\* The destinations: neither the base pointer, nor the outer counter, nor sp.
Pool == {"pool"}

\* A load has a destination; a store has none, which is register zero.
Instr(kind, rd, lab) == [kind |-> kind, rd |-> rd, lab |-> lab]
Instructions ==
    {Instr(kind, rd, 0) : kind \in {"op", "mem"}, rd \in Pool \cup {"zero"}}
    \cup {Instr("br", "zero", Len(target) + 1)}

Init ==
    /\ pc = "generate" /\ seed = 1 /\ loops \in Loops
    /\ body = <<>> /\ pending = {} /\ target = <<>>
    /\ at = Prologue /\ counter = 0 /\ base = TRUE /\ arch = <<>>
    /\ spike = <<>> /\ rtl = <<>> /\ verdict = "none"
    /\ passed = 0 /\ failed = {} /\ good = {}

\* Branches whose distance is covered land here, before the next instruction.
Landed(due) == [l \in DOMAIN target |->
                   IF \E p \in due : p.lab = l THEN Len(body) + 1 ELSE target[l]]

Emit ==
    /\ pc = "generate" /\ Len(body) < Count
    /\ LET due == {p \in pending : p.at <= Len(body)}
       IN \E i \in Instructions :
          /\ body' = Append(body, i)
          /\ IF i.kind = "br"
             THEN \E ahead \in 1..Ahead :
                      /\ pending' = (pending \ due) \cup
                             {[lab |-> i.lab, at |-> Len(body) + ahead]}
                      /\ target' = Append(Landed(due), 0)
             ELSE pending' = pending \ due /\ target' = Landed(due)
    /\ UNCHANGED <<pc, seed, loops, hart, logs, tally>>

\* What is still in the air lands behind the body.  The prologue sets every
\* register, the counter to the number of loops.
Write ==
    /\ pc = "generate" /\ Len(body) = Count
    /\ target' = Landed(pending) /\ pending' = {}
    /\ pc' = "build"
    /\ UNCHANGED <<seed, loops, body, hart, logs, tally>>

----------------------------------------------------------------------------
(* The program runs.  What it retires is in the log of Spike in any case. *)

\* Generator, assembler, objcopy and mkimage, each of which may fail.
Build ==
    /\ pc = "build" /\ pc' = "spike"
    /\ UNCHANGED <<seed, loops, program, hart, logs, tally>>

BuildFails ==
    /\ pc = "build"
    /\ failed' = failed \cup {seed} /\ pc' = "next"
    /\ UNCHANGED <<seed, loops, program, hart, logs, passed, good>>

Retire(to) ==
    /\ pc = "spike"
    /\ arch' = IF Len(arch) < MaxRetired THEN Append(arch, <<at, "right">>) ELSE arch
    /\ at' = to
    /\ UNCHANGED <<pc, seed, loops, program, logs, tally>>

Following == IF at < Len(body) THEN at + 1 ELSE AfterBody

RetirePrologue ==
    /\ at = Prologue /\ counter' = loops /\ UNCHANGED base
    /\ Retire(Following)

\* A register of the body takes any value.
SetRegister(rd) ==
    /\ counter' \in IF rd = "counter" THEN 0..Count ELSE {counter}
    /\ base' = (base /\ rd # "base")

RetireOp ==
    /\ at \in DOMAIN body /\ body[at].kind = "op"
    /\ SetRegister(body[at].rd) /\ Retire(Following)

\* An access through the base stays in the scratch area.
RetireMem ==
    /\ at \in DOMAIN body /\ body[at].kind = "mem" /\ base
    /\ SetRegister(body[at].rd) /\ Retire(Following)

RetireBranch ==
    /\ at \in DOMAIN body /\ body[at].kind = "br"
    /\ UNCHANGED <<counter, base>>
    /\ Retire(Following) \/ Retire(IF target[body[at].lab] \in DOMAIN body
                                   THEN target[body[at].lab] ELSE AfterBody)

RetireLoop ==
    /\ UNCHANGED base
    /\ \/ at = Decrement /\ counter' = counter - 1 /\ Retire(LoopBack)
       \/ at = LoopBack /\ UNCHANGED counter
          /\ Retire(IF counter # 0 THEN (IF body = <<>> THEN Decrement ELSE 1) ELSE Done)

\* run_spike: the log has the reset vector in front and, as Spike sees the
\* store that ends the run late, some of the final loop behind.
SpikeEnds ==
    /\ pc = "spike" /\ at = Done
    /\ \E tail \in 1..2 :
           spike' = <<<<Reset, "right">>>> \o arch \o [i \in 1..tail |-> <<Done, "right">>]
    /\ pc' = "rtl"
    /\ UNCHANGED <<seed, loops, program, hart, rtl, verdict, tally>>

----------------------------------------------------------------------------
(* verif/core/cosim.py *)

\* mutant: the retire bound is fixed
FixedBound == Slack

\* The retire bound random_regress passes, scaled with the program.
RetireBound == Count * loops * 2 + Slack

\* What a core may retire of the program: all of it; with a wrong entry; with
\* an entry twice; a part, when it hangs or a fault stops the bench; or a part
\* and then the fail label.
Right == Append(arch, <<Done, "right">>)
Wrong ==
    {arch} \cup
    UNION {{[Right EXCEPT ![k][2] = "wrong"],
            SubSeq(Right, 1, k) \o SubSeq(Right, k, Len(Right)),
            SubSeq(Right, 1, k - 1),
            Append(SubSeq(Right, 1, k - 1), <<Fail, "right">>)} : k \in 1..Len(arch)}

\* run_rtl: the bench stops when it has retired an end label or the bound.
RunRtl ==
    /\ pc = "rtl"
    /\ \E stream \in Wrong \cup {Right} :
           /\ rtl' = SubSeq(stream, 1, IF Len(stream) < RetireBound THEN Len(stream)
                                       ELSE RetireBound)
           /\ good' = IF stream = Right THEN good \cup {seed} ELSE good
    /\ pc' = "compare"
    /\ UNCHANGED <<seed, loops, program, hart, spike, verdict, passed, failed>>

\* The trace before its first instruction inside a stop label, and that label.
TruncateAt(trace) ==
    LET i == SelectInSeq(trace, LAMBDA e : e[1] \in Stops)
    IN IF i = 0 THEN [trace |-> trace, label |-> Reset]
       ELSE [trace |-> SubSeq(trace, 1, i - 1), label |-> trace[i][1]]

Matches(s, r) ==
    /\ \A i \in 1..Len(s.trace) :
           i <= Len(r.trace) /\ i <= RetireBound => s.trace[i] = r.trace[i]
    /\ Len(s.trace) = Len(r.trace)
    /\ s.label = r.label
    /\ s.label # Fail

Compare ==
    /\ pc = "compare"
    /\ LET start == SelectInSeq(spike, LAMBDA e : e[1] = Prologue)
           s == TruncateAt(SubSeq(spike, start, Len(spike)))
           ok == start # 0 /\ rtl # <<>> /\ Matches(s, TruncateAt(rtl))
       IN verdict' = IF ok THEN "pass" ELSE "fail"
    /\ pc' = "judged"
    /\ UNCHANGED <<seed, loops, program, hart, spike, rtl, tally>>

----------------------------------------------------------------------------
(* verif/core/random_regress.py *)

Tally ==
    /\ pc = "judged"
    /\ passed' = passed + (IF verdict = "pass" THEN 1 ELSE 0)
    /\ failed' = IF verdict = "pass" THEN failed ELSE failed \cup {seed}
    /\ pc' = "next"
    /\ UNCHANGED <<seed, loops, program, hart, logs, good>>

NextSeed ==
    /\ pc = "next" /\ seed < Seeds
    /\ seed' = seed + 1 /\ pc' = "generate"
    /\ body' = <<>> /\ pending' = {} /\ target' = <<>>
    /\ at' = Prologue /\ counter' = 0 /\ base' = TRUE /\ arch' = <<>>
    /\ spike' = <<>> /\ rtl' = <<>> /\ verdict' = "none"
    /\ UNCHANGED <<loops, tally>>

Finish ==
    /\ pc = "next" /\ seed = Seeds /\ pc' = "end"
    /\ UNCHANGED <<seed, loops, program, hart, logs, tally>>

Executes ==
    \/ RetirePrologue \/ RetireOp \/ RetireMem \/ RetireBranch \/ RetireLoop
    \/ SpikeEnds

Next ==
    \/ Emit \/ Write \/ Build \/ BuildFails
    \/ Executes
    \/ RunRtl \/ Compare \/ Tally \/ NextSeed \/ Finish

\* A hart that can retire does.
Spec == Init /\ [][Next]_vars /\ WF_vars(pc = "spike" /\ Executes)

----------------------------------------------------------------------------

\* A regression counts as matching exactly the programs that the core retired
\* as the architecture does, to the end label: not one that merely retired a
\* part of it, and none is failed for its length (cosim.py:205-240,
\* random_regress.py:84-92).
RegressExact ==
    pc = "end" => /\ failed = (1..Seeds) \ good
                  /\ passed = Cardinality(good)

\* A program that was built reaches its end label, whatever its branches do:
\* a branch only goes forward, the outer loop is bounded and nothing the body
\* writes undoes that (gen_random_prog.py:31-34, 70-75).
ProgramEnds == (pc = "spike") ~> (pc = "rtl")
=============================================================================
