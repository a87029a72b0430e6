--------------------------- MODULE FaultCampaign ---------------------------
(***************************************************************************)
(* The fault injection campaigns: scripts/fi_campaign.py over the core and *)
(* its safety mechanisms, scripts/fi_boot_campaign.py over the boot        *)
(* loader.  Both draw their faults first, run one simulation for each in a *)
(* pool of jobs, where one may overrun its time, put the outcomes in the   *)
(* order of the faults whatever the order they came in, and then classify  *)
(* and count them one by one.                                              *)
(*                                                                         *)
(* A simulation is what it prints: no verdict line at all, or the fields   *)
(* of the last one.  A field is abstracted to what classification asks of  *)
(* it: the status is none, some or unknown (x); the result is the expected *)
(* one, the code of a fault found by software, or wrong.  In the boot      *)
(* campaign a report and a clean exit are "yes", "no" or "x".              *)
(***************************************************************************)
EXTENDS Integers, Sequences, FiniteSets

CONSTANTS
    Lists,        \* the fault lists of the core campaign's arguments
    BootTargets,  \* the boot loader's table of <<target, bits>>
    During, After,\* injection points per bit inside and after the load
    Jobs,         \* simulations that run at once
    Verdict,      \* what a simulation of the core campaign may print
    BootVerdict,  \* the same for the boot loader
    MaxOverruns   \* how many simulations overrun

CampaignAssumption ==
    /\ Lists \subseteq Seq([t : Nat, b : Nat])
    /\ BootTargets \in Seq(Nat \X Nat)
    /\ During \in Nat /\ After \in Nat

NoLine == [line |-> FALSE]
Overrun == [line |-> FALSE, overrun |-> TRUE]
Pending == [line |-> FALSE, pending |-> TRUE]

VARIABLES
    campaign,     \* "core" or "boot"
    pc,
    faults, next, \* the list, and the first fault no job has taken
    running,      \* the fault each job simulates, 0 when idle
    outcomes,     \* by place in the list
    pos,          \* the outcome the count has come to
    classes, by_target, would, sdc_cases,
    overruns,
    said          \* history: what the simulation of each fault came to

vars == <<campaign, pc, faults, next, running, outcomes, pos, classes,
          by_target, would, sdc_cases, overruns, said>>

CoreClasses == {"detected", "detected-sw", "silent-ok", "latent", "SDC", "hang",
                "sim-timeout", "x-propagation", "no-result", "not-injected"}
BootClasses == {"safe", "detected", "fail-stop", "crashed", "SDC", "sim-timeout",
                "not-injected"}
Classes == CoreClasses \cup BootClasses
Targets == {f.t : f \in UNION {{l[i] : i \in DOMAIN l} : l \in Lists}}
           \cup {BootTargets[i][1] : i \in DOMAIN BootTargets}

N == Len(faults)

\* What a list of sweep specifications <<target, bits, repetitions>> draws:
\* every bit of every target, each repeated.  The cycles come from a seeded
\* generator and are left open.
SpecFaults(s) == [k \in 1..(s[2] * s[3]) |-> [t |-> s[1], b |-> (k - 1) \div s[3]]]
SweepFaults(specs) ==
    LET upto[i \in 0..Len(specs)] ==
            IF i = 0 THEN <<>> ELSE upto[i - 1] \o SpecFaults(specs[i])
    IN upto[Len(specs)]

\* The boot campaign's list: every bit of every register, at each of its points.
BootFaults ==
    SweepFaults([i \in 1..Len(BootTargets) |->
                     <<BootTargets[i][1], BootTargets[i][2], During + After>>])

----------------------------------------------------------------------------
(* Classification.  The order of the tests is the order of the code.       *)

CoreClass(o) ==
    IF o = Overrun THEN "sim-timeout"
    ELSE IF o = NoLine THEN "no-result"
    ELSE IF ~o.injected THEN "not-injected"
    ELSE IF o.status = "some" THEN "detected"
    ELSE IF o.status = "x" THEN "x-propagation"
    ELSE IF ~o.exited THEN "hang"
    ELSE CASE o.result = "software" -> "detected-sw"
           [] o.result = "golden" -> IF o.cfg THEN "silent-ok" ELSE "latent"
           [] OTHER -> "SDC"

\* A run that printed no verdict is counted with those that overran.
BootClass(o) ==
    IF o \in {Overrun, NoLine} THEN "sim-timeout"
    ELSE IF ~o.injected THEN "not-injected"
    ELSE IF o.reported = "yes" THEN "detected"
    ELSE IF ~o.done THEN "fail-stop"
    ELSE IF o.outside THEN "SDC"
    ELSE IF o.clean = "no" THEN "crashed"
    ELSE IF o.image THEN "safe" ELSE "SDC"

\* The boot campaign takes the status and the exit value for numbers, where it
\* comes to ask for them: an unknown one has no class.
Unreadable(o) ==
    /\ campaign = "boot" /\ o.line /\ o.injected
    /\ o.reported = "x" \/ (o.reported = "no" /\ o.done /\ ~o.outside /\ o.clean = "x")

ClassOf(o) == IF campaign = "core" THEN CoreClass(o) ELSE BootClass(o)

----------------------------------------------------------------------------

Init ==
    /\ campaign \in {"core", "boot"}
    /\ pc = "draw"
    /\ faults = <<>> /\ next = 1
    /\ running = [j \in Jobs |-> 0]
    /\ outcomes = <<>> /\ said = <<>>
    /\ pos = 1
    /\ classes = [c \in Classes |-> 0]
    /\ by_target = [t \in Targets |-> [c \in Classes |-> 0]]
    /\ would = [t \in Targets |-> 0]
    /\ sdc_cases = 0
    /\ overruns = 0

Draw(list) ==
    /\ pc = "draw"
    /\ faults' = list
    /\ outcomes' = [i \in 1..Len(list) |-> Pending]
    /\ said' = [i \in 1..Len(list) |-> Pending]
    /\ pc' = "pool"
    /\ UNCHANGED <<campaign, next, running, pos, classes, by_target, would, sdc_cases, overruns>>

DrawCore == campaign = "core" /\ \E l \in Lists : Draw(l)

\* The boot campaign first asks the same simulation for its fault-free
\* reference, and ends without one.
DrawBoot == campaign = "boot" /\ Draw(BootFaults)
NoReference ==
    /\ campaign = "boot" /\ pc = "draw" /\ pc' = "stopped"
    /\ UNCHANGED <<campaign, faults, next, running, outcomes, pos, classes,
                   by_target, would, sdc_cases, overruns, said>>

\* A job that is free takes the next fault of the list.
Take(j) ==
    /\ pc = "pool" /\ running[j] = 0 /\ next <= N
    /\ running' = [running EXCEPT ![j] = next]
    /\ next' = next + 1
    /\ UNCHANGED <<campaign, pc, faults, outcomes, pos, classes, by_target,
                   would, sdc_cases, overruns, said>>

\* mutant: the outcomes are kept in the order in which the runs end
DeliverAsTheyEnd(j, o) ==
    LET at == CHOOSE i \in 1..N : outcomes[i] = Pending /\ \A k \in 1..(i-1) : outcomes[k] # Pending
    IN outcomes' = [outcomes EXCEPT ![at] = o]

\* The outcome of a run has the place of its fault.
Deliver(j, o) == outcomes' = [outcomes EXCEPT ![running[j]] = o]

End(j, o) ==
    /\ pc = "pool" /\ running[j] # 0
    /\ Deliver(j, o)
    /\ said' = [said EXCEPT ![running[j]] = o]
    /\ running' = [running EXCEPT ![j] = 0]
    /\ UNCHANGED <<campaign, pc, faults, next, pos, classes, by_target, would, sdc_cases>>

Finish(j) ==
    \E o \in {NoLine} \cup (IF campaign = "core" THEN Verdict ELSE BootVerdict) :
        End(j, o) /\ UNCHANGED overruns

\* A run that overruns is reported, not raised.
Overruns(j) ==
    /\ overruns < MaxOverruns
    /\ End(j, Overrun)
    /\ overruns' = overruns + 1

Collected ==
    /\ pc = "pool" /\ next > N /\ \A j \in Jobs : running[j] = 0
    /\ pc' = "count"
    /\ UNCHANGED <<campaign, faults, next, running, outcomes, pos, classes,
                   by_target, would, sdc_cases, overruns, said>>

\* The table by target has neither the core's runs without a verdict nor its
\* runs without an injection: the loop goes on before it.
InTable(class) == campaign = "boot" \/ class \notin {"no-result", "not-injected"}

\* What a comparator of the register writes would have added: counted where
\* nothing reported the fault.
WouldAdd(class, o) ==
    /\ campaign = "core" /\ InTable(class) /\ class # "sim-timeout"
    /\ o.differs /\ class \notin {"detected", "detected-sw"}

CountNext ==
    /\ pc = "count" /\ pos <= N /\ ~Unreadable(outcomes[pos])
    /\ LET o == outcomes[pos]
           class == ClassOf(o)
           t == faults[pos].t
       IN /\ classes' = [classes EXCEPT ![class] = @ + 1]
          /\ by_target' = IF InTable(class) THEN [by_target EXCEPT ![t][class] = @ + 1]
                          ELSE by_target
          /\ would' = IF WouldAdd(class, o) THEN [would EXCEPT ![t] = @ + 1] ELSE would
          /\ sdc_cases' = sdc_cases + (IF class = "SDC" THEN 1 ELSE 0)
    /\ pos' = pos + 1
    /\ UNCHANGED <<campaign, pc, faults, next, running, outcomes, overruns, said>>

\* An outcome without a class ends the campaign with no report.
StopsAt ==
    /\ pc = "count" /\ pos <= N /\ Unreadable(outcomes[pos])
    /\ pc' = "stopped"
    /\ UNCHANGED <<campaign, faults, next, running, outcomes, pos, classes,
                   by_target, would, sdc_cases, overruns, said>>

\* The runs the rates are of, and the classes a rate is printed for.
Total == N - classes["not-injected"]
Rated == {c \in Classes : classes[c] > 0 /\ (campaign = "core" => c # "not-injected")}

\* The report; the boot campaign divides by the number of runs that were
\* injected for those that were not as well.
Report ==
    /\ pc = "count" /\ pos > N
    /\ pc' = IF Rated # {} /\ Total = 0 THEN "stopped" ELSE "reported"
    /\ UNCHANGED <<campaign, faults, next, running, outcomes, pos, classes,
                   by_target, would, sdc_cases, overruns, said>>

Next ==
    \/ DrawCore \/ DrawBoot \/ NoReference
    \/ \E j \in Jobs : Take(j) \/ Finish(j) \/ Overruns(j)
    \/ Collected \/ CountNext \/ StopsAt \/ Report

Spec == Init /\ [][Next]_vars

----------------------------------------------------------------------------

Runs(P(_)) == Cardinality({i \in 1..N : P(i)})

\* What is reported is what a campaign of one job at a time would report: every
\* class, and every row of the table, counts the simulations of its own faults
\* that came to it, whatever the number of jobs, the order in which they ended
\* and the runs that overran (scripts/fi_campaign.py:171-175, 193-197).
ReportIsSequential ==
    pc = "reported" =>
        /\ \A c \in Classes :
               /\ classes[c] = Runs(LAMBDA i : ClassOf(said[i]) = c)
               /\ InTable(c) => \A t \in Targets :
                      by_target[t][c] = Runs(LAMBDA i : faults[i].t = t /\ ClassOf(said[i]) = c)
        /\ sdc_cases = classes["SDC"]
        /\ \A t \in Targets : would[t] <= Runs(LAMBDA i :
               faults[i].t = t /\ ClassOf(said[i]) \notin {"detected", "detected-sw"})

=============================================================================
