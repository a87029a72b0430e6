---------------------------- MODULE MutationRun ----------------------------
(***************************************************************************)
(* The mutation runs of the benches (scripts/mutate_*.py).  A script reads *)
(* the RTL files it may change, runs its benches once on them as they are, *)
(* and then, mutant by mutant, writes one changed file, runs the benches   *)
(* until one fails, and writes the original back.  Whatever ends the       *)
(* script, a bench that overruns its time included, passes through a       *)
(* `finally` that writes every original back; a kill does not.             *)
(*                                                                         *)
(* The contents of a file are abstracted to the set of mutants it carries: *)
(* a file of the repository carries none.  A mutant of a script is its     *)
(* place in the table of the script.                                       *)
(***************************************************************************)
EXTENDS Integers, Sequences

CONSTANTS
    Files,     \* the RTL files
    Scripts,   \* the scripts, each its files, its targets and its mutants
    MaxKills   \* how often a script is killed

\* A mutant names its file and, where only one target can see it, that target.
MutationAssumption ==
    /\ MaxKills \in Nat
    /\ \A s \in Scripts :
           /\ s.files \subseteq Files /\ s.files # {}
           /\ s.targets \in Seq(STRING) /\ Len(s.targets) > 0
           /\ DOMAIN s.mutants = 1..Len(s.mutants) /\ Len(s.mutants) \in Nat
           /\ \A m \in 1..Len(s.mutants) :
                  /\ s.mutants[m].file \in s.files
                  /\ s.mutants[m].own \in Seq(STRING)

ASSUME MutationAssumption

-----------------------------------------------------------------------------
(* The five scripts, for Files <- AllFiles and Scripts <- AllScripts: the   *)
(* files each reads at its start, the make targets it runs, cheapest first, *)
(* and its table of mutants, each with the file it changes and the one      *)
(* target that can see it, where it names one.  What the mutants change in  *)
(* the file is the benches' affair.                                         *)

In(file, n) == [m \in 1..n |-> [file |-> file, own |-> <<>>]]
SeenBy(file, target) == <<[file |-> file, own |-> <<target>>]>>

MutateDbg ==
    [files |-> {"dbg_bridge", "dbg_win"}, targets |-> <<"block-dbg">>,
     mutants |-> In("dbg_win", 5) \o In("dbg_bridge", 5)]

MutateE2eLink ==
    [files |-> {"e2e_link", "e2e"}, targets |-> <<"block-e2e-link">>,
     mutants |-> In("e2e_link", 8) \o In("e2e", 1) \o In("e2e_link", 1)]

MutatePmpFetch ==
    [files |-> {"core", "if_stage"}, targets |-> <<"pmp">>,
     mutants |-> In("core", 3) \o In("if_stage", 2)]

MutateQspi ==
    [files |-> {"safety_ctrl", "qspi_boot"},
     targets |-> <<"block-qspi", "bootsim", "bootsim-fault", "regwalk">>,
     mutants |-> SeenBy("safety_ctrl", "bootsim-fault")
                 \o SeenBy("safety_ctrl", "regwalk") \o In("qspi_boot", 8)]

MutateZcmp ==
    [files |-> {"core", "zcmp"}, targets |-> <<"block-zcmp", "zcmp", "cosim">>,
     mutants |-> In("zcmp", 2) \o In("core", 2) \o In("zcmp", 4) \o In("core", 1)]

AllScripts == {MutateDbg, MutateE2eLink, MutatePmpFetch, MutateQspi, MutateZcmp}
AllFiles == UNION {s.files : s \in AllScripts}

-----------------------------------------------------------------------------

VARIABLES
    tree,      \* the mutants each file of the working tree carries
    orig,      \* the contents read at the start of the script
    pc, script, mutant,
    tried,     \* how many targets have passed on what the tree now holds
    killed, survived,
    exit,      \* the exit status, -1 while the script runs or after a kill
    detected,  \* history: mutants for which a target failed on a tree that
               \* carried that mutant and nothing else
    kills

vars == <<tree, orig, pc, script, mutant, tried, killed, survived, exit,
          detected, kills>>

Mutants == 1..Len(script.mutants)
File == script.mutants[mutant].file

Pristine == [f \in Files |-> {}]

\* The target that can see this mutant first, then the others in their order.
MutantTargets ==
    LET own == script.mutants[mutant].own
    IN own \o SelectSeq(script.targets, LAMBDA t : own = <<>> \/ t # own[1])

Init ==
    /\ tree = Pristine /\ orig = Pristine
    /\ pc = "idle"
    /\ script \in Scripts
    /\ mutant = 1 /\ tried = 0
    /\ killed = 0 /\ survived = 0
    /\ exit = -1 /\ detected = 0 /\ kills = 0

\* Some script is started: it takes what it finds for the originals.
Start ==
    /\ pc = "idle"
    /\ script' \in Scripts
    /\ orig' = tree
    /\ pc' = "baseline"
    /\ mutant' = 1 /\ tried' = 0
    /\ killed' = 0 /\ survived' = 0
    /\ exit' = -1 /\ detected' = 0
    /\ UNCHANGED <<tree, kills>>

\* A target of the baseline passes; after the last one the mutants begin.
BaselinePasses ==
    /\ pc = "baseline"
    /\ tried' = IF tried + 1 < Len(script.targets) THEN tried + 1 ELSE 0
    /\ pc' = IF tried + 1 < Len(script.targets) THEN pc ELSE "mutants"
    /\ UNCHANGED <<tree, orig, script, mutant, killed, survived, exit, detected, kills>>

\* It fails: nothing below would mean anything.
BaselineFails ==
    /\ pc = "baseline"
    /\ exit' = 2 /\ pc' = "finally"
    /\ UNCHANGED <<tree, orig, script, mutant, tried, killed, survived, detected, kills>>

\* A substitution whose anchor does not occur exactly once skips the mutant
\* before anything is written, and the mutant counts as a survivor.
Skip ==
    /\ pc = "mutants" /\ mutant \in Mutants
    /\ survived' = survived + 1
    /\ mutant' = mutant + 1
    /\ UNCHANGED <<tree, orig, pc, script, tried, killed, exit, detected, kills>>

\* The substitutions are made on the original and the file is written.
Mutate ==
    /\ pc = "mutants" /\ mutant \in Mutants
    /\ tree' = [tree EXCEPT ![File] = orig[File] \cup {mutant}]
    /\ pc' = "bench" /\ tried' = 0
    /\ UNCHANGED <<orig, script, mutant, killed, survived, exit, detected, kills>>

\* A target passes on the mutant: the next one is tried.
TargetPasses ==
    /\ pc = "bench" /\ tried < Len(MutantTargets)
    /\ tried' = tried + 1
    /\ UNCHANGED <<tree, orig, pc, script, mutant, killed, survived, exit, detected, kills>>

\* The first target that fails kills it, and the original is back at once.
TargetFails ==
    /\ pc = "bench" /\ tried < Len(MutantTargets)
    /\ killed' = killed + 1
    /\ detected' = IF tree = [Pristine EXCEPT ![File] = {mutant}]
                   THEN detected + 1 ELSE detected
    /\ tree' = [tree EXCEPT ![File] = orig[File]]
    /\ mutant' = mutant + 1 /\ pc' = "mutants" /\ tried' = 0
    /\ UNCHANGED <<orig, script, survived, exit, kills>>

\* mutant: a mutant that survives is not restored
SurvivesUnrestored ==
    /\ pc = "bench" /\ tried = Len(MutantTargets)
    /\ survived' = survived + 1
    /\ mutant' = mutant + 1 /\ pc' = "mutants" /\ tried' = 0
    /\ UNCHANGED <<tree, orig, script, killed, exit, detected, kills>>

\* No target fails: it survives, and the original is back as well.
Survives ==
    /\ pc = "bench" /\ tried = Len(MutantTargets)
    /\ survived' = survived + 1
    /\ tree' = [tree EXCEPT ![File] = orig[File]]
    /\ mutant' = mutant + 1 /\ pc' = "mutants" /\ tried' = 0
    /\ UNCHANGED <<orig, script, killed, exit, detected, kills>>

\* A target overruns its time: the exception leaves the loop.
Overrun ==
    /\ pc \in {"baseline", "bench"} /\ (pc = "bench" => tried < Len(MutantTargets))
    /\ exit' = 1 /\ pc' = "finally"
    /\ UNCHANGED <<tree, orig, script, mutant, tried, killed, survived, detected, kills>>

\* mutant: a skipped mutant counts for nothing in the exit status
ScoredByKills ==
    /\ pc = "mutants" /\ mutant \notin Mutants
    /\ exit' = IF killed > 0 THEN 0 ELSE 1
    /\ pc' = "finally"
    /\ UNCHANGED <<tree, orig, script, mutant, tried, killed, survived, detected, kills>>

\* After the last mutant: the score, and a status that is zero without survivors.
Scored ==
    /\ pc = "mutants" /\ mutant \notin Mutants
    /\ exit' = IF survived > 0 THEN 1 ELSE 0
    /\ pc' = "finally"
    /\ UNCHANGED <<tree, orig, script, mutant, tried, killed, survived, detected, kills>>

\* Every file of the script is written back.
Finally ==
    /\ pc = "finally"
    /\ tree' = [f \in Files |-> IF f \in script.files THEN orig[f] ELSE tree[f]]
    /\ pc' = "idle"
    /\ UNCHANGED <<orig, script, mutant, tried, killed, survived, exit, detected, kills>>

\* The process or the machine is gone: no `finally`, no exit status.
Kill ==
    /\ pc # "idle" /\ kills < MaxKills
    /\ pc' = "idle" /\ exit' = -1 /\ kills' = kills + 1
    /\ UNCHANGED <<tree, orig, script, mutant, tried, killed, survived, detected>>

Next ==
    \/ Start \/ BaselinePasses \/ BaselineFails
    \/ Skip \/ Mutate \/ TargetPasses \/ TargetFails \/ Survives \/ Overrun
    \/ Scored \/ Finally \/ Kill

Spec == Init /\ [][Next]_vars

----------------------------------------------------------------------------

\* A bench never judges anything but one mutant: while the targets run, the
\* tree is the one the script found with the change of this mutant alone, and
\* between two mutants it is as the script found it (scripts/mutate_dbg.py:89-94).
\* Unless a script was killed, a failing baseline, a bench that overruns and a
\* skipped mutant all leave the RTL as it was: "a mutation run that dies half
\* way must not leave the RTL mutated" (scripts/mutate_dbg.py:8-9).
OneMutantAtATime ==
    /\ pc = "bench" => tree = [orig EXCEPT ![File] = @ \cup {mutant}]
    /\ pc \in {"baseline", "mutants"} => tree = orig
    /\ pc = "idle" /\ kills = 0 => tree = Pristine

\* A run that says "all killed" has seen, for every mutant of its table, a
\* bench fail on the repository's RTL with that one change, whatever was
\* skipped, survived or overran on the way.  Only a kill before it, whose
\* leftovers it took for originals, can make it wrong.
AllKilledIsTrue ==
    exit = 0 /\ kills = 0 => detected = Len(script.mutants)
=============================================================================
