------------------------------ MODULE MCTools ------------------------------
(***************************************************************************)
(* Eight programs of the repository that decide whether its hardware is    *)
(* right or build part of it.  They share no state; one of them runs,      *)
(* chosen at the start, and the others rest in one of their initial states.*)
(*   mutation  the five scripts, in any order, with one kill               *)
(*   campaign  two fault lists of the core and the boot loader's, two jobs,*)
(*             every verdict, one simulation that overruns                 *)
(*   secded    four geometries, the repository's among them, images of one *)
(*             word and two of padding, two upsets                         *)
(*   padring   ten ports and nine pads on four sides, one declared with    *)
(*             the parameter, and two edits, a new port's among them       *)
(*   cosim     two seeds, bodies of two instructions, one or two loops     *)
(*   zcmp      lists of up to four registers, every defect of the table    *)
(*             the checker looks for                                       *)
(*   decomp    three rows of the instruction table                         *)
(*   fmeda     four elements, netlists of up to seven lines                *)
(* The constants of the programs are those of this module, their values in *)
(* the run at its end.                                                     *)
(***************************************************************************)
EXTENDS MutationRun, FiniteSets, TLC

CONSTANTS
    Lists, BootTargets, During, After, Jobs, Verdict, BootVerdict, MaxOverruns,
                                                                    \* campaign
    Ports, PortEdits, ParamWidth, FirstPinout, Spare, Tied, Open, QioBits, NSig, NPwr,
    PadW, CornerW, EdgeSpacing, Width, MaxEdits,                    \* padring
    Geometry, Pattern, MaxWords, MaxPad, MaxHits,                   \* secded
    Seeds, Count, Loops, Ahead, Slack, MaxRetired,                  \* cosim
    MaxList, MaxSpimm, MaxMoved, Defects,                           \* zcmp
    MaxRows,                                                        \* decomp
    Names, Elements, TotalFf, MaxLines                              \* fmeda

VARIABLES
    running,     \* the program that runs
    campaign, fi_pc, faults, next, jobs, outcomes, pos, classes, by_target,
    would, sdc_cases, overruns, said,
    ecc_pc, geometry, cols, remaining, row_w, text, image, meant, hits,
    ports, expected, pinout, listed, pads_pc, chip, config, doc, edits,
    co_pc, seed, loops, body, pending, target, at, counter, base, arch, spike,
    rtl_log, co_verdict, passed, failed, good,
    zcmp_program, defect, phase, case, regs, memm, checked, used, zcmp_bad,
    zcmp_verdict,
    rows_left, dec_verdict, st, dec_bad, wrong, open,
    fmeda_pc, recounts, lines, in_ff, counts, total, unmatched, ffs, stale

campaignState == <<campaign, fi_pc, faults, next, jobs, outcomes, pos, classes,
                   by_target, would, sdc_cases, overruns, said>>
eccState == <<ecc_pc, geometry, cols, remaining, row_w, text, image, meant, hits>>
padState == <<ports, expected, pinout, listed, pads_pc, chip, config, doc, edits>>
cosimState == <<co_pc, seed, loops, body, pending, target, at, counter, base, arch,
                spike, rtl_log, co_verdict, passed, failed, good>>
zcmpState == <<zcmp_program, defect, phase, case, regs, memm, checked, used,
               zcmp_bad, zcmp_verdict>>
decState == <<rows_left, dec_verdict, st, dec_bad, wrong, open>>
fmedaState == <<fmeda_pc, recounts, lines, in_ff, counts, total, unmatched, ffs, stale>>

-----------------------------------------------------------------------------
Campaign == INSTANCE FaultCampaign WITH pc <- fi_pc, running <- jobs
Pads == INSTANCE PadRing WITH rtl <- ports, pc <- pads_pc
Ecc == INSTANCE SecDed WITH pc <- ecc_pc
Random == INSTANCE Cosim WITH pc <- co_pc, rtl <- rtl_log, verdict <- co_verdict
Zcmp == INSTANCE ZcmpCheck WITH
    program <- zcmp_program, bad <- zcmp_bad, verdict <- zcmp_verdict
Decomp == INSTANCE DecompressCheck WITH verdict <- dec_verdict, bad <- dec_bad
Metrics == INSTANCE Fmeda WITH pc <- fmeda_pc

ASSUME ToolConstants ==
    /\ Ecc!SecDedAssumption /\ Campaign!CampaignAssumption /\ Random!CosimAssumption
    /\ Pads!PadRingAssumption /\ Metrics!FmedaAssumption /\ Zcmp!ZcmpAssumption

-----------------------------------------------------------------------------

McInit ==
    /\ running \in {"mutation", "campaign", "secded", "padring", "cosim", "zcmp",
                    "decomp", "fmeda"}
    /\ Init
    /\ script = MutateDbg
    /\ Campaign!Init
    /\ running # "campaign" => campaign = "core"
    /\ Ecc!Init
    /\ Pads!Init
    /\ Random!Init
    /\ running # "cosim" => loops = 1
    /\ Zcmp!Init
    /\ running # "zcmp" =>
           defect = CHOOSE d \in [kind : {"none"}, enc : Zcmp!Encodings, step : {1}] : TRUE
    /\ Decomp!Init
    /\ Metrics!Init
    /\ running # "fmeda" => recounts

Runs(program) ==
    /\ running = program /\ UNCHANGED running
    /\ program = "mutation" \/ UNCHANGED vars
    /\ program = "campaign" \/ UNCHANGED campaignState
    /\ program = "secded" \/ UNCHANGED eccState
    /\ program = "padring" \/ UNCHANGED padState
    /\ program = "cosim" \/ UNCHANGED cosimState
    /\ program = "zcmp" \/ UNCHANGED zcmpState
    /\ program = "decomp" \/ UNCHANGED decState
    /\ program = "fmeda" \/ UNCHANGED fmedaState

McNext ==
    \/ Runs("mutation") /\ Next
    \/ Runs("campaign") /\ Campaign!Next
    \/ Runs("secded") /\ Ecc!Next
    \/ Runs("padring") /\ Pads!Next
    \/ Runs("cosim") /\ Random!Next
    \/ Runs("zcmp") /\ Zcmp!Next
    \/ Runs("decomp") /\ Decomp!Next
    \/ Runs("fmeda") /\ Metrics!Next

\* A hart that can retire does.
McSpec ==
    /\ McInit
    /\ [][McNext]_<<running, vars, campaignState, eccState, padState, cosimState,
                    zcmpState, decState, fmedaState>>
    /\ WF_cosimState(Runs("cosim") /\ co_pc = "spike" /\ Random!Executes)

-----------------------------------------------------------------------------
(* The properties, each about the program that runs; OneMutantAtATime and   *)
(* AllKilledIsTrue are those of MutationRun.                                *)

\* The report of a campaign is that of a campaign with one job.
ReportIsSequential == Campaign!ReportIsSequential

\* A generated decoder corrects and reports what it must.
DecodesRight == Ecc!DecodesRight

\* A chip top that is written pads every bit of every port once that was read
\* right, and no other port as it is, and the three files of a run agree.
ChipIsWired == Pads!ChipIsWired /\ Pads!DriftIsWritten /\ Pads!FilesAgree

\* A regression counts as matching the programs the core ran right.
RegressExact == Random!RegressExact

\* A generated program reaches its end label.
ProgramEnds == running = "cosim" => Random!ProgramEnds

\* The check of the decompressor fails exactly if it did a row wrong; that of
\* the push and pop table exactly if the table is wrong, but for an exchange of
\* steps that are not both accesses to memory; and of the netlists they are
\* given, the metrics accept exactly those the table counts, as long as no
\* cell's output is taken for another's.
ChecksAreExact == Decomp!WrongRowsFail /\ Zcmp!TableVerdict /\ Metrics!RecountExact

\* The decoder in the repository is the one that the generator writes.
ShippedIsGenerated == Ecc!ShippedIsGenerated

-----------------------------------------------------------------------------
(* The values of the run. *)

(* What the simulations of a campaign may print. *)

Says(injected, status, exited, result, cfg, differs) ==
    [line |-> TRUE, injected |-> injected, status |-> status, exited |-> exited,
     result |-> result, cfg |-> cfg, differs |-> differs]
McVerdict ==
    {Says(FALSE, "none", TRUE, "golden", TRUE, FALSE),
     Says(TRUE, "some", TRUE, "wrong", TRUE, TRUE),
     Says(TRUE, "x", TRUE, "golden", TRUE, TRUE),
     Says(TRUE, "none", FALSE, "wrong", TRUE, TRUE),
     Says(TRUE, "none", TRUE, "software", FALSE, TRUE),
     Says(TRUE, "none", TRUE, "golden", TRUE, FALSE),
     Says(TRUE, "none", TRUE, "golden", FALSE, TRUE),
     Says(TRUE, "none", TRUE, "wrong", TRUE, TRUE)}

BootSays(injected, reported, done, outside, img, clean) ==
    [line |-> TRUE, injected |-> injected, reported |-> reported, done |-> done,
     outside |-> outside, image |-> img, clean |-> clean]
McBootVerdict ==
    {BootSays(FALSE, "no", TRUE, FALSE, TRUE, "yes"),
     BootSays(TRUE, "yes", TRUE, FALSE, TRUE, "yes"),
     BootSays(TRUE, "x", TRUE, FALSE, TRUE, "yes"),
     BootSays(TRUE, "no", FALSE, FALSE, FALSE, "no"),
     BootSays(TRUE, "no", TRUE, TRUE, TRUE, "yes"),
     BootSays(TRUE, "no", TRUE, FALSE, TRUE, "yes"),
     BootSays(TRUE, "no", TRUE, FALSE, TRUE, "no"),
     BootSays(TRUE, "no", TRUE, FALSE, TRUE, "x"),
     BootSays(TRUE, "no", TRUE, FALSE, FALSE, "yes")}

\* Three faults by sweep: two bits of one target and one of another; and two
\* picked singly, the second target first.
Fault(t, b) == [t |-> t, b |-> b]
McLists == {<<Fault(0, 0), Fault(0, 1), Fault(1, 0)>>, <<Fault(1, 0), Fault(0, 3)>>}

(* The pads: a port of each direction and width, and a pinout that fits. *)

Declared(line, direction, width) == [is |-> <<direction, width>>, line |-> line]
McPorts ==
    ("clk_i" :> Declared("plain", "input", 1))
    @@ ("fault_ext_i" :> Declared("param", "input", 2))
    @@ [p \in {"boot_addr_i", "qspi_io_i"} |-> Declared("plain", "input", 2)]
    @@ [p \in {"tdo_o", "tdo_oe_o", "err_pin_o", "ext_psel_o"} |->
           Declared("plain", "output", 1)]
    @@ [p \in {"qspi_io_o", "qspi_io_oe_o"} |-> Declared("plain", "output", 2)]
McPortEdits ==
    ("fault_ext_i" :> {Declared("param", "input", 3), Declared("param", "input", 1),
                       Declared("plain", "input", 3), Declared("other", "input", 2)})
    @@ ("err_pin_o" :> {Declared("plain", "input", 1), Declared("missed", "output", 1)})
    @@ ("irq_i" :> {Declared("plain", "input", 1), Declared("missed", "input", 1)})

Pad(kind, port, bit, cell) == [kind |-> kind, port |-> port, bit |-> bit, cell |-> cell]
McPinout ==
    [south |-> <<Pad("pwr", "vss_s", -1, "vss"), Pad("sig", "tdo_o", -1, "tri"),
                 Pad("qio", "qspi_io", 0, "inout"), Pad("qio", "qspi_io", 1, "inout")>>,
     east |-> <<Pad("sig", "fault_ext_i", 0, "in"), Pad("sig", "fault_ext_i", 1, "in")>>,
     north |-> <<Pad("pwr", "vdd_n", -1, "vdd"), Pad("sig", "clk_i", -1, "in")>>,
     west |-> <<Pad("sig", "err_pin_o", -1, "out")>>]
McSpare ==
    {Pad("sig", "clk_i", -1, "in"), Pad("sig", "fault_ext_i", 1, "in"),
     Pad("sig", "fault_ext_i", 2, "in"), Pad("qio", "qspi_io", 1, "inout"),
     Pad("pwr", "vss_s", -1, "vss"), Pad("sig", "qspi_io_o", 0, "out"),
     Pad("sig", "boot_addr_i", 0, "in"), Pad("sig", "irq_i", -1, "in")}
McWidth == [south |-> 960, north |-> 960, east |-> 964, west |-> 960]

McBootTargets == <<<<0, 1>>>>

\* The repository's code, two that use every column there is, and one whose
\* arguments leave too few columns.
McGeometry ==
    {[par |-> 7, data |-> 32], [par |-> 5, data |-> 11], [par |-> 3, data |-> 2],
     [par |-> 4, data |-> 4]}
McPattern == {{}, 0..31, {0, 3, 10, 31}}

McDefects ==
    {"none", "imm", "rd", "rs1", "rs2", "we", "azero", "ret", "drop", "swap",
     "missing", "extra"}

\* A net whose name one rule, three, two, one or no rule matches.
McNames ==
    ("_1_" :> {1}) @@ ("pmp" :> {2, 3, 4}) @@ ("core" :> {3, 4}) @@ ("glue" :> {4})
    @@ ("new" :> {})
McElements == <<1, 1, 0, 1>>
=============================================================================
