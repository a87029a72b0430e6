------------------------------ MODULE IfAlign ------------------------------
(***************************************************************************)
(* The instruction realigner, cdriscv_32s_20_if_align, below the word      *)
(* stream the prefetcher provides (FetchStream, which IfStage implements): *)
(* it cuts the words into 16- and 32-bit instructions, holding the low     *)
(* half of a 32-bit instruction that straddles two words.                  *)
(*                                                                         *)
(* One step is one clock edge.  A halfword is known by its address, or by  *)
(* its place in a garbage word; `long' says which ones have both low bits  *)
(* set and so begin a 32-bit instruction.                                  *)
(***************************************************************************)
EXTENDS Naturals

CONSTANTS
    Pc,         \* word addresses
    NextPc,     \* the word address after each one
    BootPc,     \* boot_addr_i, where the prefetcher starts
    Garbage     \* data words that arrive with an error

AlignAssumption ==
    /\ NextPc \in [Pc -> Pc]
    /\ BootPc \in Pc
    /\ Pc \cap Garbage = {}

VARIABLES
    half_q,     \* the next instruction begins at this half of the word
    strad_q,    \* a low half is held
    strad,      \* strad_data_q, strad_pc_q and strad_err_q
    pos, offer, \* the word stream coming in
    long,       \* which halfwords begin a 32-bit instruction
    ipc         \* history: address of the next instruction in program order

alignVars == <<half_q, strad_q, strad>>
vars == <<alignVars, pos, offer, long, ipc>>

Words == INSTANCE FetchStream

Half == {0, 1}
Halfwords == (Pc \cup Garbage) \X Half
NoStraddle == [hw |-> <<BootPc, 0>>, pc |-> <<BootPc, 0>>, err |-> FALSE]

-----------------------------------------------------------------------------
\* The halfword under consideration in word w, and the output selection.

Hw(w) == <<w.word, half_q>>
HwPc(w) == <<w.pc, half_q>>
Uncompressed(w) == Hw(w) \in long

EmitStraddle(w) == strad_q
EmitCompressed(w) == ~strad_q /\ ~Uncompressed(w)
EmitFull(w) == ~strad_q /\ Uncompressed(w) /\ half_q = 0
StartStraddle(w) == ~strad_q /\ Uncompressed(w) /\ half_q = 1

OtherHalf == 1 - half_q

Error(w) == w.err \/ (EmitStraddle(w) /\ strad.err)
\* instr_raw_o, instr_pc_o and instr_err_o
Output(w) ==
    [parcels |-> IF EmitStraddle(w) THEN <<strad.hw, <<w.word, 0>> >>
                 ELSE IF EmitCompressed(w) THEN <<Hw(w)>>
                 ELSE << <<w.word, 0>>, <<w.word, 1>> >>,
     pc |-> IF EmitStraddle(w) THEN strad.pc ELSE HwPc(w),
     err |-> Error(w)]

\* The instruction on the outputs, if instr_valid_o.
Outputs == { Output(w) : w \in {x \in offer : ~StartStraddle(x)} }

-----------------------------------------------------------------------------

After(h) == IF h[2] = 0 THEN <<h[1], 1>> ELSE <<NextPc[h[1]], 0>>

Init ==
    /\ half_q = 0
    /\ strad_q = FALSE
    /\ strad = NoStraddle
    /\ pos = BootPc
    /\ offer = {}
    /\ long \in SUBSET Halfwords
    /\ ipc = <<BootPc, 0>>

\* A word arrives from the prefetcher.
WordArrives ==
    /\ Words!Offer
    /\ UNCHANGED <<alignVars, long, ipc>>

\* A 32-bit instruction begins in the high half: hold it, take the word.
\* Nothing is offered to the execute stage in this cycle.
HoldLowHalf ==
    /\ \E w \in offer :
        /\ StartStraddle(w)
        /\ strad' = [hw |-> Hw(w), pc |-> HwPc(w), err |-> w.err]
    /\ strad_q' = TRUE
    /\ half_q' = 0
    /\ Words!Take
    /\ UNCHANGED <<long, ipc>>

\* The execute stage retires the instruction on offer, one without error.
AcceptStraddle ==
    /\ \E w \in offer : EmitStraddle(w) /\ ~Error(w)
    /\ strad_q' = FALSE
    /\ half_q' = 1
    /\ ipc' = After(After(ipc))
    /\ UNCHANGED <<strad, pos, offer, long>>

AcceptCompressed ==
    /\ \E w \in offer :
        /\ EmitCompressed(w)
        /\ ~Error(w)
        /\ half_q' = OtherHalf
        /\ IF half_q = 1                                  \* word_ready_o
           THEN Words!Take
           ELSE UNCHANGED <<pos, offer>>
    /\ ipc' = After(ipc)
    /\ UNCHANGED <<strad_q, strad, long>>

AcceptFull ==
    /\ \E w \in offer :
        /\ EmitFull(w)
        /\ ~Error(w)
    /\ Words!Take
    /\ ipc' = After(After(ipc))
    /\ UNCHANGED <<alignVars, long>>

RedirectKeepsHeld(pc, h) ==                       \* mutant: half not dropped
    /\ half_q' = h
    /\ Words!Redirect
    /\ pos' = pc
    /\ ipc' = <<pc, h>>
    /\ UNCHANGED <<strad_q, strad, long>>

\* A redirect to halfword h of word pc; the prefetcher sees it too.
Redirect(pc, h) ==
    /\ half_q' = h
    /\ strad_q' = FALSE
    /\ strad' = NoStraddle
    /\ Words!Redirect
    /\ pos' = pc
    /\ ipc' = <<pc, h>>
    /\ UNCHANGED <<long>>

Redirected == \E pc \in Pc, h \in Half : Redirect(pc, h)

Next ==
    \/ WordArrives
    \/ HoldLowHalf
    \/ AcceptStraddle \/ AcceptCompressed \/ AcceptFull
    \/ Redirected

Spec == Init /\ [][Next]_vars

\* The prefetcher keeps delivering, and holding a low half waits for nobody.
FairSpec == Spec /\ WF_vars(WordArrives) /\ WF_vars(HoldLowHalf)

-----------------------------------------------------------------------------

\* The realigner over the word stream is the instruction stream.
offeredInstr == { [pc |-> i.pc, err |-> i.err,
                   parcels |-> IF i.err THEN << >> ELSE i.parcels] : i \in Outputs }
Program == INSTANCE InstrStream WITH instr <- offeredInstr
InstrSpec == Program!Spec

\* Unless redirects keep coming, instructions keep coming: a held half is
\* always completed.
KeepsIssuing == []<>(Outputs # {}) \/ []<><<Redirected>>_vars

=============================================================================
