------------------------------ MODULE IrqCtrl ------------------------------
(***************************************************************************)
(* The interrupt controller, cdriscv_32s_20_irq_ctrl.  The one-bit-per-    *)
(* source registers are sets of sources.  A step is an edge of clk with at *)
(* most one register write; the lines change at will.  The parity of its   *)
(* configuration is the cell of SafetyCtrl; the outputs and CLAIM, which   *)
(* only read these registers, are left out.                                *)
(***************************************************************************)
EXTENDS Naturals

CONSTANT NumSrc
IrqAssumption == NumSrc \in Nat \ {0}

Src == 0..(NumSrc - 1)

VARIABLES
    enable_q, mode_q,   \* mode_q: the sources that interrupt on a rising edge
    pending_q, msip_q,
    sync, src_sync_q,   \* the synchronisers <<first, second stage>>, and the
                        \*   lines one edge later
    owed                \* history: rises of lines in edge mode that have come
                        \*   through and that nobody has cleared since

cfgVars == <<enable_q, mode_q, msip_q>>
vars == <<cfgVars, pending_q, sync, src_sync_q, owed>>

-----------------------------------------------------------------------------

SrcSync == sync[2]
EdgeDetect == SrcSync \ src_sync_q
SetBits == (mode_q \cap EdgeDetect) \cup (SrcSync \ mode_q)

PendingClearWins(cleared) ==                      \* mutant: the edge lost
    ((pending_q \cap mode_q) \cup SetBits) \ cleared
PendingNext(cleared) == ((pending_q \ cleared) \cap mode_q) \cup SetBits

-----------------------------------------------------------------------------

Init ==
    /\ enable_q = {} /\ mode_q = {} /\ msip_q = FALSE
    /\ pending_q = {}
    /\ sync = <<{}, {}>> /\ src_sync_q = {}
    /\ owed = {}

Edge(cleared, mode) ==
    /\ \E src_i \in SUBSET Src : sync' = <<src_i, sync[1]>>
    /\ src_sync_q' = SrcSync
    /\ pending_q' = PendingNext(cleared)
    /\ owed' = ((owed \ cleared) \cup (EdgeDetect \cap mode_q)) \cap mode

Idle == Edge({}, mode_q) /\ UNCHANGED cfgVars
WritePending(cleared) == Edge(cleared, mode_q) /\ UNCHANGED cfgVars
WriteEnable(s) == enable_q' = s /\ Edge({}, mode_q) /\ UNCHANGED <<mode_q, msip_q>>
WriteMode(s) == mode_q' = s /\ Edge({}, s) /\ UNCHANGED <<enable_q, msip_q>>
WriteMsip(v) == msip_q' = v /\ Edge({}, mode_q) /\ UNCHANGED <<enable_q, mode_q>>

Next ==
    \/ Idle
    \/ \E s \in SUBSET Src : WritePending(s) \/ WriteEnable(s) \/ WriteMode(s)
    \/ \E v \in BOOLEAN : WriteMsip(v)

Spec == Init /\ [][Next]_vars

-----------------------------------------------------------------------------

\* A rise of a line in edge mode stays pending until it is cleared by a write
\* made after it came through or its source leaves edge mode: no clear that
\* races it, of its own bit or another, and no change of the mode of other
\* sources takes it away.
EdgeKept == owed \subseteq pending_q

=============================================================================
