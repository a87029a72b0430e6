----------------------------- MODULE DbgBridge -----------------------------
(***************************************************************************)
(* The JTAG debug clock crossing, cdriscv_32s_20_dbg_bridge: a toggle      *)
(* handshake between the TAP's clock and the system clock, built from two  *)
(* pulse synchronisers, and the single-cycle access to the observation     *)
(* window.                                                                 *)
(*                                                                         *)
(* A step is an edge of tck, an edge of clk or both at once, in any order  *)
(* and ratio.  A request stands for address, write data and direction; the *)
(* data read are the request they were read for and a sample of the window *)
(* at that moment, or {} for the reset value.                              *)
(***************************************************************************)
EXTENDS Sync

CONSTANTS
    Stages,     \* length of the synchroniser chains
    Request,
    ZeroRequest,\* the reset value of the request registers
    Sample,
    Resets      \* the resets that may strike after power-up: "tck", "clk"

BridgeAssumption ==
    /\ Stages \in Nat \ {0, 1}
    /\ ZeroRequest \in Request
    /\ Resets \subseteq {"tck", "clk"}

VARIABLES
    trst, rst,                          \* the two resets are asserted
    busy_q, req_q, req_toggle,          \* tck: addr_q, wdata_q, we_q, toggle
    ack_sync, ack_last, dbg_rdata_o,    \* tck: acknowledge, data returned
    req_sync, req_last,                 \* clk: request synchroniser
    rdata_q, ack_pulse, ack_toggle,     \* clk: data read, acknowledge
    performed,                          \* history: accesses since the accept
    clean                               \* history: no reset of one side alone
                                        \* since both were in reset together

tckVars == <<busy_q, req_q, req_toggle, ack_sync, ack_last, dbg_rdata_o>>
clkVars == <<req_sync, req_last, rdata_q, ack_pulse, ack_toggle>>
resetVars == <<trst, rst, clean>>
vars == <<tckVars, clkVars, resetVars, performed>>

AccLevel == Output(Stages, req_sync)              \* mutant: level for edge
AckTck == Toggled(Stages, ack_sync, ack_last)
AccStrobe == Toggled(Stages, req_sync, req_last)

-----------------------------------------------------------------------------

TckCleared ==
    /\ busy_q' = FALSE
    /\ req_q' = ZeroRequest
    /\ req_toggle' = FALSE
    /\ ack_sync' = Cleared(Stages)
    /\ ack_last' = FALSE
    /\ dbg_rdata_o' = {}

ClkCleared ==
    /\ req_sync' = Cleared(Stages)
    /\ req_last' = FALSE
    /\ rdata_q' = {}
    /\ ack_pulse' = FALSE
    /\ ack_toggle' = FALSE

Init ==
    /\ trst = TRUE
    /\ rst = TRUE
    /\ busy_q = FALSE
    /\ req_q = ZeroRequest
    /\ req_toggle = FALSE
    /\ ack_sync = Cleared(Stages)
    /\ ack_last = FALSE
    /\ dbg_rdata_o = {}
    /\ req_sync = Cleared(Stages)
    /\ req_last = FALSE
    /\ rdata_q = {}
    /\ ack_pulse = FALSE
    /\ ack_toggle = FALSE
    /\ performed = 0
    /\ clean = TRUE

\* An edge of tck; asked is the set of the request the TAP makes, or {}.
\* A request while busy is dropped.
ReqAcceptAny(asked) == asked # {}                 \* mutant: not dropped
ReqAccept(asked) == asked # {} /\ ~busy_q

TckEdge(asked) ==
    /\ ~trst
    /\ IF ReqAccept(asked)
       THEN /\ req_q' \in asked
            /\ busy_q' = TRUE
            /\ req_toggle' = ~req_toggle
       ELSE /\ busy_q' = (busy_q /\ ~AckTck)
            /\ UNCHANGED <<req_q, req_toggle>>
    /\ ack_sync' = ShiftIn(ack_sync, ack_toggle)
    /\ ack_last' = Output(Stages, ack_sync)
    /\ dbg_rdata_o' = IF AckTck THEN rdata_q ELSE dbg_rdata_o

\* An edge of clk: the strobe reads the window at the request registers of
\* the other domain, the acknowledge follows one cycle later.
AckToggleNext == IF ack_pulse THEN ~ack_toggle ELSE ack_toggle

ClkEdge(sample) ==
    /\ ~rst
    /\ req_sync' = ShiftIn(req_sync, req_toggle)
    /\ req_last' = Output(Stages, req_sync)
    /\ rdata_q' = IF AccStrobe THEN { <<req_q, sample>> } ELSE rdata_q
    /\ ack_pulse' = AccStrobe
    /\ ack_toggle' = AckToggleNext

\* The two domains sample each other's registers as they were before a
\* common edge.  `performed' counts the strobes since the last accept.
Count(asked, clk) ==
    performed' = IF ReqAccept(asked) THEN 0
                 ELSE IF clk /\ AccStrobe /\ performed < 2
                      THEN performed + 1 ELSE performed

TapAsks == { {} } \cup { {r} : r \in Request }

Tck ==
    \E asked \in TapAsks :
        /\ TckEdge(asked)
        /\ Count(asked, FALSE)
        /\ UNCHANGED <<clkVars, resetVars>>
Clk ==
    \E s \in Sample :
        /\ ClkEdge(s)
        /\ Count({}, TRUE)
        /\ UNCHANGED <<tckVars, resetVars>>
Both ==
    \E asked \in TapAsks, s \in Sample :
        /\ TckEdge(asked)
        /\ ClkEdge(s)
        /\ Count(asked, TRUE)
        /\ UNCHANGED resetVars

\* The resets act at once and hold their domain until they are released.
TckReset ==
    /\ "tck" \in Resets /\ ~trst
    /\ trst' = TRUE
    /\ TckCleared
    /\ clean' = rst
    /\ UNCHANGED <<clkVars, rst, performed>>
ClkReset ==
    /\ "clk" \in Resets /\ ~rst
    /\ rst' = TRUE
    /\ ClkCleared
    /\ clean' = trst
    /\ UNCHANGED <<tckVars, trst, performed>>
TckRelease ==
    /\ trst
    /\ trst' = FALSE
    /\ UNCHANGED <<tckVars, clkVars, rst, performed, clean>>
ClkRelease ==
    /\ rst
    /\ rst' = FALSE
    /\ UNCHANGED <<tckVars, clkVars, trst, performed, clean>>

Next ==
    \/ Tck \/ Clk \/ Both
    \/ TckReset \/ ClkReset \/ TckRelease \/ ClkRelease

Spec == Init /\ [][Next]_vars

\* Both clocks run, and every reset is released in the end.
FairSpec ==
    /\ Spec
    /\ WF_vars(Tck) /\ WF_vars(Clk)
    /\ WF_vars(TckRelease) /\ WF_vars(ClkRelease)

-----------------------------------------------------------------------------

\* Each accepted request is performed once and answered with its own data.
Remote == INSTANCE RemoteAccess
    WITH waiting <- busy_q, request <- req_q, result <- rdata_q,
         answer <- dbg_rdata_o
RemoteSpec == Remote!Spec

Quiet(toggle, chain, last) ==
    last = toggle /\ \A i \in DOMAIN chain : chain[i] = toggle

\* What crosses beside a toggle is static while the toggle is on its way: the
\* request registers and the read data change only when their synchroniser
\* holds no edge, on whatever edges of the two clocks.
StaticCrossing ==
    [][clean /\ ~trst' /\ ~rst' =>
         /\ req_q' # req_q => Quiet(req_toggle, req_sync, req_last)
         /\ rdata_q' # rdata_q => Quiet(ack_toggle, ack_sync, ack_last)]_vars

\* The debugger reaches the window whatever the system reset does: once the
\* resets have ended, every request is answered.
AnsweredAcrossReset == <>[]~rst => (busy_q ~> ~busy_q)

\* Holding both sides in reset together restores the handshake, however the
\* resets struck before: from then on an answer is for the request that
\* waits for it, performed once, and every request is answered.
OwnAnswerWhenClean ==
    [][clean /\ clean' /\ busy_q /\ ~busy_q' /\ ~trst' =>
         /\ performed = 1
         /\ \E s \in Sample : dbg_rdata_o' = { <<req_q, s>> }]_vars
AnsweredWhenClean == clean /\ busy_q ~> ~clean \/ ~busy_q

\* What is safe to rely on while no reset strikes one side of the crossing
\* alone: the data beside a toggle are static, and an answer is one's own.
CrossingSound == StaticCrossing /\ OwnAnswerWhenClean

=============================================================================
