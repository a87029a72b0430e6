---------------------------- MODULE MCTransport ----------------------------
(***************************************************************************)
(* The units that carry words and requests from one part to another, each  *)
(* against the abstract specification of what it carries.  One of them     *)
(* runs, chosen at the start; the others rest.                             *)
(*   stage   the prefetcher: three word addresses that wrap around, one    *)
(*           garbage word, every set of denied addresses of at most one    *)
(*   align   the realigner over the word stream that the prefetcher        *)
(*           implements: every layout of the eight halfwords               *)
(*   tap     data registers of two bits, two of their four values read     *)
(*   bridge  three requests, one of them the reset value, two samples of   *)
(*           the window, both clocks and both resets                       *)
(*   debug   TAP, crossing and window together, with one-bit data          *)
(*           registers: two addresses, whose contents differ               *)
(* tap and bridge on the one hand and debug on the other use the same      *)
(* registers, those of the TAP and of the crossing.  The constants of the  *)
(* units are those of this module, their values in the run at its end.     *)
(***************************************************************************)
EXTENDS IfStage

CONSTANTS
    Width, IdCode, Returned,                        \* tap
    Stages, Request, ZeroRequest, Sample, Resets,   \* bridge, and Stages of debug
    DebugWidth, DebugIdCode, Window                 \* debug

VARIABLES
    running,     \* the unit that runs
    half_q, strad_q, strad, word_pos, word_offer, long, ipc,
    state_q, ir_shift_q, ir_q, bypass_q, idcode_q, addr_q, data_q,
    ones, captured, shifted,
    trst, rst, busy_q, req_q, req_toggle, ack_sync, ack_last, dbg_rdata_o,
    req_sync, req_last, rdata_q, ack_pulse, ack_toggle, performed, clean, asked

alignState == <<half_q, strad_q, strad, word_pos, word_offer, long, ipc>>
tapState == <<state_q, ir_shift_q, ir_q, bypass_q, idcode_q, addr_q, data_q>>
tapHistory == <<ones, captured, shifted>>
crossing == <<busy_q, req_q, req_toggle, ack_sync, ack_last, dbg_rdata_o,
              req_sync, req_last, rdata_q, ack_pulse, ack_toggle, performed>>
resetState == <<trst, rst, clean>>
debugState == <<tapState, tapHistory, crossing, resetState, asked>>

Align == INSTANCE IfAlign WITH pos <- word_pos, offer <- word_offer
Tap == INSTANCE JtagTap
Bridge == INSTANCE DbgBridge
Debug == INSTANCE DebugPort WITH Width <- DebugWidth, IdCode <- DebugIdCode

ASSUME TransportConstants ==
    /\ Align!AlignAssumption
    /\ Tap!TapAssumption /\ Bridge!BridgeAssumption
    /\ Debug!Tap!TapAssumption /\ Debug!WindowAssumption

-----------------------------------------------------------------------------

AlignInit ==
    IF running = "align" THEN Align!Init
    ELSE /\ half_q = 0 /\ strad_q = FALSE /\ strad = Align!NoStraddle
         /\ word_pos = BootPc /\ word_offer = {} /\ long = {}
         /\ ipc = <<BootPc, 0>>

DebugInit ==
    IF running = "debug"
    THEN /\ Debug!Init
         /\ ones = 0 /\ captured = << >> /\ shifted = << >>
         /\ trst = FALSE /\ rst = FALSE /\ clean = TRUE
    ELSE Tap!Init /\ Bridge!Init /\ asked = {}

McInit ==
    /\ running \in {"stage", "align", "tap", "bridge", "debug"}
    /\ Init
    /\ AlignInit
    /\ DebugInit

Runs(unit) == running = unit /\ UNCHANGED running
OnStage == Runs("stage") /\ UNCHANGED <<alignState, debugState>>
OnAlign == Runs("align") /\ UNCHANGED <<vars, debugState>>
OnTap == Runs("tap") /\ UNCHANGED <<vars, alignState, crossing, resetState, asked>>
OnBridge == Runs("bridge") /\ UNCHANGED <<vars, alignState, tapState, tapHistory, asked>>
OnDebug == Runs("debug") /\ UNCHANGED <<vars, alignState, tapHistory, resetState>>

McNext ==
    \/ OnStage /\ Next
    \/ OnAlign /\ Align!Next
    \/ OnTap /\ Tap!Next
    \/ OnBridge /\ Bridge!Next
    \/ OnDebug /\ Debug!Next

\* The bus grants and answers in the end; words arrive, and holding a low half
\* waits for nobody; both clocks run and the resets are released in the end.
McSpec ==
    /\ McInit /\ [][McNext]_<<running, vars, alignState, debugState>>
    /\ WF_vars(OnStage /\ Granted) /\ WF_vars(OnStage /\ Replied)
    /\ WF_alignState(OnAlign /\ Align!WordArrives)
    /\ WF_alignState(OnAlign /\ Align!HoldLowHalf)
    /\ WF_debugState(OnBridge /\ Bridge!Tck)
    /\ WF_debugState(OnBridge /\ Bridge!Clk)
    /\ WF_debugState(OnBridge /\ Bridge!TckRelease)
    /\ WF_debugState(OnBridge /\ Bridge!ClkRelease)

-----------------------------------------------------------------------------

\* Unless redirects keep coming, words and instructions keep coming: no discard,
\* denial or stall idles the prefetcher, and a held half is always completed.
\* And after both sides of the crossing were in reset together every request of
\* the debugger is answered.
KeepsGoing ==
    /\ (running = "stage") => KeepsDelivering
    /\ (running = "align") => Align!KeepsIssuing
    /\ (running = "bridge") => Bridge!AnsweredWhenClean

\* The realigner over the word stream implements the instruction stream.
InstrSpec == Align!InstrSpec

\* A scan shifts out what was captured while exactly the bits sent come in,
\* whatever pauses interrupt it, and five edges with tms high reset the TAP.
TapExact == running = "tap" => Tap!TapExact

\* While no reset strikes one side of the crossing alone, what crosses beside
\* a toggle is static, and an answer is for the request that waits for it.
CrossingSound == Bridge!CrossingSound

\* Through TAP and crossing the debugger's accesses are the atomic accesses
\* of RemoteAccess, and the host captures what it asked for last.
Remote == INSTANCE RemoteAccess WITH
    Request <- Debug!DebugRequest, Sample <- {"window"},
    waiting <- busy_q, request <- req_q, result <- rdata_q, answer <- dbg_rdata_o
DebugIsRemote ==
    /\ running = "debug" => Remote!Init
    /\ [][running = "debug" => Remote!Next]_<<busy_q, req_q, performed, rdata_q, dbg_rdata_o>>
    /\ [](running = "debug" => Debug!ReadsWhatItAsked)

-----------------------------------------------------------------------------
(* The values of the run. *)

McPc == 0..2
McNextPc == [p \in McPc |-> (p + 1) % 3]
McDenySets == { {} } \cup { {p} : p \in McPc }

McIdCode == <<1, 0>>
McReturned == {<<0, 1>>, <<1, 1>>}
McDebugIdCode == <<1>>
McWindow == [a \in [1..1 -> {0, 1}] |-> <<1 - a[1]>>]
=============================================================================
