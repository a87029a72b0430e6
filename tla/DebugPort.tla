----------------------------- MODULE DebugPort -----------------------------
(***************************************************************************)
(* The debug path of the subsystem: the TAP, the clock crossing and the    *)
(* read-only observation window (cdriscv_32s_20_dbg_win), as they are      *)
(* connected in cdriscv_32s_20_subsys.  The TAP cannot see the bridge's    *)
(* busy output: the host makes no request while an access is outstanding,  *)
(* which it can only do by waiting long enough.                            *)
(* Resets are the subject of DbgBridge; here both are released.            *)
(***************************************************************************)
EXTENDS Naturals, Sequences

CONSTANTS Width, IdCode, Stages,
          Window     \* what the window holds at each address

VARIABLES
    state_q, ir_shift_q, ir_q, bypass_q, idcode_q, addr_q, data_q,
    busy_q, req_q, req_toggle, ack_sync, ack_last, dbg_rdata_o,
    req_sync, req_last, rdata_q, ack_pulse, ack_toggle, performed,
    asked      \* history: the request the TAP made last, dropped or not

tapVars == <<state_q, ir_shift_q, ir_q, bypass_q, idcode_q, addr_q, data_q>>
tckVars == <<busy_q, req_q, req_toggle, ack_sync, ack_last, dbg_rdata_o>>
clkVars == <<req_sync, req_last, rdata_q, ack_pulse, ack_toggle>>
vars == <<tapVars, tckVars, clkVars, performed, asked>>

Data == [1..Width -> {0, 1}]
\* The write data, which the window discards, are left out of a request.
DebugRequest == [addr : Data, we : BOOLEAN]
ZeroData == [i \in 1..Width |-> 0]
DebugZeroRequest == [addr |-> ZeroData, we |-> FALSE]

WindowAssumption == Window \in [Data -> Data]

Tap == INSTANCE JtagTap
    WITH Returned <- Data, ones <- 0, captured <- << >>, shifted <- << >>

\* The window answers in the cycle of the strobe and ignores write data.
Bridge == INSTANCE DbgBridge
    WITH Request <- DebugRequest, ZeroRequest <- DebugZeroRequest,
         Sample <- {"window"}, Resets <- {},
         trst <- FALSE, rst <- FALSE, clean <- TRUE

WindowData(word) ==
    IF word = {} THEN ZeroData ELSE Window[(CHOOSE w \in word : TRUE)[1].addr]

TapRequest ==
    IF Tap!DbgReq
    THEN { [addr |-> addr_q, we |-> Tap!DbgWe] } ELSE {}

-----------------------------------------------------------------------------

Init ==
    /\ state_q = "TEST_LOGIC_RESET"
    /\ ir_shift_q = Tap!Zeros(4)
    /\ ir_q = Tap!IR_IDCODE
    /\ bypass_q = 0
    /\ idcode_q = IdCode
    /\ addr_q = ZeroData
    /\ data_q = ZeroData
    /\ busy_q = FALSE
    /\ req_q = DebugZeroRequest
    /\ req_toggle = FALSE
    /\ ack_sync = Bridge!Cleared(Stages)
    /\ ack_last = FALSE
    /\ dbg_rdata_o = {}
    /\ req_sync = Bridge!Cleared(Stages)
    /\ req_last = FALSE
    /\ rdata_q = {}
    /\ ack_pulse = FALSE
    /\ ack_toggle = FALSE
    /\ performed = 0
    /\ asked = {}

\* The host loads the instructions the TAP has; the twelve other codes all
\* select the bypass register.
Loads(tms) ==
    state_q \in {"EXIT1_IR", "EXIT2_IR"} /\ tms = 1 =>
        ir_shift_q \in {Tap!IR_BYPASS, Tap!IR_IDCODE, Tap!IR_DBG_ADDR, Tap!IR_DBG_DATA}

\* An edge of tck moves the TAP and the tck side of the bridge together.
TckEdge(tms, tdi) ==
    /\ busy_q => ~Tap!DbgReq
    /\ Loads(tms)
    /\ Tap!TckEdge(tms, tdi, WindowData(dbg_rdata_o))
    /\ Bridge!TckEdge(TapRequest)
    /\ asked' = IF Tap!DbgReq THEN TapRequest ELSE asked

\* Bits matter on their way into the instruction and the address register;
\* what is shifted through the others reaches nothing here, and tdi is not
\* sampled elsewhere: the host sends zeros there.
Sent ==
    IF \/ state_q = "SHIFT_IR"
       \/ state_q = "SHIFT_DR" /\ ir_q = Tap!IR_DBG_ADDR
    THEN {0, 1} ELSE {0}

Tck ==
    \E tms \in {0, 1}, tdi \in Sent :
        /\ TckEdge(tms, tdi)
        /\ Bridge!Count(TapRequest, FALSE)
        /\ UNCHANGED clkVars
Clk ==
    /\ Bridge!ClkEdge("window")
    /\ Bridge!Count({}, TRUE)
    /\ UNCHANGED <<tapVars, tckVars, asked>>
Both ==
    \E tms \in {0, 1}, tdi \in Sent :
        /\ TckEdge(tms, tdi)
        /\ Bridge!ClkEdge("window")
        /\ Bridge!Count(TapRequest, TRUE)

Next == Tck \/ Clk \/ Both

Spec == Init /\ [][Next]_vars

-----------------------------------------------------------------------------

\* When no access is outstanding, what a scan of the data register captures
\* is what the window holds at the address of the last request: the host
\* never reads somebody else's address.
ReadsWhatItAsked ==
    state_q = "CAPTURE_DR" /\ ~busy_q /\ asked # {} =>
        \E r \in asked : dbg_rdata_o = { <<r, "window">> }

\* Through the crossing, an access of the debugger is atomic: each accepted
\* request is performed once in the system domain and answered with what
\* that access read.
RemoteSpec == Bridge!RemoteSpec

=============================================================================
