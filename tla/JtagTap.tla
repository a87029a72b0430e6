------------------------------ MODULE JtagTap ------------------------------
(***************************************************************************)
(* The IEEE 1149.1 test access port, cdriscv_32s_20_jtag_tap: the TAP      *)
(* controller, its instruction register and its data registers, and the    *)
(* request it raises on the debug bus.  One step is one edge of tck.       *)
(* Registers are sequences of bits, the least significant one first; the   *)
(* data registers are Width bits wide, 32 in the code.                     *)
(***************************************************************************)
EXTENDS Naturals, Sequences

CONSTANTS
    Width,      \* bits of a data register
    IdCode,     \* contents of the identification register
    Returned    \* values the debug bus may return, dbg_rdata_i

Bit == {0, 1}
Register(n) == [1..n -> Bit]
Zeros(n) == [i \in 1..n |-> 0]

TapAssumption ==
    /\ Width \in Nat \ {0}
    /\ IdCode \in Register(Width)
    /\ Returned \subseteq Register(Width)

VARIABLES
    state_q, ir_shift_q, ir_q, bypass_q, idcode_q, addr_q, data_q,
    ones,       \* history: consecutive edges with tms high, up to five
    captured,   \* history: the selected register when its scan began
    shifted     \* history: the bits shifted in since

tapVars == <<state_q, ir_shift_q, ir_q, bypass_q, idcode_q, addr_q, data_q>>
vars == <<tapVars, ones, captured, shifted>>

\* Instruction codes, least significant bit first.
IR_BYPASS == <<1, 1, 1, 1>>
IR_IDCODE == <<1, 0, 0, 0>>
IR_DBG_ADDR == <<0, 0, 0, 1>>
IR_DBG_DATA == <<1, 0, 0, 1>>
CaptureIr == <<1, 0, 0, 0>>

\* The controller: the successor of each state with tms high and low.
Controller ==
    [TEST_LOGIC_RESET |-> <<"TEST_LOGIC_RESET", "RUN_TEST_IDLE">>,
     RUN_TEST_IDLE    |-> <<"SELECT_DR", "RUN_TEST_IDLE">>,
     SELECT_DR        |-> <<"SELECT_IR", "CAPTURE_DR">>,
     CAPTURE_DR       |-> <<"EXIT1_DR", "SHIFT_DR">>,
     SHIFT_DR         |-> <<"EXIT1_DR", "SHIFT_DR">>,
     EXIT1_DR         |-> <<"UPDATE_DR", "PAUSE_DR">>,
     PAUSE_DR         |-> <<"EXIT2_DR", "PAUSE_DR">>,
     EXIT2_DR         |-> <<"UPDATE_DR", "SHIFT_DR">>,
     UPDATE_DR        |-> <<"SELECT_DR", "RUN_TEST_IDLE">>,
     SELECT_IR        |-> <<"TEST_LOGIC_RESET", "CAPTURE_IR">>,
     CAPTURE_IR       |-> <<"EXIT1_IR", "SHIFT_IR">>,
     SHIFT_IR         |-> <<"EXIT1_IR", "SHIFT_IR">>,
     EXIT1_IR         |-> <<"UPDATE_IR", "PAUSE_IR">>,
     PAUSE_IR         |-> <<"EXIT2_IR", "PAUSE_IR">>,
     EXIT2_IR         |-> <<"UPDATE_IR", "SHIFT_IR">>,
     UPDATE_IR        |-> <<"SELECT_DR", "RUN_TEST_IDLE">>]
States == DOMAIN Controller

NextState(s, tms) == Controller[s][IF tms = 1 THEN 1 ELSE 2]

ShiftLeft(reg, tdi) ==                            \* mutant: wrong direction
    <<tdi>> \o SubSeq(reg, 1, Len(reg) - 1)
ShiftReg(reg, tdi) == Append(Tail(reg), tdi)

\* The data register ir_q selects, as a value.
Selected ==
    CASE ir_q = IR_IDCODE -> idcode_q
      [] ir_q = IR_DBG_ADDR -> addr_q
      [] ir_q = IR_DBG_DATA -> data_q
      [] OTHER -> <<bypass_q>>

\* Outputs.
TdoDr == Head(Selected)
Tdo == IF state_q = "SHIFT_IR" THEN ir_shift_q[1] ELSE TdoDr
DbgReq == state_q = "UPDATE_DR" /\ ir_q \in {IR_DBG_ADDR, IR_DBG_DATA}
DbgWe == state_q = "UPDATE_DR" /\ ir_q = IR_DBG_DATA

-----------------------------------------------------------------------------

Init ==
    /\ state_q = "TEST_LOGIC_RESET"
    /\ ir_shift_q = Zeros(4)
    /\ ir_q = IR_IDCODE
    /\ bypass_q = 0
    /\ idcode_q = IdCode
    /\ addr_q = Zeros(Width)
    /\ data_q = Zeros(Width)
    /\ ones = 0
    /\ captured = << >>
    /\ shifted = << >>

\* The instruction register, by controller state.
IrEdge(tdi) ==
    /\ ir_q' = CASE state_q = "TEST_LOGIC_RESET" -> IR_IDCODE
                 [] state_q = "UPDATE_IR" -> ir_shift_q
                 [] OTHER -> ir_q
    /\ ir_shift_q' = CASE state_q = "CAPTURE_IR" -> CaptureIr
                       [] state_q = "SHIFT_IR" -> ShiftReg(ir_shift_q, tdi)
                       [] OTHER -> ir_shift_q

\* The data registers: captured together, shifted one at a time.
Shifting(code) == state_q = "SHIFT_DR" /\ ir_q = code
DrEdge(tdi, rdata) ==
    LET capture == state_q = "CAPTURE_DR" IN
    /\ idcode_q' = IF capture THEN IdCode
                   ELSE IF Shifting(IR_IDCODE) THEN ShiftReg(idcode_q, tdi)
                   ELSE idcode_q
    /\ data_q' = IF capture THEN rdata
                 ELSE IF Shifting(IR_DBG_DATA) THEN ShiftReg(data_q, tdi)
                 ELSE data_q
    /\ addr_q' = IF Shifting(IR_DBG_ADDR) THEN ShiftReg(addr_q, tdi)
                 ELSE addr_q
    /\ bypass_q' = IF capture THEN 0
                   ELSE IF state_q = "SHIFT_DR"
                           /\ ir_q \notin {IR_IDCODE, IR_DBG_ADDR, IR_DBG_DATA}
                        THEN tdi ELSE bypass_q

\* What the edge does to the port itself.
TckEdge(tms, tdi, rdata) ==
    /\ state_q' = NextState(state_q, tms)
    /\ IrEdge(tdi)
    /\ DrEdge(tdi, rdata)

\* Scans are followed for one bit more than the register they run through.
ScanBound == state_q \in {"SHIFT_DR", "SHIFT_IR"} => Len(shifted) <= Len(captured)

Edge(tms, tdi, rdata) ==
    /\ TckEdge(tms, tdi, rdata)
    /\ ScanBound
    /\ ones' = IF tms = 0 THEN 0 ELSE IF ones = 6 THEN 6 ELSE ones + 1
    /\ CASE state_q = "CAPTURE_DR" -> captured' = Selected' /\ shifted' = << >>
         [] state_q = "CAPTURE_IR" -> captured' = CaptureIr /\ shifted' = << >>
         [] state_q \in {"SHIFT_DR", "SHIFT_IR"} ->
                captured' = captured /\ shifted' = Append(shifted, tdi)
         [] state_q \in {"SELECT_DR", "TEST_LOGIC_RESET"} ->
                captured' = << >> /\ shifted' = << >>
         [] OTHER -> UNCHANGED <<captured, shifted>>

\* trst_ni, asynchronous.
TestReset ==
    /\ state_q' = "TEST_LOGIC_RESET"
    /\ ir_shift_q' = Zeros(4)
    /\ ir_q' = IR_IDCODE
    /\ bypass_q' = 0
    /\ idcode_q' = IdCode
    /\ addr_q' = Zeros(Width)
    /\ data_q' = Zeros(Width)
    /\ ones' = 0
    /\ captured' = << >>
    /\ shifted' = << >>

Next ==
    \/ \E tms, tdi \in Bit, rdata \in Returned : Edge(tms, tdi, rdata)
    \/ TestReset

Spec == Init /\ [][Next]_vars

-----------------------------------------------------------------------------

LastBits(n, s) == SubSeq(s, Len(s) - n + 1, Len(s))
Scan == captured \o shifted

DrScan == {"SHIFT_DR", "EXIT1_DR", "PAUSE_DR", "EXIT2_DR", "UPDATE_DR"}
IrScan == {"SHIFT_IR", "EXIT1_IR", "PAUSE_IR", "EXIT2_IR", "UPDATE_IR"}

\* Through any mixture of shifts and pauses the selected register holds the
\* last bits of what it captured followed by what was shifted in, so a full
\* scan loads exactly the bits sent and an update uses them.  While shifting,
\* TDO presents the captured register in order and then the bits shifted in:
\* every register can be read back, the instruction register included.
ScanExact ==
    /\ state_q \in DrScan => Selected = LastBits(Len(captured), Scan)
    /\ state_q \in IrScan => ir_shift_q = LastBits(4, Scan)
    /\ state_q \in {"SHIFT_DR", "SHIFT_IR"} => Tdo = Scan[Len(shifted) + 1]

\* Five edges with tms high reset the controller from every state, and one
\* more selects the identification register.
ResetByTms ==
    /\ ones >= 5 => state_q = "TEST_LOGIC_RESET"
    /\ ones = 6 => ir_q = IR_IDCODE

\* Both: what a scan shifts in and out, and the reset that needs no pin.
TapExact == ScanExact /\ ResetByTms

=============================================================================
