------------------------------- MODULE Mbist -------------------------------
(***************************************************************************)
(* The memory self test, cdriscv_32s_20_mbist: March C- over the raw port  *)
(* of one memory.  A step is an edge of clk with at most one write of      *)
(* CTRL.  The two patterns are all zeros and all ones, so a word is one    *)
(* bit here; the memory may have one fault of the classes the march is     *)
(* there for.  FAILDAT, which copies the data read, is left out.           *)
(***************************************************************************)
EXTENDS Naturals

CONSTANTS
    Depth,      \* words of the memory
    AutoStart   \* start by itself after the reset

MbistAssumption == Depth \in Nat \ {0, 1} /\ AutoStart \in BOOLEAN

Addr == 0..(Depth - 1)
Bit == {0, 1}

VARIABLES
    state_q, elem_q, op_q, addr_q, fail_q, fail_addr_q,
    start_q, abort_q, auto_start_q,
    mem, rdata,  \* the array, and its registered output
    fault,       \* what is wrong with the array
    clean        \* history: the last start cut no operation short

marchVars == <<elem_q, op_q, addr_q>>
commandVars == <<start_q, abort_q, auto_start_q>>
vars == <<state_q, marchVars, fail_q, fail_addr_q, commandVars, mem, rdata,
          fault, clean>>

-----------------------------------------------------------------------------
\* The array.

Fault(kind) == [kind : {kind}, at : Addr, by : Addr, to : Bit, edge : Bit]
\* A cell that is stuck; one that cannot change to `to'; a cell forced to
\* `to' when the cell `by' changes to `edge'; an address that selects `by'.
ArrayFault ==
    [kind : {"none"}, at : {0}, by : {0}, to : {0}, edge : {0}]
    \cup { f \in Fault("stuck") \cup Fault("transition") : f.by = f.at /\ f.edge = 0 }
    \cup { f \in Fault("coupling") : f.by # f.at }
    \cup { f \in Fault("address") : f.by # f.at /\ f.to = 0 /\ f.edge = 0 }

Selected(a) == IF fault.kind = "address" /\ a = fault.at THEN fault.by ELSE a
Holds(a, v) ==
    /\ ~(fault.kind = "stuck" /\ a = fault.at /\ v # fault.to)
    /\ ~(fault.kind = "transition" /\ a = fault.at /\ v = fault.to /\ mem[a] # v)
Couples(a, v) ==
    fault.kind = "coupling" /\ a = fault.by /\ v = fault.edge /\ mem[a] # v
Stored(a, v) ==
    LET s == Selected(a) IN
    [x \in Addr |-> IF x = s /\ Holds(s, v) THEN v
                    ELSE IF Couples(s, v) /\ x = fault.at THEN fault.to
                    ELSE mem[x]]

-----------------------------------------------------------------------------
\* The march.

OneOp == elem_q \notin 1..4
OpIsWrite == elem_q # 5 /\ (OneOp \/ op_q = 1)
OpData == CASE elem_q \in {1, 3} -> op_q [] elem_q \in {2, 4} -> 1 - op_q [] OTHER -> 0
ElemDown == elem_q \in {3, 4}

\* mutant: off by one
LastAddrEarly == IF ElemDown THEN addr_q = 1 ELSE addr_q = Depth - 1
LastAddr == IF ElemDown THEN addr_q = 0 ELSE addr_q = Depth - 1
LastOp == OneOp \/ op_q = 1
Busy == state_q \in {"EXEC", "CAPTURE"}
Advance == (state_q = "EXEC" /\ OpIsWrite) \/ state_q = "CAPTURE"
Ends == Advance /\ LastOp /\ LastAddr /\ elem_q = 5

StateNext ==
    IF Ends THEN "DONE"
    ELSE IF abort_q THEN "IDLE"
    ELSE IF state_q = "EXEC" THEN (IF OpIsWrite THEN "EXEC" ELSE "CAPTURE")
    ELSE IF state_q = "CAPTURE" \/ start_q THEN "EXEC"
    ELSE state_q

Walk ==
    IF start_q THEN elem_q' = 0 /\ op_q' = 0 /\ addr_q' = 0
    ELSE IF ~Advance THEN UNCHANGED marchVars
    ELSE IF ~LastOp THEN op_q' = 1 /\ UNCHANGED <<elem_q, addr_q>>
    ELSE /\ op_q' = 0
         /\ elem_q' = IF LastAddr THEN elem_q + 1 ELSE elem_q
         /\ addr_q' = IF LastAddr
                      THEN (IF elem_q \in {2, 3} THEN Depth - 1 ELSE 0)
                      ELSE IF ElemDown THEN addr_q - 1 ELSE addr_q + 1

\* The check of a read wins over the start that clears its result.
Mismatch == state_q = "CAPTURE" /\ ~fail_q /\ rdata # OpData
Check ==
    IF Mismatch THEN fail_q' = TRUE /\ fail_addr_q' = addr_q
    ELSE IF start_q THEN fail_q' = FALSE /\ fail_addr_q' = 0
    ELSE UNCHANGED <<fail_q, fail_addr_q>>

Port ==
    /\ mem' = IF state_q = "EXEC" /\ OpIsWrite THEN Stored(addr_q, OpData) ELSE mem
    /\ rdata' = IF Busy /\ ~OpIsWrite THEN mem[Selected(addr_q)] ELSE rdata

\* A start that takes effect between the two cycles of a read, on the edge
\* that finds a mismatch or on the last one of a test does not start a whole
\* test with a clean result.
CutsShort == (state_q = "EXEC" /\ ~OpIsWrite) \/ Mismatch \/ Ends

Sequence ==
    /\ state_q' = StateNext
    /\ Walk
    /\ Check
    /\ Port
    /\ clean' = IF start_q THEN ~CutsShort ELSE clean
    /\ UNCHANGED fault

Init ==
    /\ state_q = "IDLE"
    /\ elem_q = 0 /\ op_q = 0 /\ addr_q = 0
    /\ fail_q = FALSE /\ fail_addr_q = 0
    /\ start_q = FALSE /\ abort_q = FALSE
    /\ auto_start_q = AutoStart
    /\ fault \in ArrayFault
    /\ mem \in { m \in [Addr -> Bit] : fault.kind = "stuck" => m[fault.at] = fault.to }
    /\ rdata = 0
    /\ clean = TRUE

\* The bridge takes more than one edge for a write, and nobody writes on the
\* edge after the reset.
Idle == start_q' = auto_start_q /\ abort_q' = FALSE
WriteCtrl(start, abort) ==
    /\ ~auto_start_q /\ ~start_q /\ ~abort_q
    /\ start_q' = start
    /\ abort_q' = abort
Command == Idle \/ \E start, abort \in BOOLEAN : WriteCtrl(start, abort)
Next == Sequence /\ Command /\ auto_start_q' = FALSE

Spec == Init /\ [][Next]_vars

-----------------------------------------------------------------------------

\* When a test is done that nothing cut short, wherever an earlier one was
\* aborted, the memory is reported bad exactly if it is, and a stuck cell
\* with its address.
VerdictRight ==
    state_q = "DONE" /\ clean =>
        /\ fail_q <=> fault.kind # "none"
        /\ fault.kind = "stuck" => fail_addr_q = fault.at

=============================================================================
