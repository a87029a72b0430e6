------------------------------- MODULE MCBus --------------------------------
(***************************************************************************)
(* The core's control and, beside it, the interconnect behind the core's   *)
(* two masters.  Each runs with every environment of its own module: the   *)
(* core against any bus, the bus against any requests.  One of them runs,  *)
(* chosen at the start; the other rests.                                   *)
(*   core   two instruction addresses, four addresses of data with words   *)
(*          at the lower two, and every kind of instruction over the       *)
(*          registers ra and s0                                            *)
(*   bus    one word of two one-bit lanes in the I-TCM; software loads it, *)
(*          stores it or one lane of it, and makes an access to every      *)
(*          other slave, the two-cycle partial store to the D-TCM among    *)
(*          them                                                           *)
(***************************************************************************)
EXTENDS Core

CONSTANTS
    lo, hi,
    Addr, Lane, Value, DataRequests, PartialCredit, WarmRstLen, MaxResets,
    SlowSlot                        \* as in Bus

VARIABLES
    running,                        \* "core" or "bus"
    mem_cw, rd_cw, phase2_q, rvalid_q, we_q, be_q, wdata_q, addr_q,
    lsu_state, access, fetch, fetched, credit,
    itcm_owner_q, err_rvalid_q, err_owner_q, d_phase2_q, d_rvalid_q, apb_q,
    clint_rvalid_q, held, resets

busState == <<mem_cw, rd_cw, phase2_q, rvalid_q, we_q, be_q, wdata_q, addr_q,
              lsu_state, access, fetch, fetched, credit,
              itcm_owner_q, err_rvalid_q, err_owner_q, d_phase2_q, d_rvalid_q, apb_q,
              clint_rvalid_q, held, resets>>

Buses == INSTANCE Bus WITH state_q <- lsu_state, mem <- mem_cw

ASSUME BusConstants == Buses!TcmAssumption /\ Buses!BusAssumption

-----------------------------------------------------------------------------

McInit ==
    /\ running \in {"core", "bus"}
    /\ Init
    /\ Buses!Init
    /\ running # "bus" =>
          <<mem_cw, rd_cw>> = CHOOSE m \in [Addr -> Buses!CodeWord] \X Buses!CodeWord : TRUE

OnCore == running = "core" /\ UNCHANGED <<running, busState>>
OnBus == running = "bus" /\ UNCHANGED <<running, vars>>

McNext == (OnCore /\ Next) \/ (OnBus /\ Buses!Next)

\* The core is fair as in its module, and so is the bus: its clock runs.
McSpec ==
    /\ McInit /\ [][McNext]_<<running, vars, busState>>
    /\ WF_coreVars(OnCore /\ (Wait \/ Run(TRUE)) /\ irq' \in BOOLEAN)
    /\ []<>(running # "bus") \/ []<><<TRUE>>_busState

-----------------------------------------------------------------------------

\* Each master gets its own answers, all of them and no others.
AnswersOwn == Buses!AnswersOwn

\* The LSU takes no answer but that of the slave it asked.
TakesOwn == Buses!TakesOwn

Memory == INSTANCE WordMemory WITH
    contents <- Buses!Contents, reply <- Buses!Reply, req <- Buses!ItcmReq

\* Every access to the I-TCM is atomic, and correct or reported.
MemorySpec == Memory!Spec

\* Neither master is starved.
NobodyStarves == Buses!NobodyStarves

-----------------------------------------------------------------------------
(* The values of the run. *)

McLoad == [we |-> FALSE, be |-> Lane, addr |-> 0, wdata |-> [l \in Lane |-> 0]]
McStore(be, v) == [we |-> TRUE, be |-> be, addr |-> 0, wdata |-> [l \in Lane |-> v]]

McRequests ==
    [to : {"itcm"}, acc : { McLoad, McStore({lo}, 0), McStore(Lane, 1) }]
    \cup [to : {"dtcm"}, acc : { McLoad, McStore({lo}, 0) }]
    \cup [to : {"periph", "clint", "none"}, acc : {McLoad}]

McPc == {0, 1}
McNextPc == [p \in McPc |-> 1 - p]
McSaved == <<"ra", "s0">>
McInstruction ==
    [op : {"alu", "jump", "bad", "csr", "mret", "wfi", "div", "pop"}, n : {1}]
    \cup [op : {"load", "store", "push", "popret", "popretz"}, n : {2}]
=============================================================================
