-------------------------------- MODULE Bus ---------------------------------
(***************************************************************************)
(* The interconnect of the subsystem, cdriscv_32s_20_bus, between its two  *)
(* masters, the fetch stage and the load/store unit (cdriscv_32s_20_lsu),  *)
(* and its slaves: the I-TCM, which both masters share, the D-TCM, the APB *)
(* bridge, the CLINT and the responder for unmapped addresses.             *)
(*                                                                         *)
(* A step is an edge of clk, or the warm reset striking between two edges: *)
(* it takes the core, the bus and the CLINT, and neither the memories nor  *)
(* the bridge.  The I-TCM is Tcm in full; of the D-TCM, which is the same  *)
(* module, only the handshake is kept.                                     *)
(***************************************************************************)
EXTENDS Tcm, FiniteSets

CONSTANTS
    DataRequests,  \* accesses software makes: [to |-> slave, acc |-> access]
    PartialCredit, \* instructions a fetched word can hold, times the words
                   \* the prefetch buffer can hold
    WarmRstLen,    \* edges from the strike of the warm reset to its release
    MaxResets,     \* bound: warm resets
    SlowSlot       \* an external peripheral may stretch its access

FetchRequest == [to : {"itcm", "none"}, addr : Addr]
Slave == {"itcm", "dtcm", "periph", "clint", "none"}

BusAssumption ==
    /\ DataRequests \subseteq [to : Slave, acc : Access]
    /\ PartialCredit \in Nat /\ WarmRstLen \in Nat /\ MaxResets \in Nat
    /\ SlowSlot \in BOOLEAN

VARIABLES
    state_q, access,             \* LSU; the access the core holds for it
    fetch, fetched,              \* address the fetch stage presents; the
                                 \* fetch whose response is due
    credit,                      \* partial stores the buffered words can hold
    itcm_owner_q, err_rvalid_q, err_owner_q,     \* bus
    d_phase2_q, d_rvalid_q,      \* D-TCM
    apb_q,                       \* APB bridge
    clint_rvalid_q,
    held, resets                 \* edges of warm reset left, resets so far

lsuVars == <<state_q, access, credit>>
fetchVars == <<fetch, fetched>>
coreVars == <<lsuVars, fetchVars>>
ownVars == <<itcm_owner_q, err_rvalid_q, err_owner_q>>
dtcmVars == <<d_phase2_q, d_rvalid_q>>
busVars == <<coreVars, ownVars, dtcmVars, apb_q, clint_rvalid_q, held, resets>>
vars == <<tcmVars, busVars>>

-----------------------------------------------------------------------------
(* Requests and grants.  A request is a set of at most one element.         *)

InReset == held > 0
DataReq == IF InReset \/ state_q = "DATA" THEN {} ELSE access
ToSlave(s) == { r.acc : r \in { q \in DataReq : q.to = s } }

FetchFrom(s) == { r \in fetch : r.to = s }
\* (What stands on the write lines of a read is not used.)
FetchAccess(r) == [we |-> FALSE, be |-> Lane, addr |-> r.addr, wdata |-> wdata_q]

\* The data master wins the I-TCM and the error responder.
ItcmReqFetch == { FetchAccess(r) : r \in FetchFrom("itcm") }
ItcmReq == IF ToSlave("itcm") # {} THEN ToSlave("itcm") ELSE ItcmReqFetch

InstrGnt ==
    \/ FetchFrom("itcm") # {} /\ Ready /\ ToSlave("itcm") = {}
    \/ FetchFrom("none") # {} /\ ToSlave("none") = {}

DataGnt ==
    \/ ToSlave("itcm") # {} /\ Ready
    \/ ToSlave("dtcm") # {} /\ ~d_phase2_q
    \/ ToSlave("periph") # {} /\ apb_q = "IDLE"
    \/ ToSlave("clint") # {}
    \/ ToSlave("none") # {}

-----------------------------------------------------------------------------
(* Responses.                                                               *)

\* The slaves that answer the data master in this cycle; only the first of
\* them is passed on.
Responders ==
    (IF rvalid_q /\ itcm_owner_q THEN {"itcm"} ELSE {})
    \cup (IF d_rvalid_q THEN {"dtcm"} ELSE {})
    \cup (IF apb_q = "RESP" THEN {"periph"} ELSE {})
    \cup (IF clint_rvalid_q THEN {"clint"} ELSE {})
    \cup (IF err_rvalid_q /\ err_owner_q THEN {"none"} ELSE {})
Order == <<"itcm", "dtcm", "periph", "clint", "none">>
Responder ==
    { Order[i] : i \in { j \in 1..5 : /\ Order[j] \in Responders
                                      /\ \A k \in 1..(j - 1) : Order[k] \notin Responders } }
InstrRvalid == (rvalid_q /\ ~itcm_owner_q) \/ (err_rvalid_q /\ ~err_owner_q)

-----------------------------------------------------------------------------

Init ==
    /\ TcmInit
    /\ state_q = "IDLE"
    /\ access = {}
    /\ fetch = {}
    /\ fetched = {}
    /\ credit = 0
    /\ itcm_owner_q = FALSE
    /\ err_rvalid_q = FALSE
    /\ err_owner_q = FALSE
    /\ d_phase2_q = FALSE
    /\ d_rvalid_q = FALSE
    /\ apb_q = "IDLE"
    /\ clint_rvalid_q = FALSE
    /\ held = 0
    /\ resets = 0

LsuNext ==
    CASE state_q # "DATA" /\ access # {} -> IF DataGnt THEN "DATA" ELSE "ADDR"
      [] state_q = "DATA" /\ Responder # {} -> "IDLE"
      [] OTHER -> state_q

\* A partial store is an instruction of its own, so it uses up part of a
\* fetched word; the full-word accesses of a push or pop sequence do not.
Cost(r) == IF Partial(r.acc) THEN 1 ELSE 0

\* The core holds an access until it has ended, and may start the next one
\* in the following cycle.
LsuEdge ==
    /\ state_q' = LsuNext
    /\ IF LsuNext = "IDLE"
       THEN access' \in { {} } \cup { {r} : r \in { q \in DataRequests : Cost(q) <= credit } }
       ELSE UNCHANGED access
    /\ credit' = IF InstrRvalid THEN PartialCredit
                 ELSE IF state_q = "IDLE" /\ access # {}
                 THEN credit - Cost(CHOOSE r \in access : TRUE)
                 ELSE credit

\* The fetch stage presents an address until it is granted or withdrawn by a
\* redirect; the next one may overlap the response.
FetchEdge ==
    /\ fetch' \in { {} } \cup { {r} : r \in FetchRequest }
    /\ fetched' = IF InstrGnt THEN fetch ELSE {}

OwnerNext ==
    IF ItcmReq # {} /\ Ready THEN ToSlave("itcm") # {} ELSE itcm_owner_q

ErrData == ToSlave("none") # {}
ErrInstr == FetchFrom("none") # {} /\ ~ErrData
ErrOwnerInstr == err_owner_q /\ ~ErrInstr          \* mutant: never the data master
ErrOwnerNext == IF ErrData \/ ErrInstr THEN ErrData ELSE err_owner_q

BusEdge ==
    /\ itcm_owner_q' = OwnerNext
    /\ err_rvalid_q' = (ErrData \/ ErrInstr)
    /\ err_owner_q' = ErrOwnerNext

DtcmEdge ==
    /\ d_rvalid_q' = (ToSlave("dtcm") # {} /\ ~d_phase2_q)
    /\ d_phase2_q' = (~d_phase2_q /\ \E acc \in ToSlave("dtcm") : Partial(acc))

\* The peripherals on the chip are ready at once; an external one need not be.
ApbEdge ==
    \/ apb_q = "IDLE" /\ apb_q' = IF ToSlave("periph") # {} THEN "SETUP" ELSE "IDLE"
    \/ apb_q = "SETUP" /\ apb_q' = "ACCESS"
    \/ apb_q = "ACCESS" /\ apb_q' = "RESP"
    \/ apb_q = "ACCESS" /\ SlowSlot /\ apb_q' = "ACCESS"
    \/ apb_q = "RESP" /\ apb_q' = "IDLE"

Clk ==
    /\ TcmEdge(ItcmReq)
    /\ DtcmEdge
    /\ ApbEdge
    /\ IF InReset
       THEN UNCHANGED <<coreVars, ownVars, clint_rvalid_q>>
       ELSE /\ LsuEdge /\ FetchEdge /\ BusEdge
            /\ clint_rvalid_q' = (ToSlave("clint") # {})
    /\ held' = IF InReset THEN held - 1 ELSE 0
    /\ UNCHANGED resets

\* The core, the bus and the CLINT are in reset from now on.
WarmReset ==
    /\ resets < MaxResets
    /\ ~InReset
    /\ resets' = resets + 1
    /\ held' = WarmRstLen
    /\ state_q' = "IDLE" /\ access' = {} /\ fetch' = {} /\ fetched' = {}
    /\ credit' = 0
    /\ itcm_owner_q' = FALSE /\ err_rvalid_q' = FALSE /\ err_owner_q' = FALSE
    /\ clint_rvalid_q' = FALSE
    /\ UNCHANGED <<tcmVars, dtcmVars, apb_q>>

\* Bits of the I-TCM flip.
Upset == (\E a \in Addr : Flip(a)) /\ UNCHANGED busVars

Next == Clk \/ WarmReset \/ Upset

Spec == Init /\ [][Next]_vars

\* The clock runs: of the other steps only finitely many fit between two edges,
\* and an edge with a request pending changes something.
FairSpec == Spec /\ []<><<TRUE>>_vars

-----------------------------------------------------------------------------

\* A master is never handed a response it did not ask for, and none of its
\* own is lost: the data master is answered by exactly the slave it waits
\* for, the fetch stage in the cycle after each grant and only then.
AnswersOwn ==
    ~InReset =>
        /\ Responders # {} => /\ state_q = "DATA"
                              /\ Responders = { r.to : r \in access }
        /\ InstrRvalid <=> fetched # {}

\* The LSU takes no answer but that of the slave it asked.
TakesOwn == state_q = "DATA" => Responder \subseteq { r.to : r \in access }

\* Every access to the I-TCM is atomic and as asked: no master sees half of a
\* partial store, data come from the last store to each lane or with an error,
\* and a lost word is reported before anything in it is returned as data.
Memory == INSTANCE WordMemory
    WITH contents <- Contents, reply <- Reply, req <- ItcmReq
MemorySpec == Memory!Spec

\* Every access of the core is answered, whoever else requests.  And although
\* the data master wins every arbitration it cannot starve the fetch stage: what
\* that fetches next is granted or withdrawn in the end.
AccessEnds == []<>(state_q = "IDLE")
FetchServed == []<>(InstrGnt \/ fetch = {} \/ InReset)
NobodyStarves == AccessEnds /\ FetchServed

=============================================================================
