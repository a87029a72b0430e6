------------------------------ MODULE IfStage ------------------------------
(***************************************************************************)
(* The instruction prefetcher, cdriscv_32s_20_if_stage: one outstanding    *)
(* bus transaction, a two-entry buffer, redirects that drop what is in     *)
(* flight, and locally injected faults for words the PMP denies.           *)
(*                                                                         *)
(* One step is one clock edge.  The combinational signals of the code are  *)
(* operators of the inputs sampled at that edge:                           *)
(*   en     fetch_en_i        gnt  instr_gnt_i      rv   instr_rvalid_i    *)
(*   ready  instr_ready_i     resp the response data and error             *)
(* Words are known by their address: a data word is the address whose      *)
(* content it is, or a member of Garbage when it came with an error.       *)
(* The three copies of rd_ptr are one variable: they are written alike.    *)
(***************************************************************************)
EXTENDS Naturals, Sequences

CONSTANTS
    Pc,         \* word addresses, instr_addr_o[31:2]
    NextPc,     \* pc + 4 on them
    BootPc,     \* boot_addr_i
    ZeroPc,     \* address 0, the reset value of the address registers
    Garbage,    \* data words that arrive with an error
    ZeroWord,   \* the all-zero word of an injected fault
    DenySets    \* the sets of addresses PMP configurations may deny

ASSUME PcAssumption ==
    /\ NextPc \in [Pc -> Pc]
    /\ BootPc \in Pc
    /\ ZeroPc \in Pc
    /\ ZeroWord \in Garbage
    /\ Pc \cap Garbage = {}
    /\ DenySets \subseteq SUBSET Pc

VARIABLES
    fetch_pc_q, pending_pc_q, outstanding_q, discard_q,
    wr_ptr_q, rd_ptr_q, count_q,
    buf,        \* buf_rdata_q, buf_pc_q and buf_err_q, one record per slot
    deny,       \* addresses the fetch-side PMP checker denies just now
    flight,     \* bus: the transactions granted and not yet answered
    pos         \* history: address of the next word the stream must deliver

stageVars == <<fetch_pc_q, pending_pc_q, outstanding_q, discard_q,
               wr_ptr_q, rd_ptr_q, count_q, buf>>
vars == <<stageVars, deny, flight, pos>>

Slot == {0, 1}
Response == [word : Pc \cup Garbage, err : BOOLEAN]
Entry == [pc : Pc, word : Pc \cup Garbage, err : BOOLEAN, fresh : BOOLEAN]
Transaction == [addr : Pc, fresh : BOOLEAN]

One(b) == IF b THEN 1 ELSE 0

-----------------------------------------------------------------------------
\* Flow control.

RespNow(rv) == outstanding_q /\ rv
FillAlways(rv) == RespNow(rv)                     \* mutant: discard ignored
Fill(rv) == RespNow(rv) /\ ~discard_q
Valid == count_q # 0
Consume(ready) == Valid /\ ready

OccupancyBuffered(rv, ready) ==                   \* mutant: flight ignored
    count_q - One(Consume(ready))
OccupancyNext(rv, ready) ==
    count_q + One(outstanding_q) - One(Consume(ready))
            - One(RespNow(rv) /\ discard_q)

WantFetch(en, rv, ready) ==
    /\ en
    /\ ~outstanding_q \/ RespNow(rv)
    /\ OccupancyNext(rv, ready) <= 1

Allowed == fetch_pc_q \notin deny
Accepted(en, gnt, rv, ready) == WantFetch(en, rv, ready) /\ Allowed /\ gnt
FaultInject(en, rv, ready) == WantFetch(en, rv, ready) /\ ~Allowed

\* What the bus may answer: it has a transaction to answer, and either the
\* content of the word that transaction asked for or an error with whatever
\* the memory drove.
BusAnswer(rv, resp) ==
    rv => /\ flight # << >>
          /\ \/ resp.word = Head(flight).addr
             \/ resp.err /\ resp.word \in Garbage

\* The transactions in flight after this edge; those granted before a
\* redirect, in its own cycle included, are no longer fresh.
Answered(rv) == IF rv THEN Tail(flight) ELSE flight
Issued(acc) ==
    IF acc THEN << [addr |-> fetch_pc_q, fresh |-> TRUE] >> ELSE << >>
Stale(ts) == [i \in DOMAIN ts |-> [ts[i] EXCEPT !.fresh = FALSE]]

DiscardSticky(rv) == discard_q                    \* mutant: never cleared
DiscardNext(rv) == discard_q /\ ~RespNow(rv)

-----------------------------------------------------------------------------

Init ==
    /\ fetch_pc_q = BootPc
    /\ pending_pc_q = ZeroPc
    /\ outstanding_q = FALSE
    /\ discard_q = FALSE
    /\ wr_ptr_q = 0
    /\ rd_ptr_q = 0
    /\ count_q = 0
    /\ buf = [s \in Slot |-> [pc |-> ZeroPc, word |-> ZeroWord,
                              err |-> FALSE, fresh |-> FALSE]]
    /\ deny = {}
    /\ flight = << >>
    /\ pos = BootPc

\* A redirect from the execute stage: drop the buffer, restart at pc and
\* mark whatever is still in flight, a request granted this very cycle
\* included, to be discarded.
Redirect(pc, en, gnt, rv, ready) ==
    LET acc == Accepted(en, gnt, rv, ready) IN
    /\ fetch_pc_q' = pc
    /\ count_q' = 0
    /\ wr_ptr_q' = 0
    /\ rd_ptr_q' = 0
    /\ IF acc
       THEN /\ pending_pc_q' = fetch_pc_q
            /\ outstanding_q' = TRUE
            /\ discard_q' = TRUE
       ELSE /\ outstanding_q' = (outstanding_q /\ ~rv)
            /\ discard_q' = IF RespNow(rv) THEN FALSE
                            ELSE discard_q \/ outstanding_q
            /\ UNCHANGED pending_pc_q
    /\ flight' = Stale(Answered(rv) \o Issued(acc))
    /\ pos' = pc
    /\ UNCHANGED <<buf, deny>>

\* An ordinary cycle: a response may land, a request may be granted, a
\* denied word may be injected and the execute stage may take a word, all
\* at the same edge.
Advance(en, gnt, rv, resp, ready) ==
    LET acc   == Accepted(en, gnt, rv, ready)
        inj   == FaultInject(en, rv, ready)
        fill  == Fill(rv)
        other == IF fill THEN 1 - wr_ptr_q ELSE wr_ptr_q   \* fault_wptr
        landed == [pc |-> pending_pc_q, word |-> resp.word, err |-> resp.err,
                   fresh |-> flight # << >> /\ Head(flight).fresh]
        denied == [pc |-> fetch_pc_q, word |-> ZeroWord, err |-> TRUE,
                   fresh |-> TRUE]
    IN
    /\ outstanding_q' = (acc \/ (outstanding_q /\ ~rv))
    /\ discard_q' = DiscardNext(rv)
    /\ pending_pc_q' = IF acc THEN fetch_pc_q ELSE pending_pc_q
    /\ fetch_pc_q' = IF acc \/ inj THEN NextPc[fetch_pc_q] ELSE fetch_pc_q
    /\ buf' = [s \in Slot |-> IF inj /\ s = other THEN denied
                              ELSE IF fill /\ s = wr_ptr_q THEN landed
                              ELSE buf[s]]
    /\ wr_ptr_q' = IF inj THEN 1 - other
                   ELSE IF fill THEN 1 - wr_ptr_q ELSE wr_ptr_q
    /\ rd_ptr_q' = IF Consume(ready) THEN 1 - rd_ptr_q ELSE rd_ptr_q
    /\ count_q' = count_q + One(fill) + One(inj) - One(Consume(ready))
    /\ flight' = Answered(rv) \o Issued(acc)
    /\ pos' = IF Consume(ready) THEN NextPc[pos] ELSE pos
    /\ UNCHANGED deny

\* Software rewrites the PMP registers; prefetched words keep the verdict
\* they were fetched under.
PmpWrite ==
    /\ deny' \in DenySets
    /\ UNCHANGED <<stageVars, flight, pos>>

AdvanceStep ==
    \E en, gnt, rv, ready \in BOOLEAN, resp \in Response :
        BusAnswer(rv, resp) /\ Advance(en, gnt, rv, resp, ready)
RedirectStep ==
    \E pc \in Pc, en, gnt, rv, ready \in BOOLEAN :
        (rv => flight # << >>) /\ Redirect(pc, en, gnt, rv, ready)

Next == AdvanceStep \/ RedirectStep \/ PmpWrite

Spec == Init /\ [][Next]_vars

\* The bus grants and answers in the end, and the core keeps the fetch
\* enable up: the arbiter favours the data master, whose accesses end.
Granted == \E rv, ready \in BOOLEAN, resp \in Response :
              BusAnswer(rv, resp) /\ Advance(TRUE, TRUE, rv, resp, ready)
Replied == \E en, gnt, ready \in BOOLEAN, resp \in Response :
              BusAnswer(TRUE, resp) /\ Advance(en, gnt, TRUE, resp, ready)
FairSpec == Spec /\ WF_vars(Granted) /\ WF_vars(Replied)

-----------------------------------------------------------------------------

TypeOK ==
    /\ fetch_pc_q \in Pc
    /\ pending_pc_q \in Pc
    /\ outstanding_q \in BOOLEAN
    /\ discard_q \in BOOLEAN
    /\ wr_ptr_q \in Slot
    /\ rd_ptr_q \in Slot
    /\ count_q \in 0..2
    /\ buf \in [Slot -> Entry]
    /\ deny \in SUBSET Pc
    /\ flight \in Seq(Transaction)
    /\ pos \in Pc

\* The stage never has two transactions on the bus, and its outstanding
\* flag says exactly whether it has one: the bus routes responses by one
\* owner bit per slave and would misroute the second.
SingleOutstanding ==
    /\ Len(flight) <= 1
    /\ outstanding_q <=> flight # << >>

\* A response always has a buffer slot to land in, with an injected fault
\* beside it: buffered words plus the one in flight never exceed two, so
\* the two-bit sums of the flow control never wrap either.
RoomToLand == count_q + One(outstanding_q) <= 2

\* The word handed to the execute stage is the next one of the stream: the
\* right address, the content of that address unless marked as an error,
\* and nothing requested before the latest redirect.
InOrder ==
    Valid => LET e == buf[rd_ptr_q] IN
        /\ e.pc = pos
        /\ e.fresh
        /\ e.word = pos \/ (e.err /\ e.word \in Garbage)

\* The prefetcher, seen at its output, is the word stream.
offered == IF Valid THEN {buf[rd_ptr_q]} ELSE {}
Stream == INSTANCE FetchStream WITH offer <- offered
StreamSpec == Stream!Spec

\* Unless redirects keep coming, words keep coming: no combination of
\* discards, denials and stalls leaves the prefetcher idle for ever.
KeepsDelivering ==
    []<>Valid \/ []<><<RedirectStep>>_vars

=============================================================================
