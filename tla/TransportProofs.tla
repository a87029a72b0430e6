-------------------------- MODULE TransportProofs --------------------------
(***************************************************************************)
(* What the units that carry words and requests promise, for every set of  *)
(* addresses, every bus timing and every length of the synchronisers:      *)
(*   IfStage   where every register stands relative to the address `pos'   *)
(*             the stream must deliver next: the buffered words, the live  *)
(*             transaction and the next request are consecutive from there *)
(*   Align     the half the realigner holds is the first of the next       *)
(*             instruction                                                 *)
(*   Bridge    one token between the two clocks: an edge in one of the two *)
(*             synchronisers, the pulse between them, or none              *)
(*   Tap       the selected register is the last bits of a scan            *)
(*   Debug     the token again, and the answer is to the last request      *)
(***************************************************************************)
EXTENDS MCTransport, TLAPS

-----------------------------------------------------------------------------
(* The prefetcher.                                                          *)

\* The n-th address ahead of the stream position, for n up to 2.
Ahead(n) == IF n = 0 THEN pos
            ELSE IF n = 1 THEN NextPc[pos] ELSE NextPc[NextPc[pos]]

Live == outstanding_q /\ ~discard_q

\* A buffer entry that may be delivered for address p.
Good(e, p) ==
    /\ e.pc = p
    /\ e.fresh = TRUE
    /\ e.word = p \/ (e.err = TRUE /\ e.word \in Garbage)

Regs ==
    /\ fetch_pc_q \in Pc
    /\ pending_pc_q \in Pc
    /\ outstanding_q \in BOOLEAN
    /\ discard_q \in BOOLEAN
    /\ wr_ptr_q \in Slot
    /\ rd_ptr_q \in Slot
    /\ count_q \in 0..2
    /\ buf \in [Slot -> Entry]
    /\ deny \in SUBSET Pc
    /\ pos \in Pc

InFlight ==
    flight = IF outstanding_q
             THEN << [addr |-> pending_pc_q, fresh |-> ~discard_q] >>
             ELSE << >>

Discarding == discard_q => outstanding_q /\ count_q = 0
Room == count_q + One(outstanding_q) <= 2
Pointers == (wr_ptr_q = rd_ptr_q) <=> (count_q # 1)

Buffered ==
    /\ count_q >= 1 => Good(buf[rd_ptr_q], pos)
    /\ count_q = 2 => Good(buf[1 - rd_ptr_q], NextPc[pos])

Consecutive ==
    /\ Live => pending_pc_q = Ahead(count_q)
    /\ fetch_pc_q = Ahead(count_q + One(Live))

IInv ==
    /\ Regs
    /\ InFlight
    /\ Discarding
    /\ Room
    /\ Pointers
    /\ Buffered
    /\ Consecutive

-----------------------------------------------------------------------------
\* Sequences of at most one transaction: answering, issuing and marking.
LEMMA OneTail == ASSUME NEW t PROVE Tail(<< t >>) = << >>
  OBVIOUS

LEMMA NoneBefore == ASSUME NEW t PROVE << >> \o << t >> = << t >>
  OBVIOUS

LEMMA NoneAtAll == << >> \o << >> = << >>
  OBVIOUS

LEMMA NoneAfter == ASSUME NEW t PROVE << t >> \o << >> = << t >>
  OBVIOUS

LEMMA StaleOne ==
  ASSUME NEW t
  PROVE  Stale(<< t >>) = << [t EXCEPT !.fresh = FALSE] >>
<1> DEFINE u == [t EXCEPT !.fresh = FALSE]
<1>1. \A i \in 1..1 : << t >>[i] = t
  OBVIOUS
<1>2. DOMAIN << t >> = 1..1
  OBVIOUS
<1>3. Stale(<< t >>) = [i \in 1..1 |-> u]
  BY <1>1, <1>2 DEF Stale
<1> HIDE DEF u
<1>4. << u >> = [i \in 1..1 |-> u]
  OBVIOUS
<1>5. QED BY <1>3, <1>4 DEF u

LEMMA StaleNone == Stale(<< >>) = << >>
  BY DEF Stale

\* The reset state satisfies the invariant.
LEMMA InitInv == Init => IInv
<1> SUFFICES ASSUME Init PROVE IInv
  OBVIOUS
<1> USE PcAssumption DEF Init
<1>1. Regs
  BY DEF Regs, Slot, Entry
<1>2. InFlight /\ Discarding /\ Room /\ Pointers
  BY DEF InFlight, Discarding, Room, Pointers, One
<1>3. Buffered /\ Consecutive
  BY DEF Buffered, Consecutive, Ahead, Live, One
<1>4. QED BY <1>1, <1>2, <1>3 DEF IInv

\* A redirect empties the buffer and leaves at most one transaction, marked.
LEMMA RedirectInv ==
  ASSUME IInv, NEW pc \in Pc, NEW en \in BOOLEAN, NEW gnt \in BOOLEAN,
         NEW rv \in BOOLEAN, NEW ready \in BOOLEAN,
         rv => flight # << >>, Redirect(pc, en, gnt, rv, ready)
  PROVE  IInv'
<1> USE PcAssumption
<1> DEFINE acc == Accepted(en, gnt, rv, ready)
<1> USE DEF IInv
<1>1. rv => outstanding_q
  BY DEF InFlight
<1>2. acc \in BOOLEAN /\ (acc => ~outstanding_q \/ rv)
  BY DEF Accepted, WantFetch, RespNow, Allowed
<1>3. Regs'
  BY <1>2, SMTT(30) DEF Regs, Redirect, RespNow, Slot
<1>4. Discarding' /\ Room' /\ Pointers' /\ Buffered'
  <2>1. count_q' = 0 /\ wr_ptr_q' = 0 /\ rd_ptr_q' = 0
    BY DEF Redirect
  <2>2. discard_q' => outstanding_q'
    BY <1>1, <1>2 DEF Regs, Redirect, RespNow, Discarding
  <2>3. Discarding'
    BY <2>1, <2>2 DEF Discarding
  <2>4. Room'
    BY <2>1 DEF Room, One
  <2>5. Pointers' /\ Buffered'
    BY <2>1 DEF Pointers, Buffered
  <2>6. QED BY <2>3, <2>4, <2>5
<1>5. outstanding_q' => discard_q'
  BY <1>1, <1>2 DEF Regs, Redirect, RespNow, Discarding
<1>6. Consecutive'
  BY <1>5 DEF Redirect, Consecutive, Live, Ahead, One
<1>7. InFlight'
  <2>1. CASE acc
    <3>1. Answered(rv) = << >>
      BY <2>1, <1>2, OneTail DEF InFlight, Answered
    <3>2. flight' = << [addr |-> fetch_pc_q, fresh |-> FALSE] >>
      BY <2>1, <3>1, NoneBefore, StaleOne DEF Redirect, Issued
    <3>3. QED BY <2>1, <3>2 DEF InFlight, Redirect
  <2>2. CASE ~acc /\ outstanding_q /\ ~rv
    <3>1. flight' = << [addr |-> pending_pc_q, fresh |-> FALSE] >>
      BY <2>2, NoneAfter, StaleOne DEF InFlight, Redirect, Answered, Issued
    <3>2. QED BY <2>2, <3>1, <1>5 DEF InFlight, Redirect, Regs
  <2>3. CASE ~acc /\ (rv \/ ~outstanding_q)
    <3>1. Answered(rv) = << >>
      BY <2>3, <1>1, OneTail DEF InFlight, Answered
    <3>2. flight' = << >>
      BY <2>3, <3>1, NoneAtAll, StaleNone DEF Redirect, Issued
    <3>3. QED BY <2>3, <3>2 DEF InFlight, Redirect
  <2>4. QED BY <2>1, <2>2, <2>3, <1>2
<1>8. QED BY <1>3, <1>4, <1>6, <1>7

-----------------------------------------------------------------------------
\* One ordinary cycle.  Three independent events decide it: a live response
\* lands (fill), a word enters the pipeline of requests (acc on the bus, inj
\* as an injected fault) and the consumer takes a word.

LEMMA AdvanceInv ==
  ASSUME IInv, NEW en \in BOOLEAN, NEW gnt \in BOOLEAN, NEW rv \in BOOLEAN,
         NEW resp \in Response, NEW ready \in BOOLEAN,
         BusAnswer(rv, resp), Advance(en, gnt, rv, resp, ready)
  PROVE  IInv'
<1> USE PcAssumption
<1> DEFINE acc == Accepted(en, gnt, rv, ready)
           inj == FaultInject(en, rv, ready)
           fill == Fill(rv)
           take == Consume(ready)
           left == count_q - One(take)
<1> USE DEF IInv
<1>1. /\ rv => outstanding_q
      /\ rv => flight = << [addr |-> pending_pc_q, fresh |-> ~discard_q] >>
  BY DEF InFlight, BusAnswer
<1>2. /\ acc \in BOOLEAN /\ inj \in BOOLEAN /\ fill \in BOOLEAN
      /\ take \in BOOLEAN
      /\ fill <=> rv /\ ~discard_q
      /\ take => count_q # 0
      /\ ~(acc /\ inj)
  BY <1>1 DEF Accepted, FaultInject, WantFetch, RespNow, Allowed, Fill,
              Consume, Valid, Regs
<1>3. acc \/ inj => /\ ~outstanding_q \/ rv
                    /\ left + One(fill) <= 1
  BY <1>1, <1>2 DEF Accepted, FaultInject, WantFetch, OccupancyNext, RespNow,
                    Fill, One, Regs, Discarding
<1>4. /\ left \in 0..2
      /\ count_q' = left + One(fill) + One(inj)
      /\ count_q' \in 0..2
  BY <1>1, <1>2, <1>3 DEF Regs, Advance, One, Discarding, Room
<1>5. fill => /\ resp.word = pending_pc_q \/ (resp.err /\ resp.word \in Garbage)
              /\ flight # << >> /\ Head(flight).fresh
  <2>1. rv => Head(flight) = [addr |-> pending_pc_q, fresh |-> ~discard_q]
    BY <1>1
  <2>2. rv => /\ Head(flight).addr = pending_pc_q
              /\ Head(flight).fresh = ~discard_q
    BY <2>1
  <2>3. fill => Head(flight).fresh = TRUE
    BY <2>2, <1>2
  <2>4. fill => /\ flight # << >>
                /\ \/ resp.word = Head(flight).addr
                   \/ resp.err /\ resp.word \in Garbage
    BY <1>1, <1>2 DEF BusAnswer
  <2>5. QED BY <2>2, <2>3, <2>4, <1>2
<1>6. Regs'
  BY <1>2, <1>4 DEF Regs, Advance, Slot, Entry, Response, DiscardNext, RespNow
<1>7. Discarding' /\ Room' /\ Pointers'
  BY <1>1, <1>2, <1>3, <1>4
  DEF Regs, Advance, Slot, DiscardNext, RespNow, Discarding, Room, Pointers, One
<1>8. InFlight'
  <2>1. CASE acc
    <3>1. Answered(rv) = << >>
      BY <2>1, <1>1, <1>3, OneTail DEF InFlight, Answered
    <3>2. discard_q' = FALSE
      BY <2>1, <1>1, <1>3 DEF Advance, DiscardNext, RespNow, Discarding, Regs
    <3>3. flight' = << [addr |-> fetch_pc_q, fresh |-> TRUE] >>
      BY <2>1, <3>1, NoneBefore DEF Advance, Issued
    <3>4. QED BY <2>1, <3>2, <3>3 DEF InFlight, Advance
  <2>2. CASE ~acc /\ outstanding_q /\ ~rv
    <3>1. flight' = flight
      BY <2>2, NoneAfter DEF InFlight, Advance, Answered, Issued
    <3>2. QED BY <2>2, <3>1 DEF InFlight, Advance, DiscardNext, RespNow, Regs
  <2>3. CASE ~acc /\ (rv \/ ~outstanding_q)
    <3>1. Answered(rv) = << >>
      BY <2>3, <1>1, OneTail DEF InFlight, Answered
    <3>2. flight' = << >>
      BY <2>3, <3>1, NoneAtAll DEF Advance, Issued
    <3>3. QED BY <2>3, <3>2 DEF InFlight, Advance
  <2>4. QED BY <2>1, <2>2, <2>3, <1>2
<1>9. /\ Live' <=> acc \/ (outstanding_q /\ ~rv /\ ~discard_q)
      /\ Live' \in BOOLEAN
  BY <1>1, <1>2, <1>3 DEF Live, Advance, DiscardNext, RespNow, Regs, Discarding
<1>10. Ahead(count_q + One(Live))' = IF acc \/ inj THEN NextPc[fetch_pc_q]
                                     ELSE fetch_pc_q
  BY <1>1, <1>2, <1>3, <1>4, <1>9
  DEF Ahead, Advance, Consecutive, One, Regs, Live, Discarding, Room
<1>11. Live' => pending_pc_q' = Ahead(count_q)'
  BY <1>1, <1>2, <1>3, <1>4, <1>9
  DEF Ahead, Advance, Consecutive, One, Regs, Live, Discarding, Room
<1>12. Consecutive'
  BY <1>10, <1>11 DEF Consecutive, Advance
<1>13. Buffered'
  <2> DEFINE other == IF fill THEN 1 - wr_ptr_q ELSE wr_ptr_q
             landed == [pc |-> pending_pc_q, word |-> resp.word, err |-> resp.err,
                        fresh |-> flight # << >> /\ Head(flight).fresh]
             denied == [pc |-> fetch_pc_q, word |-> ZeroWord, err |-> TRUE,
                        fresh |-> TRUE]
  <2>1. /\ buf' = [s \in Slot |-> IF inj /\ s = other THEN denied
                                 ELSE IF fill /\ s = wr_ptr_q THEN landed
                                 ELSE buf[s]]
        /\ rd_ptr_q' = IF take THEN 1 - rd_ptr_q ELSE rd_ptr_q
        /\ pos' = IF take THEN NextPc[pos] ELSE pos
    BY DEF Advance
  <2>2. fill => Good(landed, Ahead(count_q)) /\ count_q <= 1
    <3>1. fill => Good(landed, pending_pc_q)
      BY <1>5 DEF Good, Response
    <3>2. fill => pending_pc_q = Ahead(count_q) /\ count_q <= 1
      BY <1>1, <1>2 DEF Consecutive, Live, Room, One, Regs
    <3> QED BY <3>1, <3>2
  <2>3. inj => Good(denied, Ahead(count_q + One(fill)))
    <3>1. inj => fetch_pc_q = Ahead(count_q + One(fill))
      BY <1>1, <1>2, <1>3 DEF Consecutive, Live, One, Regs
    <3> QED BY <3>1 DEF Good
  <2> HIDE DEF landed, denied, inj, fill, take
  <2>4. /\ rd_ptr_q \in {0, 1} /\ wr_ptr_q \in {0, 1} /\ count_q \in {0, 1, 2}
        /\ wr_ptr_q = IF count_q = 1 THEN 1 - rd_ptr_q ELSE rd_ptr_q
    BY DEF Regs, Slot, Pointers
  <2>5. CASE take
    BY <1>2, <1>3, <1>4, <2>1, <2>2, <2>3, <2>4, <2>5 DEF Buffered, Ahead, One, Slot
  <2>6. CASE ~take
    BY <1>2, <1>3, <1>4, <2>1, <2>2, <2>3, <2>4, <2>6 DEF Buffered, Ahead, One, Slot
  <2> QED BY <2>5, <2>6
<1>14. QED BY <1>6, <1>7, <1>8, <1>12, <1>13

-----------------------------------------------------------------------------
\* Software rewriting the PMP touches nothing the invariant mentions but the
\* denied set.
LEMMA PmpWriteInv == IInv /\ PmpWrite => IInv'
<1> SUFFICES ASSUME IInv, PmpWrite PROVE IInv'
  OBVIOUS
<1>1. UNCHANGED <<stageVars, flight, pos>> /\ deny' \in DenySets
  BY DEF PmpWrite
<1>2. Regs'
  BY <1>1, PcAssumption DEF stageVars, IInv, Regs
<1>3. InFlight' /\ Discarding' /\ Room' /\ Pointers'
  BY <1>1 DEF stageVars, IInv, InFlight, Discarding, Room, Pointers, One
<1>4. Buffered' /\ Consecutive'
  BY <1>1 DEF stageVars, IInv, Buffered, Consecutive, Ahead, Live, One
<1> QED BY <1>2, <1>3, <1>4 DEF IInv

LEMMA NextInv == IInv /\ [Next]_vars => IInv'
<1> SUFFICES ASSUME IInv, [Next]_vars PROVE IInv'
  OBVIOUS
<1>1. CASE AdvanceStep
  BY <1>1, AdvanceInv DEF AdvanceStep
<1>2. CASE RedirectStep
  BY <1>2, RedirectInv DEF RedirectStep
<1>3. CASE PmpWrite
  BY <1>3, PmpWriteInv
<1>4. CASE UNCHANGED vars
  BY <1>4
  DEF vars, stageVars, IInv, Regs, InFlight, Discarding, Room, Pointers,
      Buffered, Consecutive, Ahead, Live, Good, One
<1>5. QED BY <1>1, <1>2, <1>3, <1>4 DEF Next

\* The inductive invariant holds in every reachable state.
THEOREM Invariance == Spec => []IInv
  BY InitInv, NextInv, PTL DEF Spec

-----------------------------------------------------------------------------
\* Type correctness: the two-entry buffer count never leaves 0..2, whatever
\* the order of fills, injections and consumption.
THEOREM TypeCorrect == Spec => []TypeOK
<1>1. IInv => TypeOK
  <2> SUFFICES ASSUME IInv PROVE TypeOK
    OBVIOUS
  <2>1. Regs => [addr |-> pending_pc_q, fresh |-> ~discard_q] \in Transaction
    BY DEF Regs, Transaction
  <2>2. flight \in Seq(Transaction)
    BY <2>1 DEF IInv, InFlight
  <2>3. QED BY <2>2 DEF IInv, Regs, TypeOK
<1>2. QED BY <1>1, Invariance, PTL

\* One transaction on the bus at most, and outstanding_q knows of it.
THEOREM OneOutstanding == Spec => []SingleOutstanding
<1>1. IInv => SingleOutstanding
  BY DEF IInv, Regs, InFlight, SingleOutstanding
<1>2. QED BY <1>1, Invariance, PTL

\* Every response has a free buffer slot to land in.
THEOREM RoomForResponse == Spec => []RoomToLand
<1>1. IInv => RoomToLand
  BY DEF IInv, Room, RoomToLand
<1>2. QED BY <1>1, Invariance, PTL

\* The execute stage is handed the next word of the stream and no other.
THEOREM DeliveredInOrder == Spec => []InOrder
<1>1. IInv => InOrder
  BY DEF IInv, Regs, Buffered, Good, InOrder, Valid
<1>2. QED BY <1>1, Invariance, PTL

-----------------------------------------------------------------------------
\* The stage implements the word stream.

OnOffer == \E w \in Stream!Words(pos) : offered = {w}

LEMMA OfferedWord == IInv /\ Valid => OnOffer
<1> SUFFICES ASSUME IInv, Valid PROVE OnOffer
  OBVIOUS
<1>1. /\ Good(buf[rd_ptr_q], pos)
      /\ buf[rd_ptr_q] \in Entry
  BY DEF IInv, Regs, Buffered, Valid
<1>2. buf[rd_ptr_q] \in Stream!Words(pos)
  BY <1>1 DEF Good, Entry, Stream!Words
<1>3. QED BY <1>2 DEF offered, OnOffer

LEMMA AdvanceStreams ==
  ASSUME IInv, IInv', NEW en \in BOOLEAN, NEW gnt \in BOOLEAN,
         NEW rv \in BOOLEAN, NEW resp \in Response, NEW ready \in BOOLEAN,
         Advance(en, gnt, rv, resp, ready)
  PROVE  Stream!Next \/ UNCHANGED Stream!streamVars
<1>1. Valid' => OnOffer'
  <2>1. (IInv /\ Valid => OnOffer)'
    BY OfferedWord, PTL
  <2>2. QED BY <2>1
<1>2. ~Valid' => offered' = {}
  BY DEF offered
<1>3. CASE Consume(ready)
  <2>1. pos' = NextPc[pos]
    BY <1>3 DEF Advance
  <2>2. offered # {}
    BY <1>3 DEF Consume, offered
  <2>3. Stream!Take
    BY <1>1, <1>2, <2>1, <2>2 DEF Stream!Take, OnOffer
  <2>4. QED BY <2>3 DEF Stream!Next
<1>4. CASE ~Consume(ready) /\ Valid
  <2>1. /\ pos' = pos
        /\ rd_ptr_q' = rd_ptr_q
        /\ count_q' \in 1..2
    BY <1>4 DEF Advance, IInv, Regs, Valid, One
  <2>2. buf'[rd_ptr_q] = buf[rd_ptr_q]
    BY <1>4
    DEF Advance, IInv, Regs, Slot, Valid, Pointers, FaultInject, WantFetch,
        OccupancyNext, RespNow, Fill, One, Room, Consume, Discarding
  <2>3. offered' = offered
    BY <1>4, <2>1, <2>2 DEF offered, Valid
  <2>4. QED BY <2>1, <2>3 DEF Stream!streamVars
<1>5. CASE ~Valid
  <2>1. pos' = pos /\ offered = {}
    BY <1>5 DEF Advance, Consume, offered
  <2>2. Stream!Offer \/ offered' = {}
    BY <1>1, <1>2, <2>1 DEF Stream!Offer, OnOffer
  <2>3. QED BY <2>1, <2>2 DEF Stream!Next, Stream!streamVars
<1>6. QED BY <1>3, <1>4, <1>5

\* Seen at its output the prefetcher is the word stream, for every memory,
\* every bus timing and every sequence of redirects.
THEOREM Implements == Spec => StreamSpec
<1>1. Init => Stream!Init
  BY PcAssumption DEF Init, Stream!Init, offered, Valid
<1>2. IInv /\ IInv' /\ [Next]_vars => [Stream!Next]_(Stream!streamVars)
  <2> SUFFICES ASSUME IInv, IInv', [Next]_vars
               PROVE  Stream!Next \/ UNCHANGED Stream!streamVars
    OBVIOUS
  <2>1. CASE AdvanceStep
    BY <2>1, AdvanceStreams DEF AdvanceStep
  <2>2. CASE RedirectStep
    <3>1. pos' \in Pc /\ offered' = {}
      BY <2>2 DEF RedirectStep, Redirect, offered, Valid
    <3>2. QED BY <3>1 DEF Stream!Next, Stream!Redirect
  <2>3. CASE PmpWrite \/ UNCHANGED vars
    BY <2>3 DEF PmpWrite, vars, stageVars, offered, Valid, Stream!streamVars
  <2>4. QED BY <2>1, <2>2, <2>3 DEF Next
<1>3. QED BY <1>1, <1>2, Invariance, PTL DEF Spec, StreamSpec, Stream!Spec

-----------------------------------------------------------------------------
(* The realigner.                                                           *)

AlignWords == Align!Words!Words(word_pos)
Offering == word_offer = {} \/ \E w \in AlignWords : word_offer = {w}

\* Without a held half the next instruction begins at half_q of the word the
\* stream has reached; with one it began in the word before.
InPlace == ~strad_q => half_q \in {0, 1} /\ ipc = <<word_pos, half_q>>
HeldIsFirst ==
    strad_q => /\ half_q = 0
               /\ strad.pc = ipc
               /\ \E p \in Pc : ipc = <<p, 1>> /\ word_pos = NextPc[p]
               /\ strad.err \in BOOLEAN
               /\ strad.err \/ (strad.hw = ipc /\ ipc \in long)

AlignInv ==
    /\ word_pos \in Pc /\ strad_q \in BOOLEAN
    /\ Offering /\ InPlace /\ HeldIsFirst

OnlyNext ==
    \/ Align!offeredInstr = {}
    \/ \E i \in Align!Program!Instructions(ipc) : Align!offeredInstr = {i}

LEMMA WordAt ==
    ASSUME NEW p, NEW w \in Align!Words!Words(p)
    PROVE  w.pc = p /\ w.err \in BOOLEAN /\ (~w.err => w.word = p)
<1>1. CASE \E e \in BOOLEAN : w = [pc |-> p, word |-> p, err |-> e, fresh |-> TRUE]
    BY <1>1
<1>2. CASE \E g \in Garbage : w = [pc |-> p, word |-> g, err |-> TRUE, fresh |-> TRUE]
    BY <1>2
<1> QED BY <1>1, <1>2 DEF Align!Words!Words

\* What is offered is the next instruction of the program, or an error.
LEMMA OffersNext ==
    ASSUME Align!AlignAssumption, AlignInv
    PROVE  OnlyNext
<1>1. CASE word_offer = {}
    BY <1>1 DEF OnlyNext, Align!offeredInstr, Align!Outputs
<1>2. ASSUME NEW w \in AlignWords, word_offer = {w}
      PROVE  OnlyNext
    <2>1. /\ w.pc = word_pos /\ w.err \in BOOLEAN
          /\ ~w.err => w.word = word_pos
        BY WordAt DEF AlignWords
    <2>2. CASE Align!StartStraddle(w)
        BY <1>2, <2>2 DEF OnlyNext, Align!offeredInstr, Align!Outputs
    <2>3. CASE ~Align!StartStraddle(w)
        <3> DEFINE o == Align!Output(w)
                   i == [pc |-> o.pc, err |-> o.err,
                         parcels |-> IF o.err THEN << >> ELSE o.parcels]
        <3>1. Align!offeredInstr = {i}
            BY <1>2, <2>3 DEF Align!offeredInstr, Align!Outputs
        <3>2. o.pc = ipc
            BY <2>1 DEF AlignInv, InPlace, HeldIsFirst, Align!Output, Align!EmitStraddle,
                        Align!HwPc
        <3>3. o.err \in BOOLEAN /\ o.err = Align!Error(w)
            BY <2>1 DEF AlignInv, HeldIsFirst, Align!Output, Align!Error, Align!EmitStraddle
        <3>4. ~o.err => o.parcels = Align!Program!Parcels(ipc)
            <4>1. SUFFICES ASSUME ~o.err PROVE o.parcels = Align!Program!Parcels(ipc)
                OBVIOUS
            <4>2. w.word = word_pos /\ ~w.err /\ (strad_q => ~strad.err)
                BY <2>1, <3>3, <4>1 DEF Align!Error, Align!EmitStraddle
            <4>3. CASE strad_q
                <5>1. PICK p \in Pc : ipc = <<p, 1>> /\ word_pos = NextPc[p]
                    BY <4>3 DEF AlignInv, HeldIsFirst
                <5>2. Align!Program!Parcels(ipc) = <<ipc, <<word_pos, 0>> >>
                    BY <4>2, <4>3, <5>1
                    DEF AlignInv, HeldIsFirst, Align!Program!Parcels, Align!Program!After
                <5> QED BY <4>2, <4>3, <5>2
                        DEF AlignInv, HeldIsFirst, Align!Output, Align!EmitStraddle
            <4>4. CASE ~strad_q /\ ipc \notin long
                BY <4>2, <4>4 DEF AlignInv, InPlace, Align!Output, Align!EmitStraddle,
                    Align!EmitCompressed, Align!Uncompressed, Align!Hw, Align!Program!Parcels
            <4>5. CASE ~strad_q /\ ipc \in long
                <5>1. half_q = 0 /\ ipc = <<word_pos, 0>>
                    BY <2>3, <4>2, <4>5 DEF AlignInv, InPlace, Align!StartStraddle,
                        Align!Uncompressed, Align!Hw
                <5>2. Align!Program!Parcels(ipc) = << <<word_pos, 0>>, <<word_pos, 1>> >>
                    BY <4>5, <5>1 DEF Align!Program!Parcels, Align!Program!After
                <5> QED BY <4>2, <4>5, <5>1, <5>2 DEF Align!Output, Align!EmitStraddle,
                    Align!EmitCompressed, Align!Uncompressed, Align!Hw
            <4> QED BY <4>3, <4>4, <4>5 DEF AlignInv
        <3>5. i \in Align!Program!Instructions(ipc)
            BY <3>2, <3>3, <3>4 DEF Align!Program!Instructions
        <3> QED BY <3>1, <3>5 DEF OnlyNext
    <2> QED BY <2>2, <2>3
<1> QED BY <1>1, <1>2 DEF AlignInv, Offering

LEMMA AlignKept ==
    ASSUME Align!AlignAssumption, AlignInv, [Align!Next]_(Align!vars)
    PROVE  AlignInv'
<1>1. CASE UNCHANGED Align!vars
    BY <1>1 DEF Align!vars, Align!alignVars, AlignInv, Offering, AlignWords, InPlace,
                HeldIsFirst, Align!Words!Words
<1>2. ASSUME Align!Words!Take PROVE word_pos' = NextPc[word_pos] /\ word_pos' \in Pc /\ Offering'
    BY <1>2 DEF Align!Words!Take, AlignInv, Align!AlignAssumption, Offering, AlignWords,
                Align!Words!Words
<1>3. CASE Align!WordArrives
    <2>1. /\ UNCHANGED <<word_pos, half_q, strad_q, strad, long, ipc>>
          /\ \E w \in Align!Words!Words(word_pos) : word_offer' = {w}
        BY <1>3 DEF Align!WordArrives, Align!Words!Offer, Align!alignVars
    <2>2. Offering'
        BY <2>1 DEF Offering, AlignWords, Align!Words!Words
    <2> QED BY <2>1, <2>2 DEF AlignInv, InPlace, HeldIsFirst
<1>4. CASE Align!HoldLowHalf
    <2>1. PICK w \in word_offer :
              /\ Align!StartStraddle(w)
              /\ strad' = [hw |-> Align!Hw(w), pc |-> Align!HwPc(w), err |-> w.err]
        BY <1>4 DEF Align!HoldLowHalf
    <2>2. w \in Align!Words!Words(word_pos)
        BY <2>1 DEF AlignInv, Offering, AlignWords
    <2>3. w.pc = word_pos /\ w.err \in BOOLEAN /\ (~w.err => w.word = word_pos)
        BY <2>2, WordAt
    <2>4. strad_q' = TRUE /\ half_q' = 0 /\ long' = long /\ ipc' = ipc /\ Align!Words!Take
        BY <1>4 DEF Align!HoldLowHalf
    <2>5. half_q = 1 /\ ~strad_q /\ ipc = <<word_pos, 1>> /\ word_pos \in Pc
        BY <2>1 DEF Align!StartStraddle, AlignInv, InPlace
    <2>6. HeldIsFirst'
        BY <1>2, <2>1, <2>3, <2>4, <2>5
        DEF HeldIsFirst, Align!StartStraddle, Align!Uncompressed, Align!Hw, Align!HwPc
    <2> QED BY <1>2, <2>4, <2>6 DEF AlignInv, InPlace
<1>5. CASE Align!AcceptStraddle
    <2>1. PICK w \in word_offer : Align!EmitStraddle(w) /\ ~Align!Error(w)
        BY <1>5 DEF Align!AcceptStraddle
    <2>2. /\ strad_q /\ strad_q' = FALSE /\ half_q' = 1
          /\ ipc' = Align!After(Align!After(ipc))
          /\ UNCHANGED <<strad, word_pos, word_offer, long>>
        BY <1>5, <2>1 DEF Align!AcceptStraddle, Align!EmitStraddle
    <2>3. ipc' = <<word_pos, 1>>
        BY <2>2 DEF AlignInv, HeldIsFirst, Align!After
    <2> QED BY <2>2, <2>3 DEF AlignInv, Offering, AlignWords, InPlace, HeldIsFirst,
                              Align!Words!Words
<1>6. CASE Align!AcceptCompressed
    <2>1. /\ ~strad_q /\ half_q' = 1 - half_q /\ ipc' = Align!After(ipc)
          /\ UNCHANGED <<strad_q, strad, long>>
          /\ IF half_q = 1 THEN Align!Words!Take ELSE UNCHANGED <<word_pos, word_offer>>
        BY <1>6 DEF Align!AcceptCompressed, Align!EmitCompressed, Align!OtherHalf
    <2>2. half_q \in {0, 1} /\ ipc = <<word_pos, half_q>>
        BY <2>1 DEF AlignInv, InPlace
    <2>3. CASE half_q = 1
        BY <1>2, <2>1, <2>2, <2>3 DEF AlignInv, InPlace, HeldIsFirst, Align!After
    <2>4. CASE half_q = 0
        BY <2>1, <2>2, <2>4 DEF AlignInv, InPlace, HeldIsFirst, Align!After, Offering,
                                AlignWords, Align!Words!Words
    <2> QED BY <2>2, <2>3, <2>4
<1>7. CASE Align!AcceptFull
    <2>1. /\ ~strad_q /\ half_q = 0 /\ ipc' = Align!After(Align!After(ipc))
          /\ UNCHANGED <<strad_q, strad, long, half_q>> /\ Align!Words!Take
        BY <1>7 DEF Align!AcceptFull, Align!EmitFull, Align!alignVars
    <2>2. ipc = <<word_pos, 0>>
        BY <2>1 DEF AlignInv, InPlace
    <2> QED BY <1>2, <2>1, <2>2 DEF AlignInv, InPlace, HeldIsFirst, Align!After
<1>8. ASSUME NEW pc \in Pc, NEW h \in Align!Half, Align!Redirect(pc, h)
      PROVE  AlignInv'
    BY <1>8 DEF Align!Redirect, Align!Words!Redirect, AlignInv, Offering, InPlace,
                HeldIsFirst, Align!Half
<1> QED BY <1>1, <1>3, <1>4, <1>5, <1>6, <1>7, <1>8 DEF Align!Next, Align!Redirected

LEMMA OffersNextThen ==
    ASSUME Align!AlignAssumption
    PROVE  AlignInv' => OnlyNext'
<1>1. AlignInv => OnlyNext
    BY OffersNext
<1> QED BY <1>1, PTL

\* An instruction on offer without an error: it is whole, and what follows it is
\* where the program goes on.
LEMMA AlignStep ==
    ASSUME Align!AlignAssumption, AlignInv, AlignInv', [Align!Next]_(Align!vars)
    PROVE  [Align!Program!Next]_(Align!Program!instrVars)
<1>1. OnlyNext /\ OnlyNext'
    BY OffersNext, OffersNextThen
<1>2. CASE UNCHANGED Align!vars
    BY <1>2 DEF Align!vars, Align!alignVars, Align!Program!instrVars, Align!offeredInstr,
                Align!Outputs, Align!StartStraddle, Align!Uncompressed, Align!Hw, Align!Output,
                Align!EmitStraddle, Align!EmitCompressed, Align!HwPc, Align!Error
<1>3. ASSUME Align!offeredInstr = {}, UNCHANGED <<long, ipc>>
      PROVE  [Align!Program!Next]_(Align!Program!instrVars)
    <2>1. Align!offeredInstr' = {} \/ \E i \in Align!Program!Instructions(ipc) :
                                            Align!offeredInstr' = {i}
        BY <1>1, <1>3
        DEF OnlyNext, Align!Program!Instructions, Align!Program!Parcels, Align!Program!After
    <2> QED BY <1>3, <2>1 DEF Align!Program!Next, Align!Program!Offer, Align!Program!instrVars
<1>4. CASE Align!WordArrives
    BY <1>3, <1>4 DEF Align!WordArrives, Align!Words!Offer, Align!offeredInstr, Align!Outputs
<1>5. CASE Align!HoldLowHalf
    <2>1. \A w \in word_offer : Align!StartStraddle(w)
        BY <1>5 DEF Align!HoldLowHalf, AlignInv, Offering
    <2> QED BY <1>3, <1>5, <2>1 DEF Align!HoldLowHalf, Align!offeredInstr, Align!Outputs
<1>6. ASSUME NEW w \in word_offer, ~Align!StartStraddle(w), ~Align!Error(w),
             ipc' = Align!Program!Following(ipc), UNCHANGED long
      PROVE  Align!Program!Retire
    <2>1. \E i \in Align!offeredInstr : ~i.err
        <3> DEFINE o == Align!Output(w)
                   i == [pc |-> o.pc, err |-> o.err,
                         parcels |-> IF o.err THEN << >> ELSE o.parcels]
        <3>1. o \in Align!Outputs /\ ~o.err
            BY <1>6 DEF Align!Outputs, Align!Output
        <3>2. i \in Align!offeredInstr
            BY <3>1, Zenon DEF Align!offeredInstr
        <3>3. ~i.err
            BY <3>1
        <3> QED BY <3>2, <3>3
    <2>2. \/ Align!offeredInstr' = {}
          \/ \E i \in Align!Program!Instructions(ipc') : Align!offeredInstr' = {i}
        BY <1>1, <1>6
        DEF OnlyNext, Align!Program!Instructions, Align!Program!Parcels, Align!Program!After
    <2> QED BY <1>6, <2>1, <2>2 DEF Align!Program!Retire
<1>7. \A w \in word_offer : ~Align!Error(w) => w.word = word_pos /\ (strad_q => ~strad.err)
    BY WordAt DEF AlignInv, Offering, AlignWords, Align!Error, Align!EmitStraddle
<1>8. CASE Align!AcceptStraddle
    <2>1. PICK w \in word_offer : Align!EmitStraddle(w) /\ ~Align!Error(w)
        BY <1>8 DEF Align!AcceptStraddle
    <2>2. ipc' = Align!Program!Following(ipc)
        BY <1>7, <1>8, <2>1 DEF Align!AcceptStraddle, AlignInv, HeldIsFirst, Align!After,
            Align!Program!Following, Align!Program!After, Align!EmitStraddle
    <2> QED BY <1>6, <1>8, <2>1, <2>2 DEF Align!AcceptStraddle, Align!StartStraddle,
            Align!EmitStraddle, Align!Program!Next
<1>9. CASE Align!AcceptCompressed
    <2>1. PICK w \in word_offer : Align!EmitCompressed(w) /\ ~Align!Error(w)
        BY <1>9 DEF Align!AcceptCompressed
    <2>2. ipc' = Align!Program!Following(ipc)
        BY <1>7, <1>9, <2>1 DEF Align!AcceptCompressed, AlignInv, InPlace, Align!After,
            Align!Program!Following, Align!Program!After, Align!EmitCompressed,
            Align!Uncompressed, Align!Hw
    <2> QED BY <1>6, <1>9, <2>1, <2>2 DEF Align!AcceptCompressed, Align!StartStraddle,
            Align!EmitCompressed, Align!Program!Next
<1>10. CASE Align!AcceptFull
    <2>1. PICK w \in word_offer : Align!EmitFull(w) /\ ~Align!Error(w)
        BY <1>10 DEF Align!AcceptFull
    <2>2. ipc' = Align!Program!Following(ipc)
        BY <1>7, <1>10, <2>1 DEF Align!AcceptFull, AlignInv, InPlace, Align!After,
            Align!Program!Following, Align!Program!After, Align!EmitFull,
            Align!Uncompressed, Align!Hw
    <2> QED BY <1>6, <1>10, <2>1, <2>2 DEF Align!AcceptFull, Align!StartStraddle,
            Align!EmitFull, Align!Program!Next
<1>11. CASE Align!Redirected
    <2>1. /\ ipc' \in Align!Program!Halves /\ word_offer' = {} /\ long' = long
        BY <1>11 DEF Align!Redirected, Align!Redirect, Align!Words!Redirect, Align!Half,
                     Align!Program!Halves
    <2>2. Align!offeredInstr' = {}
        BY <2>1 DEF Align!offeredInstr, Align!Outputs
    <2> QED BY <2>1, <2>2 DEF Align!Program!Next, Align!Program!Redirect
<1> QED BY <1>2, <1>4, <1>5, <1>8, <1>9, <1>10, <1>11 DEF Align!Next

\* The realigner over the word stream is the instruction stream, for every
\* program, every layout of it in memory and every mark of an error: each
\* instruction at its own address, made of the halfwords that encode it.
THEOREM Realigns ==
    ASSUME Align!AlignAssumption
    PROVE  Align!Spec => InstrSpec
<1>1. Align!Init => AlignInv /\ Align!Program!Init
    <2> SUFFICES ASSUME Align!Init PROVE AlignInv /\ Align!Program!Init
        OBVIOUS
    <2>1. /\ word_pos \in Pc /\ ipc = <<word_pos, half_q>> /\ half_q = 0
          /\ strad_q = FALSE /\ word_offer = {}
        BY DEF Align!Init, Align!AlignAssumption
    <2>2. Align!offeredInstr = {}
        BY <2>1 DEF Align!offeredInstr, Align!Outputs
    <2> QED BY <2>1, <2>2 DEF AlignInv, Offering, InPlace, HeldIsFirst, Align!Program!Init,
                              Align!Program!Halves
<1>2. AlignInv /\ [Align!Next]_(Align!vars) => AlignInv'
    BY AlignKept
<1>3. AlignInv /\ AlignInv' /\ [Align!Next]_(Align!vars)
          => [Align!Program!Next]_(Align!Program!instrVars)
    BY AlignStep
<1> QED BY <1>1, <1>2, <1>3, PTL
        DEF Align!Spec, InstrSpec, Align!InstrSpec, Align!Program!Spec

-----------------------------------------------------------------------------
(* The debug crossing.  A toggle and its synchroniser hold no edge, or one    *)
(* that has come as far as the flip-flop k.                                  *)

Still(toggle, chain, last) == last = toggle /\ \A i \in 1..Stages : chain[i] = toggle
EdgeAt(k, toggle, chain, last) ==
    /\ last = ~toggle
    /\ \A i \in 1..Stages : (i <= k => chain[i] = toggle) /\ (i > k => chain[i] = ~toggle)
Moving(toggle, chain, last) == \E k \in 0..Stages : EdgeAt(k, toggle, chain, last)

Arrived(chain, last) == Bridge!Toggled(Stages, chain, last)

LEMMA StillShifts ==
    ASSUME Bridge!BridgeAssumption, NEW toggle \in BOOLEAN,
           NEW chain \in Bridge!Chain(Stages), NEW last, Still(toggle, chain, last)
    PROVE  /\ ~Arrived(chain, last)
           /\ Still(toggle, Bridge!ShiftIn(chain, toggle), Bridge!Output(Stages, chain))
<1>1. Stages \in Nat /\ Stages >= 2 /\ DOMAIN chain = 1..Stages
    BY DEF Bridge!BridgeAssumption, Bridge!Chain
<1>2. chain[Stages] = toggle /\ last = toggle
    BY <1>1 DEF Still
<1>3. ASSUME NEW i \in 1..Stages PROVE Bridge!ShiftIn(chain, toggle)[i] = toggle
    BY <1>1, <1>3 DEF Bridge!ShiftIn, Still
<1> QED BY <1>2, <1>3 DEF Arrived, Bridge!Toggled, Bridge!Output, Still

LEMMA EdgeStarts ==
    ASSUME Bridge!BridgeAssumption, NEW toggle \in BOOLEAN, NEW chain, NEW last,
           Still(toggle, chain, last)
    PROVE  Moving(~toggle, chain, last)
<1>1. EdgeAt(0, ~toggle, chain, last)
    BY DEF EdgeAt, Still
<1> QED BY <1>1 DEF Moving, Bridge!BridgeAssumption

\* An edge moves on by one flip-flop; behind the last of them it has arrived.
LEMMA EdgeShifts ==
    ASSUME Bridge!BridgeAssumption, NEW toggle \in BOOLEAN,
           NEW chain \in Bridge!Chain(Stages), NEW last, Moving(toggle, chain, last)
    PROVE  IF Arrived(chain, last)
           THEN Still(toggle, Bridge!ShiftIn(chain, toggle), Bridge!Output(Stages, chain))
           ELSE Moving(toggle, Bridge!ShiftIn(chain, toggle), Bridge!Output(Stages, chain))
<1>1. Stages \in Nat /\ Stages >= 2 /\ DOMAIN chain = 1..Stages
    BY DEF Bridge!BridgeAssumption, Bridge!Chain
<1>2. PICK k \in 0..Stages : EdgeAt(k, toggle, chain, last)
    BY DEF Moving
<1> DEFINE next == Bridge!ShiftIn(chain, toggle)
<1>3. \A i \in 1..Stages : next[i] = IF i = 1 THEN toggle ELSE chain[i - 1]
    BY <1>1 DEF Bridge!ShiftIn
<1>4. CASE k = Stages
    <2>1. chain[Stages] = toggle /\ last = ~toggle
        BY <1>1, <1>2, <1>4 DEF EdgeAt
    <2>2. ASSUME NEW i \in 1..Stages PROVE next[i] = toggle
        BY <1>1, <1>2, <1>3, <1>4, <2>2 DEF EdgeAt
    <2> QED BY <2>1, <2>2 DEF Arrived, Bridge!Toggled, Bridge!Output, Still
<1>5. CASE k < Stages
    <2>1. chain[Stages] = ~toggle /\ last = ~toggle
        BY <1>1, <1>2, <1>5 DEF EdgeAt
    <2>2. ASSUME NEW i \in 1..Stages
          PROVE  (i <= k + 1 => next[i] = toggle) /\ (i > k + 1 => next[i] = ~toggle)
        BY <1>1, <1>2, <1>3, <1>5, <2>2 DEF EdgeAt
    <2>3. EdgeAt(k + 1, toggle, next, Bridge!Output(Stages, chain))
        BY <2>1, <2>2 DEF EdgeAt, Bridge!Output
    <2> QED BY <1>1, <1>5, <2>1, <2>3 DEF Arrived, Bridge!Toggled, Bridge!Output, Moving
<1> QED BY <1>1, <1>4, <1>5

BridgeTypes ==
    /\ busy_q \in BOOLEAN /\ req_toggle \in BOOLEAN /\ ack_toggle \in BOOLEAN
    /\ ack_pulse \in BOOLEAN
    /\ req_sync \in Bridge!Chain(Stages) /\ ack_sync \in Bridge!Chain(Stages)

\* A side in reset holds its reset values.
Held ==
    /\ trst => /\ busy_q = FALSE /\ req_toggle = FALSE /\ ack_last = FALSE
               /\ ack_sync = Bridge!Cleared(Stages)
    /\ rst => /\ req_last = FALSE /\ ack_pulse = FALSE /\ ack_toggle = FALSE
              /\ req_sync = Bridge!Cleared(Stages)

Read(S) == performed = 1 /\ \E s \in S : rdata_q = { <<req_q, s>> }

\* Where the token of the handshake is.
ReqStill == Still(req_toggle, req_sync, req_last)
ReqMoving == Moving(req_toggle, req_sync, req_last)
AckStill == Still(ack_toggle, ack_sync, ack_last)
AckMoving == Moving(ack_toggle, ack_sync, ack_last)
Resting == ~busy_q /\ ReqStill /\ ~ack_pulse /\ AckStill
Asking == busy_q /\ ReqMoving /\ ~ack_pulse /\ AckStill /\ performed = 0
Pulsing(S) == busy_q /\ ReqStill /\ ack_pulse /\ AckStill /\ Read(S)
Answering(S) == busy_q /\ ReqStill /\ ~ack_pulse /\ AckMoving /\ Read(S)
Handshake(S) == Resting \/ Asking \/ Pulsing(S) \/ Answering(S)

BridgeInv == BridgeTypes /\ Held /\ (clean => Handshake(Sample))

\* The two edges that see the token arrive.
LEMMA Strobes ==
    ASSUME Bridge!BridgeAssumption, BridgeTypes, NEW S, Handshake(S)
    PROVE  /\ Bridge!AccStrobe => Asking
           /\ Bridge!AckTck => Answering(S)
<1>1. ReqStill => ~Bridge!AccStrobe
    BY StillShifts DEF ReqStill, BridgeTypes, Bridge!AccStrobe, Arrived
<1>2. AckStill => ~Bridge!AckTck
    BY StillShifts DEF AckStill, BridgeTypes, Bridge!AckTck, Arrived
<1> QED BY <1>1, <1>2 DEF Handshake, Resting, Asking, Pulsing, Answering

\* The request's toggle and its synchroniser, on an edge of clk, of tck or of
\* both; the acknowledge's likewise.
ReqLine(onClk) ==
    IF onClk THEN /\ req_sync' = Bridge!ShiftIn(req_sync, req_toggle)
                  /\ req_last' = Bridge!Output(Stages, req_sync)
             ELSE UNCHANGED <<req_sync, req_last>>
AckLine(onTck) ==
    IF onTck THEN /\ ack_sync' = Bridge!ShiftIn(ack_sync, ack_toggle)
                  /\ ack_last' = Bridge!Output(Stages, ack_sync)
             ELSE UNCHANGED <<ack_sync, ack_last>>

LEMMA ReqMoves ==
    ASSUME Bridge!BridgeAssumption, BridgeTypes, NEW onClk \in BOOLEAN, ReqLine(onClk)
    PROVE  /\ ReqStill /\ req_toggle' = req_toggle => ReqStill'
           /\ ReqStill /\ req_toggle' = ~req_toggle => ReqMoving'
           /\ ReqMoving /\ req_toggle' = req_toggle =>
                  IF onClk /\ Bridge!AccStrobe THEN ReqStill' ELSE ReqMoving'
<1>1. CASE onClk
    <2>1. ReqStill => Still(req_toggle, req_sync', req_last')
        BY <1>1, StillShifts DEF ReqLine, ReqStill, BridgeTypes
    <2>2. ReqStill => Moving(~req_toggle, req_sync', req_last')
        BY <2>1, EdgeStarts DEF BridgeTypes
    <2>3. ReqMoving => IF Bridge!AccStrobe THEN Still(req_toggle, req_sync', req_last')
                                           ELSE Moving(req_toggle, req_sync', req_last')
        BY <1>1, EdgeShifts DEF ReqLine, ReqMoving, BridgeTypes, Arrived, Bridge!AccStrobe
    <2> QED BY <1>1, <2>1, <2>2, <2>3 DEF ReqStill, ReqMoving
<1>2. CASE ~onClk
    <2>1. ReqStill => Moving(~req_toggle, req_sync, req_last)
        BY EdgeStarts DEF BridgeTypes, ReqStill
    <2>2. UNCHANGED <<req_sync, req_last>>
        BY <1>2 DEF ReqLine
    <2>3. req_toggle' = req_toggle => (ReqStill' <=> ReqStill) /\ (ReqMoving' <=> ReqMoving)
        BY <2>2 DEF ReqStill, ReqMoving
    <2>4. ReqStill /\ req_toggle' = ~req_toggle => ReqMoving'
        BY <2>1, <2>2 DEF ReqMoving
    <2> QED BY <1>2, <2>3, <2>4
<1> QED BY <1>1, <1>2

LEMMA AckMoves ==
    ASSUME Bridge!BridgeAssumption, BridgeTypes, NEW onTck \in BOOLEAN, AckLine(onTck)
    PROVE  /\ AckStill /\ ack_toggle' = ack_toggle => AckStill'
           /\ AckStill /\ ack_toggle' = ~ack_toggle => AckMoving'
           /\ AckMoving /\ ack_toggle' = ack_toggle =>
                  IF onTck /\ Bridge!AckTck THEN AckStill' ELSE AckMoving'
<1>1. CASE onTck
    <2>1. AckStill => Still(ack_toggle, ack_sync', ack_last')
        BY <1>1, StillShifts DEF AckLine, AckStill, BridgeTypes
    <2>2. AckStill => Moving(~ack_toggle, ack_sync', ack_last')
        BY <2>1, EdgeStarts DEF BridgeTypes
    <2>3. AckMoving => IF Bridge!AckTck THEN Still(ack_toggle, ack_sync', ack_last')
                                        ELSE Moving(ack_toggle, ack_sync', ack_last')
        BY <1>1, EdgeShifts DEF AckLine, AckMoving, BridgeTypes, Arrived, Bridge!AckTck
    <2> QED BY <1>1, <2>1, <2>2, <2>3 DEF AckStill, AckMoving
<1>2. CASE ~onTck
    <2>1. AckStill => Moving(~ack_toggle, ack_sync, ack_last)
        BY EdgeStarts DEF BridgeTypes, AckStill
    <2>2. UNCHANGED <<ack_sync, ack_last>>
        BY <1>2 DEF AckLine
    <2>3. ack_toggle' = ack_toggle => (AckStill' <=> AckStill) /\ (AckMoving' <=> AckMoving)
        BY <2>2 DEF AckStill, AckMoving
    <2>4. AckStill /\ ack_toggle' = ~ack_toggle => AckMoving'
        BY <2>1, <2>2 DEF AckMoving
    <2> QED BY <1>2, <2>3, <2>4
<1> QED BY <1>1, <1>2

\* What an edge of tck does, what an edge of clk does, and both.
Accepts == ~busy_q /\ busy_q' = TRUE
OnTck ==
    /\ \/ Accepts /\ req_toggle' = ~req_toggle
       \/ busy_q' = (busy_q /\ ~Bridge!AckTck) /\ UNCHANGED <<req_q, req_toggle>>
    /\ dbg_rdata_o' = IF Bridge!AckTck THEN rdata_q ELSE dbg_rdata_o
OffTck == UNCHANGED <<busy_q, req_q, req_toggle, dbg_rdata_o>>
OnClk(S) ==
    /\ \/ Bridge!AccStrobe /\ \E s \in S : rdata_q' = { <<req_q, s>> }
       \/ ~Bridge!AccStrobe /\ rdata_q' = rdata_q
    /\ ack_pulse' = Bridge!AccStrobe
    /\ ack_toggle' = IF ack_pulse THEN ~ack_toggle ELSE ack_toggle
OffClk == UNCHANGED <<rdata_q, ack_pulse, ack_toggle>>

Edge(S, R, onTck, onClk) ==
    /\ IF onTck THEN OnTck ELSE OffTck
    /\ IF onClk THEN OnClk(S) ELSE OffClk
    /\ ReqLine(onClk) /\ AckLine(onTck)
    /\ Accepts => performed' = 0 /\ req_q' \in R
    /\ ~Accepts => performed' = IF onClk /\ Bridge!AccStrobe /\ performed < 2
                                THEN performed + 1 ELSE performed

\* An edge of clocks whose side is not in reset.
FreeEdge(onTck, onClk) ==
    /\ Edge(Sample, Request, onTck, onClk)
    /\ onTck => ~trst
    /\ onClk => ~rst
    /\ UNCHANGED <<trst, rst, clean>>

LEMMA Edges ==
    ASSUME BridgeTypes, Bridge!Tck \/ Bridge!Clk \/ Bridge!Both
    PROVE  FreeEdge(TRUE, FALSE) \/ FreeEdge(FALSE, TRUE) \/ FreeEdge(TRUE, TRUE)
<1>1. ASSUME NEW req \in Bridge!TapAsks, Bridge!TckEdge(req)
      PROVE  /\ ~trst /\ OnTck /\ AckLine(TRUE) /\ (Bridge!ReqAccept(req) <=> Accepts)
             /\ Accepts => req_q' \in Request
    <2>1. \A r \in req : r \in Request
        BY DEF Bridge!TapAsks
    <2>2. CASE Bridge!ReqAccept(req)
        BY <1>1, <2>1, <2>2 DEF Bridge!TckEdge, Bridge!ReqAccept, OnTck, AckLine, Accepts
    <2>3. CASE ~Bridge!ReqAccept(req)
        BY <1>1, <2>3 DEF Bridge!TckEdge, OnTck, AckLine, Accepts
    <2> QED BY <2>2, <2>3
<1>2. ASSUME NEW s \in Sample, Bridge!ClkEdge(s)
      PROVE  ~rst /\ OnClk(Sample) /\ ReqLine(TRUE)
    <2>1. CASE Bridge!AccStrobe
        BY <1>2, <2>1 DEF Bridge!ClkEdge, Bridge!AckToggleNext, OnClk, ReqLine
    <2>2. CASE ~Bridge!AccStrobe
        BY <1>2, <2>2 DEF Bridge!ClkEdge, Bridge!AckToggleNext, OnClk, ReqLine
    <2> QED BY <2>1, <2>2
<1>3. CASE Bridge!Tck
    BY <1>1, <1>3 DEF Bridge!Tck, Bridge!Count, Bridge!clkVars, Bridge!resetVars, Edge,
                      FreeEdge, OffClk, ReqLine
<1>4. CASE Bridge!Clk
    <2>1. ~Bridge!ReqAccept({})
        BY DEF Bridge!ReqAccept
    <2>2. OffTck => ~Accepts
        BY DEF OffTck, Accepts, BridgeTypes
    <2> QED BY <1>2, <1>4, <2>1, <2>2 DEF Bridge!Clk, Bridge!Count, Bridge!tckVars,
                      Bridge!resetVars, Edge, FreeEdge, OffTck,
                      AckLine
<1>5. CASE Bridge!Both
    BY <1>1, <1>2, <1>5 DEF Bridge!Both, Bridge!Count, Bridge!resetVars, Edge, FreeEdge
<1> QED BY <1>3, <1>4, <1>5

LEMMA TokenMoves ==
    ASSUME Bridge!BridgeAssumption, BridgeTypes, NEW S, NEW R,
           NEW onTck \in BOOLEAN, NEW onClk \in BOOLEAN, Edge(S, R, onTck, onClk)
    PROVE  /\ Resting => Resting' \/ (Asking' /\ Accepts)
           /\ Asking => IF onClk /\ Bridge!AccStrobe THEN Pulsing(S)' ELSE Asking'
           /\ Pulsing(S) => Pulsing(S)' \/ Answering(S)'
           /\ Answering(S) => IF onTck /\ Bridge!AckTck THEN Resting' ELSE Answering(S)'
<1>1. ReqLine(onClk) /\ AckLine(onTck)
    BY DEF Edge
<1>2. Handshake(S) => (Bridge!AccStrobe => Asking) /\ (Bridge!AckTck => Answering(S))
    BY Strobes
<1>3. busy_q /\ ~(onTck /\ Bridge!AckTck) => busy_q' /\ UNCHANGED <<req_q, req_toggle>>
    BY DEF Edge, OnTck, OffTck, Accepts, BridgeTypes
<1>4. ~Bridge!AccStrobe => ~ack_pulse' \/ (ack_pulse' = ack_pulse /\ ~onClk)
    BY DEF Edge, OnClk, OffClk
<1>5. ~ack_pulse => ack_toggle' = ack_toggle
    BY DEF Edge, OnClk, OffClk
<1>6. busy_q /\ ~(onClk /\ Bridge!AccStrobe) => UNCHANGED <<rdata_q, performed>>
    BY DEF Edge, OnClk, OffClk, Accepts
<1>7. CASE Resting
    <2>1. ~Bridge!AccStrobe /\ ~Bridge!AckTck
        BY <1>2, <1>7 DEF Handshake, Resting, Asking, Answering
    <2>2. ~ack_pulse' /\ AckStill'
        BY <1>1, <1>4, <1>5, <1>7, <2>1, AckMoves DEF Resting
    <2>3. ASSUME Accepts, req_toggle' = ~req_toggle PROVE Asking'
        <3>1. ReqMoving'
            BY <1>1, <1>7, <2>3, ReqMoves DEF Resting
        <3> QED BY <2>2, <2>3, <3>1 DEF Asking, Edge, Accepts
    <2>4. ASSUME ~busy_q', req_toggle' = req_toggle PROVE Resting'
        <3>1. ReqStill'
            BY <1>1, <1>7, <2>4, ReqMoves DEF Resting
        <3> QED BY <2>2, <2>4, <3>1 DEF Resting
    <2>5. \/ Accepts /\ req_toggle' = ~req_toggle
          \/ ~busy_q' /\ req_toggle' = req_toggle
        BY <1>7 DEF Edge, OnTck, OffTck, Resting
    <2> QED BY <1>7, <2>3, <2>4, <2>5 DEF Resting, Asking, Pulsing, Answering
<1>8. CASE Asking
    <2>1. ~Bridge!AckTck
        BY <1>2, <1>8 DEF Handshake, Asking, Answering, Read
    <2>2. busy_q' /\ UNCHANGED <<req_q, req_toggle>> /\ AckStill'
        BY <1>1, <1>3, <1>5, <1>8, <2>1, AckMoves DEF Asking
    <2>3. CASE onClk /\ Bridge!AccStrobe
        <3>1. /\ ack_pulse' = Bridge!AccStrobe /\ performed' = 1
              /\ \E s \in S : rdata_q' = { <<req_q, s>> }
            BY <1>8, <2>3 DEF Edge, OnClk, Asking, Accepts
        <3>2. ReqStill'
            BY <1>1, <1>8, <2>2, <2>3, ReqMoves DEF Asking
        <3> QED BY <1>8, <2>2, <2>3, <3>1, <3>2 DEF Resting, Asking, Pulsing, Answering, Read
    <2>4. CASE ~(onClk /\ Bridge!AccStrobe)
        <3>1. ReqMoving' /\ performed' = 0
            BY <1>1, <1>6, <1>8, <2>2, <2>4, ReqMoves DEF Asking
        <3>2. ~ack_pulse'
            BY <1>8, <2>4 DEF Asking, Edge, OnClk, OffClk
        <3> QED BY <1>8, <2>2, <2>4, <3>1, <3>2 DEF Resting, Asking, Pulsing, Answering, Read
    <2> QED BY <2>3, <2>4
<1>9. CASE Pulsing(S) \/ Answering(S)
    <2>1. ~Bridge!AccStrobe /\ busy_q /\ performed = 1
        BY <1>2, <1>9 DEF Handshake, Asking, Pulsing, Answering, Read
    <2>2. ReqStill
        BY <1>9 DEF Pulsing, Answering
    <2>3. CASE Pulsing(S)
        <3>1. ~Bridge!AckTck
            BY <1>2, <2>3 DEF Handshake, Pulsing, Answering
        <3>2. busy_q' /\ UNCHANGED <<req_q, req_toggle, rdata_q, performed>>
            BY <1>3, <1>6, <2>1, <3>1
        <3>3. ReqStill' /\ Read(S)'
            BY <1>1, <2>2, <2>3, <3>2, ReqMoves DEF Pulsing, Read
        <3>4. CASE onClk
            BY <1>1, <2>1, <2>3, <3>2, <3>3, <3>4, AckMoves
            DEF Pulsing, Resting, Asking, Answering, Edge, OnClk
        <3>5. CASE ~onClk
            BY <1>1, <2>1, <2>3, <3>2, <3>3, <3>5, AckMoves
            DEF Pulsing, Resting, Asking, Answering, Edge, OffClk
        <3> QED BY <3>4, <3>5
    <2>4. CASE Answering(S)
        <3>1. ~ack_pulse' /\ ack_toggle' = ack_toggle
            BY <1>4, <1>5, <2>1, <2>4 DEF Answering
        <3>2. CASE onTck /\ Bridge!AckTck
            <4>1. ~busy_q' /\ req_toggle' = req_toggle
                BY <2>1, <3>2 DEF Edge, OnTck, Accepts
            <4>2. ReqStill' /\ AckStill'
                BY <1>1, <2>2, <2>4, <3>1, <3>2, <4>1, ReqMoves, AckMoves DEF Answering
            <4> QED BY <2>1, <2>4, <3>1, <3>2, <4>1, <4>2
                    DEF Answering, Resting, Asking, Pulsing
        <3>3. CASE ~(onTck /\ Bridge!AckTck)
            <4>1. busy_q' /\ UNCHANGED <<req_q, req_toggle, rdata_q, performed>>
                BY <1>3, <1>6, <2>1, <3>3
            <4>2. ReqStill' /\ AckMoving' /\ Read(S)'
                BY <1>1, <2>2, <2>4, <3>1, <3>3, <4>1, ReqMoves, AckMoves DEF Answering, Read
            <4> QED BY <2>1, <2>4, <3>1, <3>3, <4>1, <4>2
                    DEF Answering, Resting, Asking, Pulsing, Read
        <3> QED BY <3>2, <3>3
    <2> QED BY <1>9, <2>3, <2>4
<1> QED BY <1>7, <1>8, <1>9

LEMMA HandshakeStays ==
    ASSUME NEW S, UNCHANGED <<Bridge!tckVars, Bridge!clkVars, performed>>
    PROVE  Handshake(S)' <=> Handshake(S)
<1>1. /\ UNCHANGED <<busy_q, req_q, req_toggle, ack_sync, ack_last, req_sync, req_last>>
      /\ UNCHANGED <<rdata_q, ack_pulse, ack_toggle, performed>>
    BY DEF Bridge!tckVars, Bridge!clkVars
<1>2. (ReqStill' <=> ReqStill) /\ (AckStill' <=> AckStill)
    BY <1>1 DEF ReqStill, AckStill
<1>3. (ReqMoving' <=> ReqMoving) /\ (AckMoving' <=> AckMoving)
    BY <1>1 DEF ReqMoving, AckMoving
<1>4. Read(S)' <=> Read(S)
    BY <1>1 DEF Read
<1> QED BY <1>1, <1>2, <1>3, <1>4 DEF Handshake, Resting, Asking, Pulsing, Answering

\* Both sides held in reset together restore the handshake.
LEMMA BothInReset ==
    ASSUME NEW S, Held', trst', rst'
    PROVE  Handshake(S)'
<1>1. /\ busy_q' = FALSE /\ req_toggle' = FALSE /\ ack_last' = FALSE /\ req_last' = FALSE
      /\ ack_pulse' = FALSE /\ ack_toggle' = FALSE
      /\ ack_sync' = Bridge!Cleared(Stages) /\ req_sync' = Bridge!Cleared(Stages)
    BY DEF Held
<1>2. \A i \in 1..Stages : Bridge!Cleared(Stages)[i] = FALSE
    BY DEF Bridge!Cleared
<1> QED BY <1>1, <1>2 DEF Handshake, Resting, ReqStill, AckStill, Still

LEMMA ChainsShift ==
    ASSUME Bridge!BridgeAssumption, NEW chain \in Bridge!Chain(Stages), NEW d \in BOOLEAN
    PROVE  /\ Bridge!ShiftIn(chain, d) \in Bridge!Chain(Stages)
           /\ Bridge!Cleared(Stages) \in Bridge!Chain(Stages)
<1>1. Stages \in Nat /\ DOMAIN chain = 1..Stages
    BY DEF Bridge!BridgeAssumption, Bridge!Chain
<1>2. ASSUME NEW i \in 1..Stages
      PROVE  (IF i = 1 THEN d ELSE chain[i - 1]) \in BOOLEAN
    <2>1. CASE i = 1
        BY <2>1
    <2>2. CASE i # 1
        <3>1. i - 1 \in 1..Stages
            BY <1>1, <1>2, <2>2
        <3> QED BY <2>2, <3>1 DEF Bridge!Chain
    <2> QED BY <2>1, <2>2
<1> QED BY <1>1, <1>2 DEF Bridge!ShiftIn, Bridge!Chain, Bridge!Cleared

LEMMA BridgeKept ==
    ASSUME Bridge!BridgeAssumption, BridgeInv, [Bridge!Next]_(Bridge!vars)
    PROVE  BridgeInv'
<1>1. BridgeTypes /\ Held /\ (clean => Handshake(Sample))
    BY DEF BridgeInv
<1>2. ASSUME NEW onTck \in BOOLEAN, NEW onClk \in BOOLEAN, FreeEdge(onTck, onClk)
      PROVE  BridgeInv'
    <2>1. busy_q' \in BOOLEAN /\ req_toggle' \in BOOLEAN
        BY <1>1, <1>2 DEF FreeEdge, Edge, OnTck, OffTck, Accepts, BridgeTypes
    <2>2. ack_pulse' \in BOOLEAN /\ ack_toggle' \in BOOLEAN
        BY <1>1, <1>2 DEF FreeEdge, Edge, OnClk, OffClk, BridgeTypes, Bridge!AccStrobe, Bridge!Toggled
    <2>3. req_sync' \in Bridge!Chain(Stages) /\ ack_sync' \in Bridge!Chain(Stages)
        BY <1>1, <1>2, ChainsShift DEF FreeEdge, Edge, ReqLine, AckLine, BridgeTypes
    <2>4. UNCHANGED <<trst, rst, clean>>
        BY <1>2 DEF FreeEdge
    <2>5. trst => ~onTck
        BY <1>2 DEF FreeEdge
    <2>6. rst => ~onClk
        BY <1>2 DEF FreeEdge
    <2>7. Held'
        BY <1>1, <1>2, <2>4, <2>5, <2>6 DEF Held, FreeEdge, Edge, OffTck, OffClk, ReqLine, AckLine
    <2>8. Handshake(Sample) => Handshake(Sample)'
        BY <1>1, <1>2, TokenMoves DEF FreeEdge, Handshake
    <2> QED BY <1>1, <2>1, <2>2, <2>3, <2>4, <2>7, <2>8 DEF BridgeInv, BridgeTypes
<1>3. CASE Bridge!TckReset
    <2>1. BridgeTypes'
        BY <1>1, <1>3, ChainsShift
        DEF Bridge!TckReset, Bridge!TckCleared, Bridge!clkVars, BridgeTypes
    <2>2. Held' /\ trst' /\ rst' = rst /\ clean' = rst
        BY <1>1, <1>3 DEF Bridge!TckReset, Bridge!TckCleared, Bridge!clkVars, Held
    <2> QED BY <2>1, <2>2, BothInReset DEF BridgeInv
<1>4. CASE Bridge!ClkReset
    <2>1. BridgeTypes'
        BY <1>1, <1>4, ChainsShift
        DEF Bridge!ClkReset, Bridge!ClkCleared, Bridge!tckVars, BridgeTypes
    <2>2. Held' /\ rst' /\ trst' = trst /\ clean' = trst
        BY <1>1, <1>4 DEF Bridge!ClkReset, Bridge!ClkCleared, Bridge!tckVars, Held
    <2> QED BY <2>1, <2>2, BothInReset DEF BridgeInv
<1>5. CASE Bridge!TckRelease \/ Bridge!ClkRelease \/ UNCHANGED Bridge!vars
    <2>1. /\ UNCHANGED <<Bridge!tckVars, Bridge!clkVars, performed, clean>>
          /\ trst' => trst
          /\ rst' => rst
        BY <1>5 DEF Bridge!TckRelease, Bridge!ClkRelease, Bridge!vars, Bridge!resetVars
    <2>2. Handshake(Sample)' <=> Handshake(Sample)
        BY <2>1, HandshakeStays
    <2>3. BridgeTypes' /\ Held'
        BY <1>1, <2>1 DEF BridgeTypes, Held, Bridge!tckVars, Bridge!clkVars
    <2> QED BY <1>1, <2>1, <2>2, <2>3 DEF BridgeInv
<1>6. CASE Bridge!Tck \/ Bridge!Clk \/ Bridge!Both
    BY <1>1, <1>2, <1>6, Edges
<1> QED BY <1>3, <1>4, <1>5, <1>6 DEF Bridge!Next

LEMMA BridgeInvariance ==
    ASSUME Bridge!BridgeAssumption
    PROVE  Bridge!Spec => []BridgeInv
<1>1. Bridge!Init => BridgeInv
    <2> SUFFICES ASSUME Bridge!Init PROVE BridgeInv
        OBVIOUS
    <2>1. /\ busy_q = FALSE /\ req_toggle = FALSE /\ ack_last = FALSE /\ req_last = FALSE
          /\ ack_pulse = FALSE /\ ack_toggle = FALSE
          /\ ack_sync = Bridge!Cleared(Stages) /\ req_sync = Bridge!Cleared(Stages)
        BY DEF Bridge!Init
    <2>2. Bridge!Cleared(Stages) \in Bridge!Chain(Stages)
        BY DEF Bridge!Cleared, Bridge!Chain
    <2>3. \A i \in 1..Stages : Bridge!Cleared(Stages)[i] = FALSE
        BY DEF Bridge!Cleared
    <2>4. ReqStill /\ AckStill
        BY <2>1, <2>3 DEF ReqStill, AckStill, Still
    <2> QED BY <2>1, <2>2, <2>4 DEF BridgeInv, BridgeTypes, Held, Handshake, Resting
<1>2. BridgeInv /\ [Bridge!Next]_(Bridge!vars) => BridgeInv'
    BY BridgeKept
<1> QED BY <1>1, <1>2, PTL DEF Bridge!Spec

LEMMA BridgeSteps ==
    ASSUME Bridge!BridgeAssumption, BridgeInv, [Bridge!Next]_(Bridge!vars), clean
    PROVE  /\ ~trst' /\ req_q' # req_q => ReqStill
           /\ ~rst' /\ rdata_q' # rdata_q => AckStill
           /\ ~trst' /\ busy_q /\ ~busy_q' =>
                  Read(Sample) /\ performed = 1 /\ dbg_rdata_o' = rdata_q
<1>1. BridgeTypes /\ Handshake(Sample)
    BY DEF BridgeInv
<1>2. (Bridge!AccStrobe => Asking) /\ (Bridge!AckTck => Answering(Sample))
    BY <1>1, Strobes
<1>3. ASSUME NEW onTck \in BOOLEAN, NEW onClk \in BOOLEAN, FreeEdge(onTck, onClk)
      PROVE  /\ req_q' # req_q => ReqStill
             /\ rdata_q' # rdata_q => AckStill
             /\ busy_q /\ ~busy_q' => Read(Sample) /\ performed = 1 /\ dbg_rdata_o' = rdata_q
    <2>1. req_q' # req_q => ~busy_q
        BY <1>3 DEF FreeEdge, Edge, OnTck, OffTck, Accepts
    <2>2. rdata_q' # rdata_q => Bridge!AccStrobe
        BY <1>3 DEF FreeEdge, Edge, OnClk, OffClk
    <2>3. busy_q /\ ~busy_q' => Bridge!AckTck /\ dbg_rdata_o' = rdata_q
        BY <1>3 DEF FreeEdge, Edge, OnTck, OffTck, Accepts
    <2> QED BY <1>1, <1>2, <2>1, <2>2, <2>3
            DEF Handshake, Resting, Asking, Pulsing, Answering, Read
<1>4. CASE Bridge!TckReset
    BY <1>4 DEF Bridge!TckReset, Bridge!clkVars
<1>5. CASE Bridge!ClkReset
    BY <1>5 DEF Bridge!ClkReset, Bridge!tckVars
<1>6. CASE Bridge!TckRelease \/ Bridge!ClkRelease \/ UNCHANGED Bridge!vars
    <2>1. UNCHANGED <<busy_q, req_q, rdata_q>>
        BY <1>6
        DEF Bridge!TckRelease, Bridge!ClkRelease, Bridge!vars, Bridge!tckVars, Bridge!clkVars
    <2> QED BY <2>1
<1>7. CASE Bridge!Tck \/ Bridge!Clk \/ Bridge!Both
    BY <1>1, <1>3, <1>7, Edges
<1> QED BY <1>4, <1>5, <1>6, <1>7 DEF Bridge!Next

LEMMA StillIsQuiet ==
    ASSUME BridgeTypes
    PROVE  /\ ReqStill => Bridge!Quiet(req_toggle, req_sync, req_last)
           /\ AckStill => Bridge!Quiet(ack_toggle, ack_sync, ack_last)
<1>1. DOMAIN req_sync = 1..Stages /\ DOMAIN ack_sync = 1..Stages
    BY DEF BridgeTypes, Bridge!Chain
<1> QED BY <1>1 DEF ReqStill, AckStill, Still, Bridge!Quiet

\* The debug crossing, for synchronisers of every length, edges of the two
\* clocks in any order and resets of either side at any time: while no reset
\* struck one side alone, what crosses beside a toggle is static, and the
\* answer that frees the debugger is what its own access read, made once.
THEOREM CrossesSafely ==
    ASSUME Bridge!BridgeAssumption
    PROVE  Bridge!Spec => CrossingSound
<1>1. BridgeInv /\ [Bridge!Next]_(Bridge!vars) =>
          [clean /\ ~trst' /\ ~rst' =>
              /\ req_q' # req_q => Bridge!Quiet(req_toggle, req_sync, req_last)
              /\ rdata_q' # rdata_q => Bridge!Quiet(ack_toggle, ack_sync, ack_last)]_(Bridge!vars)
    BY BridgeSteps, StillIsQuiet DEF BridgeInv
<1>2. BridgeInv /\ [Bridge!Next]_(Bridge!vars) =>
          [clean /\ clean' /\ busy_q /\ ~busy_q' /\ ~trst' =>
              /\ performed = 1
              /\ \E s \in Sample : dbg_rdata_o' = { <<req_q, s>> }]_(Bridge!vars)
    BY BridgeSteps DEF Read
<1> QED BY <1>1, <1>2, BridgeInvariance, PTL
        DEF Bridge!Spec, CrossingSound, Bridge!CrossingSound, Bridge!StaticCrossing,
            Bridge!OwnAnswerWhenClean

\* The steps of an atomic access, for the requests R and the samples S.
Asks(R) ==
    /\ ~busy_q /\ busy_q' = TRUE /\ req_q' \in R /\ performed' = 0
    /\ UNCHANGED <<rdata_q, dbg_rdata_o>>
Performs(S) ==
    /\ busy_q /\ performed = 0 /\ performed' = 1
    /\ \E s \in S : rdata_q' = { <<req_q, s>> }
    /\ UNCHANGED <<busy_q, req_q, dbg_rdata_o>>
Answers(S) ==
    /\ busy_q /\ performed = 1 /\ busy_q' = FALSE /\ dbg_rdata_o' = rdata_q
    /\ Read(S)
    /\ UNCHANGED <<req_q, performed, rdata_q>>
Waits == UNCHANGED <<busy_q, req_q, performed, rdata_q, dbg_rdata_o>>

\* An edge is a step of an atomic access, or of nothing but the token's way.
LEMMA AccessMoves ==
    ASSUME Bridge!BridgeAssumption, BridgeTypes, NEW S, NEW R, Handshake(S),
           NEW onTck \in BOOLEAN, NEW onClk \in BOOLEAN, Edge(S, R, onTck, onClk)
    PROVE  Asks(R) \/ Performs(S) \/ Answers(S) \/ Waits
<1>1. (Bridge!AccStrobe => Asking) /\ (Bridge!AckTck => Answering(S))
    BY Strobes
<1>2. CASE Accepts
    <2>1. ~Bridge!AccStrobe /\ ~Bridge!AckTck
        BY <1>1, <1>2 DEF Accepts, Asking, Answering
    <2>2. UNCHANGED <<rdata_q, dbg_rdata_o>>
        BY <2>1 DEF Edge, OnTck, OffTck, OnClk, OffClk
    <2> QED BY <1>2, <2>2 DEF Edge, Accepts, Asks
<1>3. CASE ~Accepts /\ onClk /\ Bridge!AccStrobe
    <2>1. Asking /\ ~Bridge!AckTck
        BY <1>1, <1>3 DEF Asking, Answering, Read
    <2>2. UNCHANGED <<busy_q, req_q, dbg_rdata_o>>
        BY <1>3, <2>1 DEF Edge, OnTck, OffTck, Asking, BridgeTypes, Accepts
    <2>3. performed = 0 /\ performed' = 1 /\ \E s \in S : rdata_q' = { <<req_q, s>> }
        BY <1>3, <2>1 DEF Edge, OnClk, Asking
    <2> QED BY <2>1, <2>2, <2>3 DEF Performs, Asking
<1>4. CASE ~Accepts /\ ~(onClk /\ Bridge!AccStrobe)
    <2>1. UNCHANGED <<performed, rdata_q, req_q>>
        BY <1>4 DEF Edge, OnTck, OffTck, OnClk, OffClk
    <2>2. CASE onTck /\ Bridge!AckTck
        <3>1. Answering(S) /\ Read(S) /\ performed = 1 /\ busy_q
            BY <1>1, <2>2 DEF Answering, Read
        <3>2. busy_q' = FALSE /\ dbg_rdata_o' = rdata_q
            BY <1>4, <2>2 DEF Edge, OnTck, Accepts
        <3> QED BY <2>1, <3>1, <3>2 DEF Answers
    <2>3. CASE ~(onTck /\ Bridge!AckTck)
        <3>1. UNCHANGED <<busy_q, dbg_rdata_o>>
            BY <1>4, <2>3 DEF Edge, OnTck, OffTck, Accepts, BridgeTypes
        <3> QED BY <2>1, <3>1 DEF Waits
    <2> QED BY <2>2, <2>3
<1> QED BY <1>2, <1>3, <1>4

LEMMA RemoteStep ==
    ASSUME Bridge!BridgeAssumption, Resets = {}, BridgeInv, clean,
           [Bridge!Next]_(Bridge!vars)
    PROVE  clean' /\ [Bridge!Remote!Next]_(Bridge!Remote!remoteVars)
<1>1. BridgeTypes /\ Handshake(Sample)
    BY DEF BridgeInv
<1>2. ASSUME NEW onTck \in BOOLEAN, NEW onClk \in BOOLEAN, FreeEdge(onTck, onClk)
      PROVE  clean' /\ [Bridge!Remote!Next]_(Bridge!Remote!remoteVars)
    <2>1. Asks(Request) \/ Performs(Sample) \/ Answers(Sample) \/ Waits
        BY <1>1, <1>2, AccessMoves DEF FreeEdge
    <2>2. [Bridge!Remote!Next]_(Bridge!Remote!remoteVars)
        BY <2>1 DEF Asks, Performs, Answers, Waits, Bridge!Remote!Next, Bridge!Remote!Ask,
                    Bridge!Remote!Perform, Bridge!Remote!Answer, Bridge!Remote!remoteVars
    <2> QED BY <1>2, <2>2 DEF FreeEdge
<1>3. CASE Bridge!TckRelease \/ Bridge!ClkRelease \/ UNCHANGED Bridge!vars
    BY <1>3 DEF Bridge!TckRelease, Bridge!ClkRelease, Bridge!vars, Bridge!tckVars,
                Bridge!clkVars, Bridge!resetVars, Bridge!Remote!remoteVars
<1>4. CASE Bridge!TckReset \/ Bridge!ClkReset
    BY <1>4 DEF Bridge!TckReset, Bridge!ClkReset
<1>5. CASE Bridge!Tck \/ Bridge!Clk \/ Bridge!Both
    BY <1>1, <1>2, <1>5, Edges
<1> QED BY <1>3, <1>4, <1>5 DEF Bridge!Next

\* Without resets an access through the crossing is atomic: each request that
\* is accepted is performed once in the other domain, and what frees the
\* caller is what it read there.
THEOREM AccessesAreAtomic ==
    ASSUME Bridge!BridgeAssumption, Resets = {}
    PROVE  Bridge!Spec => Bridge!RemoteSpec
<1>1. Bridge!Init => clean /\ Bridge!Remote!Init
    BY DEF Bridge!Init, Bridge!Remote!Init, Bridge!BridgeAssumption
<1>2. BridgeInv /\ clean /\ [Bridge!Next]_(Bridge!vars)
          => clean' /\ [Bridge!Remote!Next]_(Bridge!Remote!remoteVars)
    BY RemoteStep
<1> QED BY <1>1, <1>2, BridgeInvariance, PTL
        DEF Bridge!Spec, Bridge!RemoteSpec, Bridge!Remote!Spec

-----------------------------------------------------------------------------
(* The test access port.                                                     *)

Bits == Seq({0, 1})
Scanned == captured \o shifted

\* The states that k edges with tms high can lead to.
AfterOnes(k) ==
    CASE k = 0 -> Tap!States
      [] k = 1 -> {"TEST_LOGIC_RESET", "SELECT_DR", "EXIT1_DR", "UPDATE_DR", "EXIT2_DR",
                   "SELECT_IR", "EXIT1_IR", "UPDATE_IR", "EXIT2_IR"}
      [] k = 2 -> {"TEST_LOGIC_RESET", "SELECT_IR", "UPDATE_DR", "SELECT_DR", "UPDATE_IR"}
      [] k = 3 -> {"TEST_LOGIC_RESET", "SELECT_IR", "SELECT_DR"}
      [] k = 4 -> {"TEST_LOGIC_RESET", "SELECT_IR"}
      [] OTHER -> {"TEST_LOGIC_RESET"}

TapTypes ==
    /\ state_q \in Tap!States
    /\ ir_q \in Bits /\ ir_shift_q \in Bits /\ Len(ir_shift_q) = 4
    /\ idcode_q \in Bits /\ Len(idcode_q) = Width
    /\ addr_q \in Bits /\ Len(addr_q) = Width
    /\ data_q \in Bits /\ Len(data_q) = Width
    /\ bypass_q \in {0, 1}
    /\ captured \in Bits /\ shifted \in Bits

\* A register n bits wide that a scan runs through.
Holds(reg, n) ==
    /\ n \in Nat \ {0} /\ Len(captured) = n
    /\ reg = Tap!LastBits(n, Scanned)
InDrScan == state_q \in Tap!DrScan => Holds(Tap!Selected, Len(Tap!Selected))
InIrScan == state_q \in Tap!IrScan => Holds(ir_shift_q, 4)

OnesLead ==
    /\ ones \in 0..6 /\ state_q \in AfterOnes(ones)
    /\ ones = 6 => ir_q = Tap!IR_IDCODE

TapInv == TapTypes /\ InDrScan /\ InIrScan /\ OnesLead

LEMMA NextStates ==
    ASSUME NEW s \in Tap!States, NEW tms \in {0, 1}
    PROVE  /\ Tap!NextState(s, tms) \in Tap!States
           /\ Tap!NextState(s, tms) \in Tap!DrScan => s \in Tap!DrScan \cup {"CAPTURE_DR"}
           /\ Tap!NextState(s, tms) \in Tap!IrScan => s \in Tap!IrScan \cup {"CAPTURE_IR"}
BY DEF Tap!States, Tap!NextState, Tap!Controller, Tap!DrScan, Tap!IrScan

LEMMA OnesReset ==
    ASSUME NEW k \in 0..5, NEW s \in AfterOnes(k), s \in Tap!States
    PROVE  Tap!NextState(s, 1) \in AfterOnes(k + 1)
<1>1. CASE k = 0
    BY <1>1 DEF AfterOnes, Tap!States, Tap!NextState, Tap!Controller
<1>2. CASE k # 0
    BY <1>2 DEF AfterOnes, Tap!NextState, Tap!Controller
<1> QED BY <1>1, <1>2

\* Sequences of bits: shifting one in, and the last bits of a longer one.
LEMMA Shifts ==
    ASSUME NEW reg \in Bits, reg # << >>, NEW d \in {0, 1}
    PROVE  /\ Tap!ShiftReg(reg, d) \in Bits /\ Len(Tap!ShiftReg(reg, d)) = Len(reg)
           /\ \A i \in 1..Len(reg) :
                  Tap!ShiftReg(reg, d)[i] = IF i = Len(reg) THEN d ELSE reg[i + 1]
BY DEF Tap!ShiftReg, Bits

LEMMA LastOf ==
    ASSUME NEW s \in Bits, NEW n \in 1..Len(s)
    PROVE  /\ Tap!LastBits(n, s) \in Bits /\ Len(Tap!LastBits(n, s)) = n
           /\ \A i \in 1..n : Tap!LastBits(n, s)[i] = s[Len(s) - n + i]
BY DEF Tap!LastBits, Bits

LEMMA SameBits ==
    ASSUME NEW a \in Bits, NEW b \in Bits, Len(a) = Len(b),
           \A i \in 1..Len(a) : a[i] = b[i]
    PROVE  a = b
BY DEF Bits

LEMMA ShiftIsLast ==
    ASSUME NEW s \in Bits, NEW n \in 1..Len(s), NEW d \in {0, 1}
    PROVE  Tap!ShiftReg(Tap!LastBits(n, s), d) = Tap!LastBits(n, Append(s, d))
<1>1. PICK l : l = Tap!LastBits(n, s)
    OBVIOUS
<1>2. PICK t : t = Append(s, d)
    OBVIOUS
<1>3. /\ t \in Bits /\ Len(t) = Len(s) + 1 /\ Len(s) \in Nat /\ n \in 1..Len(t)
      /\ \A i \in 1..Len(s) + 1 : t[i] = IF i = Len(s) + 1 THEN d ELSE s[i]
    BY <1>2 DEF Bits
<1>4. l \in Bits /\ Len(l) = n /\ \A i \in 1..n : l[i] = s[Len(s) - n + i]
    BY <1>1, LastOf
<1>5. PICK a : a = Tap!ShiftReg(l, d)
    OBVIOUS
<1>6. a \in Bits /\ Len(a) = n /\ \A i \in 1..n : a[i] = IF i = n THEN d ELSE l[i + 1]
    <2>1. l # << >>
        BY <1>3, <1>4
    <2> QED BY <1>4, <1>5, <2>1, Shifts
<1>7. PICK b : b = Tap!LastBits(n, t)
    OBVIOUS
<1>8. b \in Bits /\ Len(b) = n /\ \A i \in 1..n : b[i] = t[Len(t) - n + i]
    BY <1>3, <1>7, LastOf
<1>9. ASSUME NEW i \in 1..n PROVE a[i] = b[i]
    <2>1. n \in Nat /\ i \in Nat /\ Len(t) - n + i \in 1..Len(s) + 1
          /\ (Len(t) - n + i = Len(s) + 1 <=> i = n)
        BY <1>3
    <2>2. CASE i = n
        BY <1>3, <1>6, <1>8, <2>1, <2>2
    <2>3. CASE i # n
        <3>1. i + 1 \in 1..n /\ Len(s) - n + (i + 1) = Len(t) - n + i
            BY <1>3, <2>1, <2>3
        <3>2. a[i] = l[i + 1] /\ l[i + 1] = s[Len(s) - n + (i + 1)]
            BY <1>4, <1>6, <2>3, <3>1
        <3>3. b[i] = s[Len(t) - n + i]
            BY <1>3, <1>8, <2>1, <2>3
        <3> QED BY <3>1, <3>2, <3>3
    <2> QED BY <2>2, <2>3
<1>10. a = b
    BY <1>6, <1>8, <1>9, SameBits
<1> QED BY <1>1, <1>2, <1>5, <1>7, <1>10

\* What a scan that begins has captured, and what it has after one more bit.
LEMMA ScanBegins ==
    ASSUME NEW c \in Bits, c # << >>
    PROVE  c = Tap!LastBits(Len(c), c \o << >>)
<1>1. c \o << >> = c /\ Len(c) \in 1..Len(c)
    BY DEF Bits
<1>2. /\ Tap!LastBits(Len(c), c) \in Bits /\ Len(Tap!LastBits(Len(c), c)) = Len(c)
      /\ \A i \in 1..Len(c) : Tap!LastBits(Len(c), c)[i] = c[Len(c) - Len(c) + i]
    BY <1>1, LastOf
<1>3. \A i \in 1..Len(c) : Len(c) - Len(c) + i = i
    BY DEF Bits
<1>4. Tap!LastBits(Len(c), c) = c
    BY <1>2, <1>3, SameBits
<1> QED BY <1>1, <1>4

LEMMA ScanGoesOn ==
    ASSUME TapTypes, NEW tdi \in {0, 1}, NEW n, NEW reg, Holds(reg, n)
    PROVE  Tap!ShiftReg(reg, tdi) = Tap!LastBits(n, captured \o Append(shifted, tdi))
<1>1. Scanned \in Bits /\ n \in 1..Len(Scanned)
    BY DEF TapTypes, Bits, Scanned, Holds
<1>2. captured \o Append(shifted, tdi) = Append(Scanned, tdi)
    BY DEF TapTypes, Bits, Scanned
<1> QED BY <1>1, <1>2, ShiftIsLast DEF Holds

LEMMA SelectedBits ==
    ASSUME Tap!TapAssumption, TapTypes
    PROVE  Tap!Selected \in Bits /\ Tap!Selected # << >>
           /\ Len(Tap!Selected) \in Nat \ {0}
<1>1. <<bypass_q>> \in Bits /\ Len(<<bypass_q>>) = 1
    BY DEF TapTypes, Bits
<1>2. Tap!Selected \in {idcode_q, addr_q, data_q, <<bypass_q>>}
    BY DEF Tap!Selected
<1>3. Tap!Selected \in Bits /\ Len(Tap!Selected) \in {1, Width}
    BY <1>1, <1>2 DEF TapTypes
<1>4. ASSUME NEW k \in {1, Width} PROVE k \in Nat \ {0}
    BY DEF Tap!TapAssumption
<1>5. Len(Tap!Selected) \in Nat \ {0}
    BY <1>3, <1>4
<1>6. Len(<< >>) = 0
    OBVIOUS
<1> QED BY <1>3, <1>5, <1>6

LEMMA SelectedBitsNext ==
    ASSUME Tap!TapAssumption
    PROVE  TapTypes' => /\ Tap!Selected' \in Bits /\ Tap!Selected' # << >>
                        /\ Len(Tap!Selected') \in Nat \ {0}
<1>1. TapTypes => /\ Tap!Selected \in Bits /\ Tap!Selected # << >>
                  /\ Len(Tap!Selected) \in Nat \ {0}
    BY SelectedBits
<1>2. TapTypes' => (/\ Tap!Selected \in Bits /\ Tap!Selected # << >>
                    /\ Len(Tap!Selected) \in Nat \ {0})'
    BY <1>1, PTL
<1> QED BY <1>2

LEMMA RegisterBits ==
    ASSUME NEW n \in Nat, NEW r \in Tap!Register(n)
    PROVE  r \in Bits /\ Len(r) = n
BY DEF Tap!Register, Tap!Bit, Bits

LEMMA SelectedMoves ==
    ASSUME TapTypes, NEW tdi \in {0, 1}, NEW rdata, Tap!DrEdge(tdi, rdata), ir_q' = ir_q
    PROVE  /\ state_q = "SHIFT_DR" => Tap!Selected' = Tap!ShiftReg(Tap!Selected, tdi)
           /\ state_q \notin {"SHIFT_DR", "CAPTURE_DR"} => Tap!Selected' = Tap!Selected
<1>1. Tap!ShiftReg(<<bypass_q>>, tdi) = <<tdi>>
    BY DEF TapTypes, Tap!ShiftReg
<1>2. /\ Tap!IR_IDCODE # Tap!IR_DBG_ADDR /\ Tap!IR_IDCODE # Tap!IR_DBG_DATA
      /\ Tap!IR_DBG_ADDR # Tap!IR_DBG_DATA
    BY DEF Tap!IR_IDCODE, Tap!IR_DBG_ADDR, Tap!IR_DBG_DATA
<1>3. CASE state_q = "SHIFT_DR"
    BY <1>1, <1>2, <1>3 DEF Tap!DrEdge, Tap!Shifting, Tap!Selected
<1>4. CASE state_q \notin {"SHIFT_DR", "CAPTURE_DR"}
    BY <1>4 DEF Tap!DrEdge, Tap!Shifting, Tap!Selected
<1> QED BY <1>3, <1>4

LEMMA TapTypesKept ==
    ASSUME Tap!TapAssumption, TapTypes, NEW tms \in {0, 1}, NEW tdi \in {0, 1},
           NEW rdata \in Returned, Tap!Edge(tms, tdi, rdata)
    PROVE  TapTypes'
<1>1. state_q' = Tap!NextState(state_q, tms) /\ Tap!IrEdge(tdi) /\ Tap!DrEdge(tdi, rdata)
    BY DEF Tap!Edge, Tap!TckEdge
<1>2. /\ IdCode \in Bits /\ Len(IdCode) = Width /\ Width \in Nat \ {0}
      /\ rdata \in Bits /\ Len(rdata) = Width
    BY RegisterBits DEF Tap!TapAssumption
<1>3. /\ Tap!IR_IDCODE \in Bits /\ Tap!CaptureIr \in Bits /\ Len(Tap!CaptureIr) = 4
      /\ << >> \in Bits
    BY DEF Tap!IR_IDCODE, Tap!CaptureIr, Bits
<1>4. \A reg \in Bits : Len(reg) \in {4, Width} =>
          Tap!ShiftReg(reg, tdi) \in Bits /\ Len(Tap!ShiftReg(reg, tdi)) = Len(reg)
    <2>1. Len(<< >>) = 0
        OBVIOUS
    <2>2. ASSUME NEW reg \in Bits, Len(reg) \in {4, Width}
          PROVE  Tap!ShiftReg(reg, tdi) \in Bits /\ Len(Tap!ShiftReg(reg, tdi)) = Len(reg)
        <3>1. Len(reg) # 0
            BY <1>2, <2>2
        <3>2. reg # << >>
            BY <2>1, <3>1
        <3> QED BY <3>2, Shifts
    <2> QED BY <2>2
<1>5. ir_q' \in Bits /\ ir_shift_q' \in Bits /\ Len(ir_shift_q') = 4
    BY <1>1, <1>3, <1>4 DEF Tap!IrEdge, TapTypes
<1>6. idcode_q' \in Bits /\ Len(idcode_q') = Width
    BY <1>1, <1>2, <1>4 DEF Tap!DrEdge, TapTypes
<1>7. data_q' \in Bits /\ Len(data_q') = Width /\ addr_q' \in Bits /\ Len(addr_q') = Width
    BY <1>1, <1>2, <1>4 DEF Tap!DrEdge, TapTypes
<1>8. bypass_q' \in {0, 1}
    BY <1>1 DEF Tap!DrEdge, TapTypes
<1>9. (Tap!Selected \in Bits)'
    <2>1. <<bypass_q'>> \in Bits
        BY <1>8 DEF Bits
    <2> QED BY <1>6, <1>7, <2>1 DEF Tap!Selected
<1>10. Append(shifted, tdi) \in Bits
    BY DEF TapTypes, Bits
<1>11. captured' \in Bits /\ shifted' \in Bits
    <2>1. CASE state_q \in {"CAPTURE_DR", "CAPTURE_IR"}
        BY <1>3, <1>9, <2>1 DEF Tap!Edge
    <2>2. CASE state_q \in {"SHIFT_DR", "SHIFT_IR"}
        BY <1>10, <2>2 DEF Tap!Edge, TapTypes
    <2>3. CASE state_q \in {"SELECT_DR", "TEST_LOGIC_RESET"}
        BY <1>3, <2>3 DEF Tap!Edge
    <2>4. CASE state_q \notin {"CAPTURE_DR", "CAPTURE_IR", "SHIFT_DR", "SHIFT_IR",
                               "SELECT_DR", "TEST_LOGIC_RESET"}
        BY <2>4 DEF Tap!Edge, TapTypes
    <2> QED BY <2>1, <2>2, <2>3, <2>4
<1> QED BY <1>1, <1>5, <1>6, <1>7, <1>8, <1>11, NextStates DEF TapTypes

\* An edge moves the scan of a data register on, and that of the instruction
\* register.
LEMMA DrScanKept ==
    ASSUME Tap!TapAssumption, TapTypes, InDrScan, TapTypes',
           NEW tms \in {0, 1}, NEW tdi \in {0, 1}, NEW rdata \in Returned,
           Tap!Edge(tms, tdi, rdata)
    PROVE  InDrScan'
<1>1. state_q' = Tap!NextState(state_q, tms) /\ Tap!IrEdge(tdi) /\ Tap!DrEdge(tdi, rdata)
    BY DEF Tap!Edge, Tap!TckEdge
<1>2. SUFFICES ASSUME state_q' \in Tap!DrScan
               PROVE  /\ Len(Tap!Selected') \in Nat \ {0}
                      /\ Len(captured') = Len(Tap!Selected')
                      /\ Tap!Selected' = Tap!LastBits(Len(Tap!Selected'), captured' \o shifted')
    BY DEF InDrScan, Holds, Scanned, Tap!LastBits
<1>3. state_q \in Tap!DrScan \cup {"CAPTURE_DR"}
    BY <1>1, <1>2, NextStates DEF TapTypes
<1>4. ir_q' = ir_q
    BY <1>1, <1>3 DEF Tap!IrEdge, Tap!DrScan
<1>5. CASE state_q = "CAPTURE_DR"
    <2>1. captured' = Tap!Selected' /\ shifted' = << >>
        BY <1>5 DEF Tap!Edge
    <2>2. Tap!Selected' \in Bits /\ Tap!Selected' # << >> /\ Len(Tap!Selected') \in Nat \ {0}
        BY SelectedBitsNext
    <2> QED BY <2>1, <2>2, ScanBegins
<1>6. CASE state_q = "SHIFT_DR"
    <2>1. Holds(Tap!Selected, Len(Tap!Selected))
        BY <1>6 DEF InDrScan, Tap!DrScan
    <2>2. captured' = captured /\ shifted' = Append(shifted, tdi)
        BY <1>6 DEF Tap!Edge
    <2>3. Tap!Selected' = Tap!ShiftReg(Tap!Selected, tdi)
        BY <1>1, <1>4, <1>6, SelectedMoves
    <2>4. Tap!ShiftReg(Tap!Selected, tdi)
              = Tap!LastBits(Len(Tap!Selected), captured \o Append(shifted, tdi))
        BY <2>1, ScanGoesOn
    <2>5. Tap!Selected \in Bits /\ Tap!Selected # << >>
        BY SelectedBits
    <2>6. Len(Tap!Selected') = Len(Tap!Selected)
        BY <2>3, <2>5, Shifts
    <2> QED BY <2>1, <2>2, <2>3, <2>4, <2>6 DEF Holds
<1>7. CASE state_q \notin {"CAPTURE_DR", "SHIFT_DR"}
    <2>1. Holds(Tap!Selected, Len(Tap!Selected))
        BY <1>3, <1>7 DEF InDrScan
    <2>2. captured' = captured /\ shifted' = shifted
        BY <1>3, <1>7 DEF Tap!Edge, Tap!DrScan
    <2>3. Tap!Selected' = Tap!Selected
        BY <1>1, <1>4, <1>7, SelectedMoves
    <2> QED BY <2>1, <2>2, <2>3 DEF Holds, Scanned
<1> QED BY <1>5, <1>6, <1>7

LEMMA IrScanKept ==
    ASSUME TapTypes, InIrScan, NEW tms \in {0, 1}, NEW tdi \in {0, 1}, NEW rdata,
           Tap!Edge(tms, tdi, rdata)
    PROVE  InIrScan'
<1>1. state_q' = Tap!NextState(state_q, tms) /\ Tap!IrEdge(tdi)
    BY DEF Tap!Edge, Tap!TckEdge
<1>2. SUFFICES ASSUME state_q' \in Tap!IrScan
               PROVE  /\ Len(captured') = 4
                      /\ ir_shift_q' = Tap!LastBits(4, captured' \o shifted')
    <2>1. (Tap!LastBits(4, Scanned))' = Tap!LastBits(4, captured' \o shifted')
        BY Zenon DEF Scanned, Tap!LastBits
    <2>2. 4 \in Nat \ {0}
        OBVIOUS
    <2> QED BY <2>1, <2>2, Zenon DEF InIrScan, Holds
<1>3. state_q \in Tap!IrScan \cup {"CAPTURE_IR"}
    BY <1>1, <1>2, NextStates DEF TapTypes
<1>4. CASE state_q = "CAPTURE_IR"
    <2>1. captured' = Tap!CaptureIr /\ shifted' = << >> /\ ir_shift_q' = Tap!CaptureIr
        BY <1>1, <1>4 DEF Tap!Edge, Tap!IrEdge
    <2>2. Tap!CaptureIr \in Bits /\ Tap!CaptureIr # << >> /\ Len(Tap!CaptureIr) = 4
        BY DEF Tap!CaptureIr, Bits
    <2> QED BY <2>1, <2>2, ScanBegins
<1>5. CASE state_q = "SHIFT_IR"
    <2>1. Holds(ir_shift_q, 4)
        BY <1>5 DEF InIrScan, Tap!IrScan
    <2>2. captured' = captured /\ shifted' = Append(shifted, tdi)
        BY <1>5 DEF Tap!Edge
    <2>3. ir_shift_q' = Tap!ShiftReg(ir_shift_q, tdi)
        BY <1>1, <1>5 DEF Tap!IrEdge
    <2>4. Tap!ShiftReg(ir_shift_q, tdi) = Tap!LastBits(4, captured \o Append(shifted, tdi))
        BY <2>1, ScanGoesOn
    <2> QED BY <2>1, <2>2, <2>3, <2>4 DEF Holds
<1>6. CASE state_q \notin {"CAPTURE_IR", "SHIFT_IR"}
    <2>1. Holds(ir_shift_q, 4)
        BY <1>3, <1>6 DEF InIrScan
    <2>2. captured' = captured /\ shifted' = shifted
        BY <1>3, <1>6 DEF Tap!Edge, Tap!IrScan
    <2>3. ir_shift_q' = ir_shift_q
        BY <1>1, <1>6 DEF Tap!IrEdge
    <2> QED BY <2>1, <2>2, <2>3 DEF Holds, Scanned
<1> QED BY <1>4, <1>5, <1>6

LEMMA OnesLeadKept ==
    ASSUME TapTypes, OnesLead, NEW tms \in {0, 1}, NEW tdi, NEW rdata,
           Tap!Edge(tms, tdi, rdata)
    PROVE  OnesLead'
<1>1. /\ state_q' = Tap!NextState(state_q, tms) /\ Tap!IrEdge(tdi)
      /\ ones' = IF tms = 0 THEN 0 ELSE IF ones = 6 THEN 6 ELSE ones + 1
    BY DEF Tap!Edge, Tap!TckEdge
<1>2. CASE tms = 0
    BY <1>1, <1>2, NextStates DEF OnesLead, AfterOnes, TapTypes
<1>3. CASE tms = 1 /\ ones < 5
    <2>1. ones \in 0..5 /\ ones' = ones + 1 /\ ones' \in 0..5
        BY <1>1, <1>3 DEF OnesLead
    <2>2. Tap!NextState(state_q, 1) \in AfterOnes(ones + 1)
        BY <2>1, OnesReset DEF OnesLead, TapTypes
    <2> QED BY <1>1, <1>3, <2>1, <2>2 DEF OnesLead, AfterOnes
<1>4. CASE tms = 1 /\ ones \in {5, 6}
    <2>1. state_q = "TEST_LOGIC_RESET"
        BY <1>4 DEF OnesLead, AfterOnes
    <2>2. ir_q' = Tap!IR_IDCODE /\ ones' = 6
        BY <1>1, <1>4, <2>1 DEF Tap!IrEdge
    <2>3. state_q' = "TEST_LOGIC_RESET"
        BY <1>1, <1>4, <2>1 DEF Tap!NextState, Tap!Controller
    <2> QED BY <2>2, <2>3 DEF OnesLead, AfterOnes
<1> QED BY <1>2, <1>3, <1>4 DEF OnesLead

\* Reset, at the start or at any time.
LEMMA AtReset ==
    ASSUME Tap!TapAssumption, Tap!Init
    PROVE  TapInv
<1>1. IdCode \in Bits /\ Len(IdCode) = Width /\ Width \in Nat \ {0}
    BY RegisterBits DEF Tap!TapAssumption
<1>2. \A n \in Nat : Tap!Zeros(n) \in Bits /\ Len(Tap!Zeros(n)) = n
    BY DEF Tap!Zeros, Bits
<1>3. Tap!IR_IDCODE \in Bits /\ << >> \in Bits
    BY DEF Tap!IR_IDCODE, Bits
<1>4. TapTypes
    BY <1>1, <1>2, <1>3 DEF Tap!Init, TapTypes, Tap!States, Tap!Controller
<1> QED BY <1>4 DEF Tap!Init, TapInv, InDrScan, InIrScan, OnesLead, AfterOnes,
                    Tap!DrScan, Tap!IrScan, TapTypes

LEMMA AtResetNext == ASSUME Tap!TapAssumption PROVE Tap!TestReset => TapInv'
<1>1. Tap!Init => TapInv
    BY AtReset
<1>2. Tap!TestReset => Tap!Init'
    BY DEF Tap!TestReset, Tap!Init
<1> QED BY <1>1, <1>2, PTL

LEMMA TapInvariance == ASSUME Tap!TapAssumption PROVE Tap!Spec => []TapInv
<1>1. Tap!Init => TapInv
    BY AtReset
<1>2. TapInv /\ [Tap!Next]_(Tap!vars) => TapInv'
    <2> SUFFICES ASSUME TapInv, [Tap!Next]_(Tap!vars) PROVE TapInv'
        OBVIOUS
    <2>1. ASSUME NEW tms \in {0, 1}, NEW tdi \in {0, 1}, NEW rdata \in Returned,
                 Tap!Edge(tms, tdi, rdata)
          PROVE  TapInv'
        <3>1. TapTypes'
            BY <2>1, TapTypesKept DEF TapInv
        <3>2. InDrScan'
            BY <2>1, <3>1, DrScanKept DEF TapInv
        <3>3. InIrScan' /\ OnesLead'
            BY <2>1, IrScanKept, OnesLeadKept DEF TapInv
        <3> QED BY <3>1, <3>2, <3>3 DEF TapInv
    <2>2. CASE Tap!TestReset
        BY <2>2, AtResetNext
    <2>3. CASE UNCHANGED Tap!vars
        BY <2>3 DEF Tap!vars, Tap!tapVars, TapInv, TapTypes, InDrScan, InIrScan, OnesLead,
                    Holds, Scanned, Tap!Selected
    <2> QED BY <2>1, <2>2, <2>3 DEF Tap!Next, Tap!Bit
<1> QED BY <1>1, <1>2, PTL DEF Tap!Spec

\* The bit that leaves the register while it shifts.
LEMMA FirstBit ==
    ASSUME TapTypes, NEW n, NEW reg, Holds(reg, n)
    PROVE  reg[1] = Scanned[Len(shifted) + 1] /\ Head(reg) = reg[1]
<1>1. Scanned \in Bits /\ n \in 1..Len(Scanned) /\ Len(Scanned) - n + 1 = Len(shifted) + 1
    <2>1. captured \in Bits /\ shifted \in Bits /\ n = Len(captured) /\ n \in Nat \ {0}
        BY DEF TapTypes, Holds
    <2>2. Scanned \in Bits /\ Len(Scanned) = n + Len(shifted) /\ Len(shifted) \in Nat
        BY <2>1 DEF Scanned, Bits
    <2> QED BY <2>1, <2>2
<1>2. reg \in Bits /\ Len(reg) = n /\ \A i \in 1..n : reg[i] = Scanned[Len(Scanned) - n + i]
    BY <1>1, LastOf DEF Holds
<1>3. 1 \in 1..n /\ Head(reg) = reg[1]
    BY <1>1, <1>2 DEF Bits
<1> QED BY <1>1, <1>2, <1>3

\* The test access port, for registers of every width and whatever the debug
\* bus returns: through shifts and pauses the register a scan runs through
\* holds the last of the bits it captured and received, TDO presents them in
\* order, and five edges with tms high reset the controller from anywhere.
THEOREM ScansAreExact ==
    ASSUME Tap!TapAssumption
    PROVE  Tap!Spec => []TapExact
<1>1. TapInv => Tap!TapExact
    <2> SUFFICES ASSUME TapInv PROVE Tap!TapExact
        OBVIOUS
    <2>1. Scanned = Tap!Scan
        BY DEF Scanned, Tap!Scan
    <2>2. state_q \in Tap!DrScan => Tap!Selected = Tap!LastBits(Len(captured), Tap!Scan)
        BY <2>1 DEF TapInv, InDrScan, Holds
    <2>3. state_q \in Tap!IrScan => ir_shift_q = Tap!LastBits(4, Tap!Scan)
        BY <2>1 DEF TapInv, InIrScan, Holds
    <2>7. Tap!ResetByTms
        BY DEF TapInv, OnesLead, AfterOnes, Tap!ResetByTms
    <2>4. CASE state_q = "SHIFT_DR"
        <3>1. Holds(Tap!Selected, Len(Tap!Selected))
            BY <2>4 DEF TapInv, InDrScan, Tap!DrScan
        <3>2. Tap!Tdo = Tap!Scan[Len(shifted) + 1]
            BY <2>1, <2>4, <3>1, FirstBit DEF TapInv, Tap!Tdo, Tap!TdoDr
        <3> QED BY <2>2, <2>3, <3>2, <2>7 DEF Tap!TapExact, Tap!ScanExact
    <2>5. CASE state_q = "SHIFT_IR"
        <3>1. Holds(ir_shift_q, 4)
            BY <2>5 DEF TapInv, InIrScan, Tap!IrScan
        <3>2. Tap!Tdo = Tap!Scan[Len(shifted) + 1]
            BY <2>1, <2>5, <3>1, FirstBit DEF TapInv, Tap!Tdo
        <3> QED BY <2>2, <2>3, <3>2, <2>7 DEF Tap!TapExact, Tap!ScanExact
    <2>6. CASE state_q \notin {"SHIFT_DR", "SHIFT_IR"}
        BY <2>2, <2>3, <2>6, <2>7 DEF Tap!TapExact, Tap!ScanExact
    <2> QED BY <2>4, <2>5, <2>6
<1>2. TapInv => TapExact
    BY <1>1 DEF TapExact
<1> QED BY <1>2, TapInvariance, PTL

-----------------------------------------------------------------------------
(* The debug path as a whole.                                                *)

Debugs == Debug!DebugRequest
Shown == {"window"}

\* The answer is to the request made last, which no other can have replaced.
Told ==
    asked # {} =>
        /\ asked = {req_q}
        /\ ~busy_q => dbg_rdata_o = { <<req_q, "window">> }
DebugInv == BridgeTypes /\ Handshake(Shown) /\ addr_q \in Debug!Data /\ Told

\* The crossing inside the debug path is the one proved about above.
LEMMA SameCells ==
    /\ Debug!Bridge!AccStrobe = Bridge!AccStrobe
    /\ Debug!Bridge!AckTck = Bridge!AckTck
    /\ Debug!Bridge!AckToggleNext = IF ack_pulse THEN ~ack_toggle ELSE ack_toggle
    /\ \A chain, d : Debug!Bridge!ShiftIn(chain, d) = Bridge!ShiftIn(chain, d)
    /\ \A chain : Debug!Bridge!Output(Stages, chain) = Bridge!Output(Stages, chain)
    /\ Debug!Bridge!Cleared(Stages) = Bridge!Cleared(Stages)
BY DEF Debug!Bridge!AccStrobe, Debug!Bridge!AckTck, Debug!Bridge!AckToggleNext,
       Debug!Bridge!ShiftIn, Debug!Bridge!Output, Debug!Bridge!Cleared,
       Debug!Bridge!Toggled, Bridge!AccStrobe, Bridge!AckTck, Bridge!ShiftIn,
       Bridge!Output, Bridge!Cleared, Bridge!Toggled

\* What the TAP asks for is a request, and the address register keeps its type.
LEMMA DebugTck ==
    ASSUME Debug!Tap!TapAssumption, BridgeTypes, addr_q \in Debug!Data,
           NEW tms \in {0, 1}, NEW tdi \in Debug!Sent, Debug!TckEdge(tms, tdi)
    PROVE  /\ OnTck /\ AckLine(TRUE) /\ addr_q' \in Debug!Data
           /\ Debug!Bridge!ReqAccept(Debug!TapRequest) <=> Accepts
           /\ Accepts => req_q' \in Debugs /\ asked' = {req_q'}
           /\ ~Accepts => asked' = asked
<1>1. Debug!TapRequest = {} \/ \E r \in Debugs : Debug!TapRequest = {r}
    BY DEF Debug!TapRequest, Debugs, Debug!DebugRequest, Debug!Tap!DbgWe
<1>2. Debug!Tap!DbgReq <=> Debug!TapRequest # {}
    BY DEF Debug!TapRequest
<1>3. /\ busy_q => ~Debug!Tap!DbgReq
      /\ Debug!Bridge!TckEdge(Debug!TapRequest)
      /\ asked' = IF Debug!Tap!DbgReq THEN Debug!TapRequest ELSE asked
    BY DEF Debug!TckEdge
<1>4. addr_q' \in Debug!Data
    <2>1. tdi \in {0, 1}
        BY DEF Debug!Sent
    <2>2. addr_q' = addr_q \/ addr_q' = Debug!Tap!ShiftReg(addr_q, tdi)
        BY DEF Debug!TckEdge, Debug!Tap!TckEdge, Debug!Tap!DrEdge
    <2>3. Debug!Tap!ShiftReg(addr_q, tdi) \in Debug!Data
        <3>1. DebugWidth \in Nat \ {0}
            BY DEF Debug!Tap!TapAssumption
        <3>2. addr_q \in Bits /\ Len(addr_q) = DebugWidth /\ addr_q # << >>
            BY <3>1 DEF Debug!Data, Bits
        <3>3. PICK reg : reg = Debug!Tap!ShiftReg(addr_q, tdi)
            OBVIOUS
        <3>4. reg \in Bits /\ Len(reg) = DebugWidth
            BY <2>1, <3>2, <3>3 DEF Debug!Tap!ShiftReg, Bits
        <3> QED BY <3>3, <3>4 DEF Debug!Data, Bits
    <2> QED BY <2>2, <2>3
<1>5. AckLine(TRUE)
    BY <1>3, SameCells DEF Debug!Bridge!TckEdge, AckLine
<1>6. CASE Debug!Bridge!ReqAccept(Debug!TapRequest)
    BY <1>1, <1>2, <1>3, <1>4, <1>5, <1>6, SameCells
    DEF Debug!Bridge!TckEdge, Debug!Bridge!ReqAccept, OnTck, Accepts
<1>7. CASE ~Debug!Bridge!ReqAccept(Debug!TapRequest)
    BY <1>1, <1>2, <1>3, <1>4, <1>5, <1>7, SameCells
    DEF Debug!Bridge!TckEdge, Debug!Bridge!ReqAccept, OnTck, Accepts
<1> QED BY <1>6, <1>7

LEMMA DebugClk ==
    ASSUME Debug!Bridge!ClkEdge("window")
    PROVE  OnClk(Shown) /\ ReqLine(TRUE)
<1>1. CASE Bridge!AccStrobe
    BY <1>1, SameCells DEF Debug!Bridge!ClkEdge, OnClk, ReqLine, Shown
<1>2. CASE ~Bridge!AccStrobe
    BY <1>2, SameCells DEF Debug!Bridge!ClkEdge, OnClk, ReqLine, Shown
<1> QED BY <1>1, <1>2

LEMMA DebugEdges ==
    ASSUME Debug!Tap!TapAssumption, BridgeTypes, addr_q \in Debug!Data, Debug!Next
    PROVE  \E onTck, onClk \in BOOLEAN :
               /\ Edge(Shown, Debugs, onTck, onClk)
               /\ addr_q' \in Debug!Data
               /\ Accepts => asked' = {req_q'}
               /\ ~Accepts => asked' = asked
<1>1. CASE Debug!Tck
    <2>1. Edge(Shown, Debugs, TRUE, FALSE)
        BY <1>1, DebugTck, SameCells
        DEF Debug!Tck, Debug!Bridge!Count, Debug!clkVars, Edge, OffClk, ReqLine
    <2> QED BY <1>1, <2>1, DebugTck DEF Debug!Tck
<1>2. CASE Debug!Clk
    <2>1. ~Debug!Bridge!ReqAccept({})
        BY DEF Debug!Bridge!ReqAccept
    <2>2. OffTck /\ AckLine(FALSE) /\ ~Accepts /\ asked' = asked /\ addr_q' = addr_q
        BY <1>2 DEF Debug!Clk, Debug!tckVars, Debug!tapVars, OffTck, AckLine, Accepts, BridgeTypes
    <2>3. Edge(Shown, Debugs, FALSE, TRUE)
        BY <1>2, <2>1, <2>2, DebugClk, SameCells DEF Debug!Clk, Debug!Bridge!Count, Edge
    <2> QED BY <2>2, <2>3
<1>3. CASE Debug!Both
    <2>1. Edge(Shown, Debugs, TRUE, TRUE)
        BY <1>3, DebugTck, DebugClk, SameCells DEF Debug!Both, Debug!Bridge!Count, Edge
    <2> QED BY <1>3, <2>1, DebugTck DEF Debug!Both
<1> QED BY <1>1, <1>2, <1>3 DEF Debug!Next

LEMMA EdgeTypes ==
    ASSUME Bridge!BridgeAssumption, BridgeTypes, NEW S, NEW R,
           NEW onTck \in BOOLEAN, NEW onClk \in BOOLEAN, Edge(S, R, onTck, onClk)
    PROVE  BridgeTypes'
<1>1. busy_q' \in BOOLEAN /\ req_toggle' \in BOOLEAN
    BY DEF Edge, OnTck, OffTck, Accepts, BridgeTypes
<1>2. ack_pulse' \in BOOLEAN /\ ack_toggle' \in BOOLEAN
    BY DEF Edge, OnClk, OffClk, BridgeTypes, Bridge!AccStrobe, Bridge!Toggled
<1>3. req_sync' \in Bridge!Chain(Stages) /\ ack_sync' \in Bridge!Chain(Stages)
    BY ChainsShift DEF Edge, ReqLine, AckLine, BridgeTypes
<1> QED BY <1>1, <1>2, <1>3 DEF BridgeTypes

LEMMA DebugStep ==
    ASSUME Bridge!BridgeAssumption, Debug!Tap!TapAssumption, DebugInv, Debug!Next
    PROVE  DebugInv' /\ [Remote!Next]_(Remote!remoteVars)
<1>1. BridgeTypes /\ Handshake(Shown) /\ addr_q \in Debug!Data /\ Told
    BY DEF DebugInv
<1>2. PICK onTck, onClk \in BOOLEAN :
          /\ Edge(Shown, Debugs, onTck, onClk)
          /\ addr_q' \in Debug!Data
          /\ Accepts => asked' = {req_q'}
          /\ ~Accepts => asked' = asked
    BY <1>1, DebugEdges
<1>3. BridgeTypes' /\ Handshake(Shown)'
    BY <1>1, <1>2, EdgeTypes, TokenMoves DEF Handshake
<1>4. Asks(Debugs) \/ Performs(Shown) \/ Answers(Shown) \/ Waits
    BY <1>1, <1>2, AccessMoves
<1>5. [Remote!Next]_(Remote!remoteVars)
    BY <1>4 DEF Asks, Performs, Answers, Waits, Remote!Next, Remote!Ask, Remote!Perform,
                Remote!Answer, Remote!remoteVars, Debugs, Shown
<1>6. Told'
    <2>1. CASE Asks(Debugs)
        BY <1>2, <2>1 DEF Asks, Accepts, Told
    <2>2. CASE Performs(Shown)
        BY <1>1, <1>2, <2>2 DEF Performs, Accepts, Told
    <2>3. CASE Answers(Shown)
        BY <1>1, <1>2, <2>3 DEF Answers, Accepts, Told, Read, Shown
    <2>4. CASE Waits
        BY <1>1, <1>2, <2>4 DEF Waits, Accepts, Told
    <2> QED BY <1>4, <2>1, <2>2, <2>3, <2>4
<1> QED BY <1>2, <1>3, <1>5, <1>6 DEF DebugInv

\* Whatever the host shifts through the TAP and however the two clocks run: if
\* it waits for one access to end before it makes the next, each access is
\* performed once, and what a scan captures is the answer to the last one.
THEOREM DebugIsAtomic ==
    ASSUME Bridge!BridgeAssumption, Debug!Tap!TapAssumption
    PROVE  Debug!Spec => DebugIsRemote
<1>1. Debug!Init => DebugInv /\ Remote!Init
    <2> SUFFICES ASSUME Debug!Init PROVE DebugInv /\ Remote!Init
        OBVIOUS
    <2>1. /\ busy_q = FALSE /\ req_toggle = FALSE /\ ack_last = FALSE /\ req_last = FALSE
          /\ ack_pulse = FALSE /\ ack_toggle = FALSE /\ asked = {} /\ performed = 0
          /\ rdata_q = {} /\ dbg_rdata_o = {} /\ req_q = Debug!DebugZeroRequest
          /\ ack_sync = Bridge!Cleared(Stages) /\ req_sync = Bridge!Cleared(Stages)
        BY SameCells DEF Debug!Init
    <2>2. Bridge!Cleared(Stages) \in Bridge!Chain(Stages)
        BY DEF Bridge!Cleared, Bridge!Chain
    <2>3. \A i \in 1..Stages : Bridge!Cleared(Stages)[i] = FALSE
        BY DEF Bridge!Cleared
    <2>4. ReqStill /\ AckStill
        BY <2>1, <2>3 DEF ReqStill, AckStill, Still
    <2>5. Debug!ZeroData \in Debug!Data /\ Debug!DebugZeroRequest \in Debug!DebugRequest
        BY DEF Debug!ZeroData, Debug!Data, Debug!DebugZeroRequest, Debug!DebugRequest
    <2>6. addr_q \in Debug!Data
        BY <2>5 DEF Debug!Init
    <2>7. Remote!Init
        BY <2>1, <2>5 DEF Remote!Init
    <2> QED BY <2>1, <2>2, <2>4, <2>6, <2>7
            DEF DebugInv, BridgeTypes, Handshake, Resting, Told
<1>2. DebugInv /\ UNCHANGED Debug!vars => DebugInv' /\ UNCHANGED Remote!remoteVars
    <2> SUFFICES ASSUME DebugInv, UNCHANGED Debug!vars
                 PROVE  DebugInv' /\ UNCHANGED Remote!remoteVars
        OBVIOUS
    <2>1. /\ UNCHANGED <<Bridge!tckVars, Bridge!clkVars, performed, asked, addr_q>>
        BY DEF Debug!vars, Debug!tckVars, Debug!clkVars, Debug!tapVars,
               Bridge!tckVars, Bridge!clkVars
    <2>2. Handshake(Shown)' <=> Handshake(Shown)
        BY <2>1, HandshakeStays
    <2> QED BY <2>1, <2>2 DEF DebugInv, BridgeTypes, Told, Bridge!tckVars, Bridge!clkVars,
                             Remote!remoteVars
<1>3. DebugInv /\ [Debug!Next]_(Debug!vars)
          => DebugInv' /\ [Remote!Next]_(Remote!remoteVars)
    BY <1>2, DebugStep
<1>4. DebugInv => Debug!ReadsWhatItAsked
    BY DEF DebugInv, Told, Debug!ReadsWhatItAsked
<1>5. [Remote!Next]_(Remote!remoteVars)
          => [running = "debug" => Remote!Next]_<<busy_q, req_q, performed, rdata_q, dbg_rdata_o>>
    BY DEF Remote!remoteVars
<1> QED BY <1>1, <1>3, <1>4, <1>5, PTL DEF Debug!Spec, DebugIsRemote
=============================================================================
