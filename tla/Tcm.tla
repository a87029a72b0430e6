-------------------------------- MODULE Tcm ---------------------------------
(***************************************************************************)
(* The tightly coupled memory, cdriscv_32s_20_tcm: one access is accepted  *)
(* per edge of clk and answered after it; a partial store reads the word   *)
(* on the first edge and writes it back, merged, on the second, which      *)
(* accepts nothing.  A code word is its data and the number of its bits    *)
(* that have flipped; SEC-DED corrects one and detects two.  The raw port  *)
(* of the memory BIST is not used while the core runs and is left out, and *)
(* an injected fault is a flip right after the store it is applied to.     *)
(***************************************************************************)
EXTENDS Naturals

CONSTANTS Addr, Lane, Value

TcmAssumption == Addr # {} /\ Lane # {} /\ Value # {}

Word == [Lane -> Value]
CodeWord == [data : Word, flips : 0..2]
Access == [we : BOOLEAN, be : SUBSET Lane, addr : Addr, wdata : Word]

VARIABLES
    mem, rd_cw,
    phase2_q, rvalid_q, we_q, be_q, wdata_q, addr_q

tcmVars == <<mem, rd_cw, phase2_q, rvalid_q, we_q, be_q, wdata_q, addr_q>>

FullWord(acc) == acc.be = Lane
Partial(acc) == acc.we /\ ~FullWord(acc)

GntAlways == TRUE                                 \* mutant: phase 2 forgotten
Ready == ~phase2_q

\* ECC: what is encoded, what the array returns, what is decoded.  Two flips
\* decode to any word.
Encode(word) == [data |-> word, flips |-> 0]
ReadOut(cw) ==
    IF cw.flips = 2 THEN [data : Word, flips : {2}] ELSE {cw}

MergedStale == wdata_q                            \* mutant: no merge
Merged == [l \in Lane |-> IF l \in be_q THEN wdata_q[l] ELSE rd_cw.data[l]]

-----------------------------------------------------------------------------

\* The array and its output power up with anything in them, the registers
\* with zeros (some value and address stand for them).
TcmInit ==
    /\ mem \in [Addr -> CodeWord]
    /\ rd_cw \in CodeWord
    /\ phase2_q = FALSE
    /\ rvalid_q = FALSE
    /\ we_q = FALSE
    /\ be_q = {}
    /\ wdata_q = [l \in Lane |-> CHOOSE v \in Value : TRUE]
    /\ addr_q = CHOOSE a \in Addr : TRUE

\* What an accepted access leaves in the registers.
Accept(acc) ==
    /\ Ready
    /\ phase2_q' = Partial(acc)
    /\ rvalid_q' = TRUE
    /\ we_q' = acc.we /\ be_q' = acc.be
    /\ wdata_q' = acc.wdata /\ addr_q' = acc.addr

Read(acc) ==
    /\ ~acc.we \/ Partial(acc)
    /\ Accept(acc)
    /\ rd_cw' \in ReadOut(mem[acc.addr])
    /\ UNCHANGED mem

Write(acc) ==
    /\ acc.we /\ FullWord(acc)
    /\ Accept(acc)
    /\ mem' = [mem EXCEPT ![acc.addr] = Encode(acc.wdata)]
    /\ UNCHANGED rd_cw

\* The second edge of a partial store, whoever requests.
WriteBack ==
    /\ phase2_q
    /\ mem' = [mem EXCEPT ![addr_q] = Encode(Merged)]
    /\ phase2_q' = FALSE
    /\ rvalid_q' = FALSE
    /\ UNCHANGED <<rd_cw, we_q, be_q, wdata_q, addr_q>>

NoAccess ==
    /\ ~phase2_q
    /\ rvalid_q' = FALSE
    /\ UNCHANGED <<mem, rd_cw, phase2_q, we_q, be_q, wdata_q, addr_q>>

\* An edge with the request of req, a set of at most one access.
TcmEdge(req) ==
    \/ \E acc \in req : Read(acc) \/ Write(acc)
    \/ WriteBack
    \/ req = {} /\ NoAccess

\* A bit of a stored word flips between two edges; three flips in a word are
\* beyond the code.
Flip(a) ==
    /\ mem[a].flips < 2
    /\ mem' = [mem EXCEPT ![a].flips = @ + 1]
    /\ UNCHANGED <<rd_cw, phase2_q, rvalid_q, we_q, be_q, wdata_q, addr_q>>

TcmNext ==
    \/ \E req \in { {} } \cup { {acc} : acc \in Access } : TcmEdge(req)
    \/ \E a \in Addr : Flip(a)

TcmSpec == TcmInit /\ [][TcmNext]_tcmVars

\* The answer of this cycle: full stores are not checked.
Checked == ~we_q \/ be_q # Lane
Err == Checked /\ rd_cw.flips = 2
Reply ==
    IF ~rvalid_q THEN {}
    ELSE { [err |-> Err, data |-> IF we_q \/ Err THEN {} ELSE {rd_cw.data}] }

-----------------------------------------------------------------------------

TcmTypeOK ==
    /\ mem \in [Addr -> CodeWord] /\ rd_cw \in CodeWord
    /\ phase2_q \in BOOLEAN /\ rvalid_q \in BOOLEAN
    /\ we_q \in BOOLEAN /\ be_q \in SUBSET Lane
    /\ wdata_q \in Word /\ addr_q \in Addr

\* A word holds what the store under way will write, is lost with two flips,
\* and is its data otherwise.
Contents ==
    [a \in Addr |-> IF phase2_q /\ a = addr_q THEN {Merged}
                    ELSE IF mem[a].flips = 2 THEN {} ELSE {mem[a].data}]

=============================================================================
