----------------------------- MODULE BusProofs ------------------------------
(***************************************************************************)
(* The I-TCM behind the interconnect implements WordMemory: for every set  *)
(* of addresses, lanes and values, every set of accesses, and any number   *)
(* of flips, warm resets and requests of either master.                    *)
(* And each master gets its own answers: OwnInv says of every answer on    *)
(* its way which master it belongs to and that nothing else is on it.      *)
(***************************************************************************)
EXTENDS MCBus, TLAPS

\* The requests that reach the I-TCM are accesses it knows.
RequestsOK ==
    /\ access \subseteq DataRequests
    /\ fetch \subseteq Buses!FetchRequest

MemInv == Buses!TcmTypeOK /\ RequestsOK

LEMMA RequestIsAccess ==
    ASSUME MemInv
    PROVE  Buses!ItcmReq \subseteq Buses!Access
<1>1. Buses!ToSlave("itcm") \subseteq Buses!Access
    BY BusConstants DEF Buses!BusAssumption, MemInv, RequestsOK, Buses!ToSlave, Buses!DataReq
<1>2. Buses!ItcmReqFetch \subseteq Buses!Access
    <2>1. ASSUME NEW r \in Buses!FetchFrom("itcm")
          PROVE  Buses!FetchAccess(r) \in Buses!Access
        <3>1. r.addr \in Addr
            BY DEF MemInv, RequestsOK, Buses!FetchFrom, Buses!FetchRequest
        <3>2. wdata_q \in Buses!Word
            BY DEF MemInv, Buses!TcmTypeOK
        <3> QED BY <3>1, <3>2 DEF Buses!FetchAccess, Buses!Access
    <2> QED BY <2>1 DEF Buses!ItcmReqFetch
<1> QED BY <1>1, <1>2 DEF Buses!ItcmReq

\* What the array returns is a code word: the one stored, unless two of its
\* bits have flipped.
LEMMA ReadOutType ==
    ASSUME NEW cw \in Buses!CodeWord, NEW out \in Buses!ReadOut(cw)
    PROVE  /\ out \in Buses!CodeWord
           /\ out.flips = cw.flips
           /\ cw.flips # 2 => out = cw
BY DEF Buses!ReadOut, Buses!CodeWord

LEMMA EncodeType ==
    ASSUME NEW word \in Buses!Word
    PROVE  /\ Buses!Encode(word) \in Buses!CodeWord
           /\ Buses!Encode(word).data = word
           /\ Buses!Encode(word).flips = 0
BY DEF Buses!Encode, Buses!CodeWord

LEMMA MergedType ==
    ASSUME Buses!TcmTypeOK
    PROVE  Buses!Merged \in Buses!Word
BY DEF Buses!TcmTypeOK, Buses!Merged, Buses!Word, Buses!CodeWord

\* Type correctness of the memory holds across each of its steps.
LEMMA EdgeType ==
    ASSUME Buses!TcmTypeOK, NEW req \in SUBSET Buses!Access, Buses!TcmEdge(req)
    PROVE  Buses!TcmTypeOK'
<1>1. ASSUME NEW acc \in req, Buses!Read(acc) PROVE Buses!TcmTypeOK'
    <2>1. acc \in Buses!Access
        OBVIOUS
    <2>2. rd_cw' \in Buses!CodeWord
        BY <1>1, <2>1, ReadOutType DEF Buses!Read, Buses!TcmTypeOK, Buses!Access
    <2> QED BY <1>1, <2>1, <2>2 DEF Buses!Read, Buses!Accept, Buses!Partial, Buses!FullWord,
                                    Buses!Access, Buses!TcmTypeOK
<1>2. ASSUME NEW acc \in req, Buses!Write(acc) PROVE Buses!TcmTypeOK'
    <2>1. acc \in Buses!Access
        OBVIOUS
    <2>2. mem_cw' \in [Addr -> Buses!CodeWord]
        BY <1>2, <2>1, EncodeType DEF Buses!Write, Buses!TcmTypeOK, Buses!Access
    <2> QED BY <1>2, <2>1, <2>2 DEF Buses!Write, Buses!Accept, Buses!Partial, Buses!FullWord,
                                    Buses!Access, Buses!TcmTypeOK
<1>3. CASE Buses!WriteBack
    <2>1. mem_cw' \in [Addr -> Buses!CodeWord]
        BY <1>3, EncodeType, MergedType DEF Buses!WriteBack, Buses!TcmTypeOK
    <2> QED BY <1>3, <2>1 DEF Buses!WriteBack, Buses!TcmTypeOK
<1>4. CASE Buses!NoAccess
    BY <1>4 DEF Buses!NoAccess, Buses!TcmTypeOK
<1> QED BY <1>1, <1>2, <1>3, <1>4 DEF Buses!TcmEdge

\* A flip changes the number of flipped bits of one word and nothing else.
LEMMA FlipEffect ==
    ASSUME Buses!TcmTypeOK, NEW a \in Addr, Buses!Flip(a)
    PROVE  /\ mem_cw' \in [Addr -> Buses!CodeWord]
           /\ mem_cw'[a].data = mem_cw[a].data
           /\ mem_cw'[a].flips = mem_cw[a].flips + 1
           /\ \A b \in Addr \ {a} : mem_cw'[b] = mem_cw[b]
BY DEF Buses!Flip, Buses!TcmTypeOK, Buses!CodeWord

LEMMA FlipType ==
    ASSUME Buses!TcmTypeOK, NEW a \in Addr, Buses!Flip(a)
    PROVE  Buses!TcmTypeOK'
BY FlipEffect DEF Buses!Flip, Buses!TcmTypeOK

-----------------------------------------------------------------------------

LEMMA InitMemInv == Buses!Init => MemInv
<1> SUFFICES ASSUME Buses!Init PROVE MemInv
    OBVIOUS
<1>1. (CHOOSE v \in Value : TRUE) \in Value /\ (CHOOSE a \in Addr : TRUE) \in Addr
    BY BusConstants DEF Buses!TcmAssumption
<1>2. Buses!TcmTypeOK
    BY <1>1 DEF Buses!Init, Buses!TcmInit, Buses!TcmTypeOK, Buses!Word
<1>3. RequestsOK
    BY DEF Buses!Init, RequestsOK
<1> QED BY <1>2, <1>3 DEF MemInv

LEMMA NextMemInv == MemInv /\ [Buses!Next]_(Buses!vars) => MemInv'
<1> SUFFICES ASSUME MemInv, [Buses!Next]_(Buses!vars) PROVE MemInv'
    OBVIOUS
<1>1. CASE Buses!Clk
    <2>1. Buses!TcmTypeOK'
        BY <1>1, EdgeType, RequestIsAccess DEF Buses!Clk, MemInv
    <2>2. access' \subseteq DataRequests
        <3>1. CASE Buses!InReset
            BY <1>1, <3>1 DEF Buses!Clk, MemInv, RequestsOK, Buses!coreVars, Buses!lsuVars
        <3>2. CASE ~Buses!InReset
            BY <1>1, <3>2 DEF Buses!Clk, Buses!LsuEdge, MemInv, RequestsOK
        <3> QED BY <3>1, <3>2
    <2>3. fetch' \subseteq Buses!FetchRequest
        <3>1. CASE Buses!InReset
            BY <1>1, <3>1 DEF Buses!Clk, MemInv, RequestsOK, Buses!coreVars, Buses!fetchVars
        <3>2. CASE ~Buses!InReset
            BY <1>1, <3>2 DEF Buses!Clk, Buses!FetchEdge, MemInv, RequestsOK
        <3> QED BY <3>1, <3>2
    <2> QED BY <2>1, <2>2, <2>3 DEF MemInv, RequestsOK
<1>2. CASE Buses!WarmReset
    BY <1>2 DEF Buses!WarmReset, MemInv, RequestsOK, Buses!TcmTypeOK, Buses!tcmVars
<1>3. CASE Buses!Upset
    <2>1. Buses!TcmTypeOK'
        BY <1>3, FlipType DEF Buses!Upset, MemInv
    <2> QED BY <1>3, <2>1 DEF Buses!Upset, MemInv, RequestsOK, Buses!busVars, Buses!coreVars,
                              Buses!lsuVars, Buses!fetchVars
<1>4. CASE UNCHANGED Buses!vars
    BY <1>4 DEF MemInv, RequestsOK, Buses!TcmTypeOK, Buses!vars, Buses!tcmVars, Buses!busVars,
                Buses!coreVars,
                Buses!lsuVars, Buses!fetchVars
<1> QED BY <1>1, <1>2, <1>3, <1>4 DEF Buses!Next

-----------------------------------------------------------------------------
(* Each step of the memory is a step of WordMemory on the same request.      *)

\* A function changed at one point is an EXCEPT.
LEMMA ChangedAtOnePoint ==
    ASSUME NEW S, NEW f, NEW g, NEW a \in S, NEW v,
           f = [b \in S |-> f[b]], g = [b \in S |-> g[b]],
           \A b \in S : g[b] = IF b = a THEN v ELSE f[b]
    PROVE  g = [f EXCEPT ![a] = v]
OBVIOUS

LEMMA ContentsIsFunction ==
    /\ Buses!Contents = [b \in Addr |-> Buses!Contents[b]]
    /\ Buses!Contents' = [b \in Addr |-> Buses!Contents'[b]]
BY DEF Buses!Contents

LEMMA ReadIsServed ==
    ASSUME Buses!TcmTypeOK, NEW acc \in Buses!Access, Buses!Read(acc)
    PROVE  \/ Memory!Load(acc)
           \/ Memory!StorePart(acc)
<1> DEFINE a == acc.addr
<1>1. a \in Addr /\ acc.we \in BOOLEAN /\ acc.be \in SUBSET Lane /\ acc.wdata \in Buses!Word
    BY DEF Buses!Access
<1>2. mem_cw[a] \in Buses!CodeWord /\ ~phase2_q
    BY <1>1 DEF Buses!TcmTypeOK, Buses!Read, Buses!Accept, Buses!Ready
<1>3. /\ rd_cw' \in Buses!CodeWord
      /\ rd_cw'.flips = mem_cw[a].flips
      /\ mem_cw[a].flips # 2 => rd_cw' = mem_cw[a]
    BY <1>2, ReadOutType DEF Buses!Read
<1>4. /\ mem_cw' = mem_cw /\ rvalid_q' = TRUE
      /\ we_q' = acc.we /\ be_q' = acc.be /\ wdata_q' = acc.wdata /\ addr_q' = a
      /\ phase2_q' = Buses!Partial(acc)
    BY DEF Buses!Read, Buses!Accept
<1>5. Buses!Contents[a] = IF mem_cw[a].flips = 2 THEN {} ELSE {mem_cw[a].data}
    BY <1>1, <1>2 DEF Buses!Contents
<1>6. CASE ~acc.we
    <2>1. Buses!Contents' = Buses!Contents
        BY <1>2, <1>4, <1>6 DEF Buses!Contents, Buses!Partial
    <2>2. Buses!Reply' = { [err |-> rd_cw'.flips = 2,
                      data |-> IF rd_cw'.flips = 2 THEN {} ELSE {rd_cw'.data}] }
        BY <1>4, <1>6 DEF Buses!Reply, Buses!Err, Buses!Checked
    <2>3. Buses!Reply' = IF Buses!Contents[a] = {} THEN {Memory!Failed}
                   ELSE { Memory!Data(w) : w \in Buses!Contents[a] }
        <3>1. CASE mem_cw[a].flips = 2
            BY <3>1, <2>2, <1>3, <1>5 DEF Memory!Failed
        <3>2. CASE mem_cw[a].flips # 2
            BY <3>2, <2>2, <1>3, <1>5 DEF Memory!Data
        <3> QED BY <3>1, <3>2
    <2> QED BY <2>1, <2>3, <1>6 DEF Memory!Load
<1>7. CASE acc.we
    <2>1. acc.be # Lane /\ phase2_q'
        BY <1>4, <1>7 DEF Buses!Read, Buses!Partial, Buses!FullWord
    <2>2. rd_cw'.data \in Buses!Word /\ mem_cw[a].data \in Buses!Word
        BY <1>2, <1>3 DEF Buses!CodeWord
    <2>3. Buses!Merged' = Memory!Merge(rd_cw'.data, acc.wdata, acc.be)
        BY <1>4 DEF Buses!Merged, Memory!Merge
    <2>4. Buses!Contents' = [Buses!Contents EXCEPT ![a] = {Memory!Merge(rd_cw'.data, acc.wdata, acc.be)}]
        BY <1>2, <1>4, <2>1, <2>3 DEF Buses!Contents
    <2>5. Buses!Reply' = { [err |-> rd_cw'.flips = 2, data |-> {}] }
        BY <1>4, <1>7, <2>1 DEF Buses!Reply, Buses!Err, Buses!Checked
    <2>6. rd_cw'.data \in IF Buses!Contents[a] = {} THEN Memory!Word ELSE Buses!Contents[a]
        BY <1>3, <1>5, <2>2 DEF Memory!Word, Buses!Word
    <2>7. Buses!Reply' = IF Buses!Contents[a] = {} THEN {Memory!Failed} ELSE {Memory!Done}
        BY <1>3, <1>5, <2>5 DEF Memory!Failed, Memory!Done
    <2> QED BY <1>7, <2>1, <2>4, <2>6, <2>7 DEF Memory!StorePart
<1> QED BY <1>1, <1>6, <1>7

LEMMA WriteIsServed ==
    ASSUME Buses!TcmTypeOK, NEW acc \in Buses!Access, Buses!Write(acc)
    PROVE  Memory!StoreFull(acc)
<1>1. acc.addr \in Addr /\ acc.wdata \in Buses!Word
    BY DEF Buses!Access
<1>2. acc.we /\ acc.be = Lane /\ ~phase2_q
    BY DEF Buses!Write, Buses!Accept, Buses!Ready, Buses!FullWord
<1>3. /\ phase2_q' = FALSE /\ rvalid_q' = TRUE /\ we_q' = TRUE /\ be_q' = Lane
      /\ mem_cw' = [mem_cw EXCEPT ![acc.addr] = Buses!Encode(acc.wdata)]
    BY <1>2 DEF Buses!Write, Buses!Accept, Buses!Partial, Buses!FullWord
<1>4. Buses!Contents' = [Buses!Contents EXCEPT ![acc.addr] = {acc.wdata}]
    <2>1. mem_cw'[acc.addr] = Buses!Encode(acc.wdata)
        BY <1>1, <1>3 DEF Buses!TcmTypeOK
    <2>2. \A b \in Addr \ {acc.addr} : mem_cw'[b] = mem_cw[b]
        BY <1>3 DEF Buses!TcmTypeOK
    <2>3. Buses!Encode(acc.wdata).data = acc.wdata /\ Buses!Encode(acc.wdata).flips # 2
        BY <1>1, EncodeType
    <2>4. \A b \in Addr : Buses!Contents'[b] = IF b = acc.addr THEN {acc.wdata} ELSE Buses!Contents[b]
        BY <1>2, <1>3, <2>1, <2>2, <2>3 DEF Buses!Contents
    <2> QED BY <1>1, <2>4, ChangedAtOnePoint, ContentsIsFunction
<1>5. Buses!Reply' = {Memory!Done}
    BY <1>3 DEF Buses!Reply, Buses!Err, Buses!Checked, Memory!Done
<1> QED BY <1>2, <1>4, <1>5 DEF Memory!StoreFull

\* The second edge of a partial store changes nothing a master can see.
LEMMA WriteBackIsSilent ==
    ASSUME Buses!TcmTypeOK, Buses!WriteBack
    PROVE  Memory!NoAccess
<1>1. Buses!Contents' = Buses!Contents
    BY MergedType, EncodeType DEF Buses!WriteBack, Buses!Contents, Buses!TcmTypeOK
<1>2. Buses!Reply' = {}
    BY DEF Buses!WriteBack, Buses!Reply
<1> QED BY <1>1, <1>2 DEF Memory!NoAccess

LEMMA NoAccessIsSilent ==
    ASSUME Buses!TcmTypeOK, Buses!NoAccess
    PROVE  Memory!NoAccess
<1>1. Buses!Contents' = Buses!Contents
    BY DEF Buses!NoAccess, Buses!Contents, Buses!Merged
<1>2. Buses!Reply' = {}
    BY DEF Buses!NoAccess, Buses!Reply
<1> QED BY <1>1, <1>2 DEF Memory!NoAccess

\* The second flip loses the word, unless it is about to be written back.
LEMMA FlipIsLoss ==
    ASSUME Buses!TcmTypeOK, NEW a \in Addr, Buses!Flip(a)
    PROVE  Memory!Lose(a) \/ UNCHANGED <<Buses!Contents, Buses!Reply>>
<1>1. UNCHANGED <<rd_cw, phase2_q, rvalid_q, we_q, be_q, wdata_q, addr_q>>
    BY DEF Buses!Flip
<1>2. UNCHANGED Buses!Reply /\ UNCHANGED Buses!Merged
    BY <1>1 DEF Buses!Reply, Buses!Err, Buses!Checked, Buses!Merged
<1>3. mem_cw[a].flips \in 0..1
    BY DEF Buses!Flip, Buses!TcmTypeOK, Buses!CodeWord
<1>4. CASE (phase2_q /\ a = addr_q) \/ mem_cw[a].flips = 0
    <2>1. Buses!Contents' = Buses!Contents
        BY <1>1, <1>2, <1>4, FlipEffect DEF Buses!Contents
    <2> QED BY <1>2, <2>1
<1>5. CASE ~(phase2_q /\ a = addr_q) /\ mem_cw[a].flips = 1
    <2>1. Buses!Contents' = [Buses!Contents EXCEPT ![a] = {}]
        <3>1. /\ mem_cw'[a].flips = 2
              /\ \A b \in Addr \ {a} : mem_cw'[b] = mem_cw[b]
            BY <1>5, FlipEffect
        <3>2. \A b \in Addr : Buses!Contents'[b] = IF b = a THEN {} ELSE Buses!Contents[b]
            BY <1>1, <1>2, <1>5, <3>1 DEF Buses!Contents
        <3> QED BY <3>2, ChangedAtOnePoint, ContentsIsFunction
    <2> QED BY <1>2, <2>1 DEF Memory!Lose
<1> QED BY <1>3, <1>4, <1>5

LEMMA NextIsServed == MemInv /\ [Buses!Next]_(Buses!vars) => [Memory!Next]_<<Buses!Contents, Buses!Reply>>
<1> SUFFICES ASSUME MemInv, [Buses!Next]_(Buses!vars)
             PROVE  Memory!Next \/ UNCHANGED <<Buses!Contents, Buses!Reply>>
    BY DEF Memory!memoryVars
<1> USE DEF MemInv
<1>1. CASE Buses!Clk
    <2>1. Buses!TcmEdge(Buses!ItcmReq)
        BY <1>1 DEF Buses!Clk
    <2>2. ASSUME NEW acc \in Buses!ItcmReq, Buses!Read(acc) \/ Buses!Write(acc)
          PROVE  Memory!Next
        BY <2>2, RequestIsAccess, ReadIsServed, WriteIsServed DEF Memory!Next
    <2>3. ASSUME Buses!WriteBack \/ Buses!NoAccess
          PROVE  Memory!Next
        BY <2>3, WriteBackIsSilent, NoAccessIsSilent DEF Memory!Next
    <2> QED BY <2>1, <2>2, <2>3 DEF Buses!TcmEdge
<1>2. CASE Buses!WarmReset \/ UNCHANGED Buses!vars
    <2>1. UNCHANGED Buses!tcmVars
        BY <1>2 DEF Buses!WarmReset, Buses!vars
    <2>2. UNCHANGED Buses!Merged /\ UNCHANGED Buses!Reply
        BY <2>1 DEF Buses!tcmVars, Buses!Merged, Buses!Reply, Buses!Err, Buses!Checked
    <2> QED BY <2>1, <2>2 DEF Buses!tcmVars, Buses!Contents
<1>3. CASE Buses!Upset
    BY <1>3, FlipIsLoss DEF Buses!Upset, Memory!Next
<1> QED BY <1>1, <1>2, <1>3 DEF Buses!Next

LEMMA InitIsServed == Buses!Init => Memory!Init
<1> SUFFICES ASSUME Buses!Init PROVE Memory!Init
    OBVIOUS
<1>1. mem_cw \in [Addr -> Buses!CodeWord] /\ ~phase2_q /\ ~rvalid_q
    BY DEF Buses!Init, Buses!TcmInit
<1>2. \A a \in Addr : Buses!Contents[a] \in { {} } \cup { {w} : w \in Memory!Word }
    BY <1>1 DEF Buses!Contents, Buses!CodeWord, Buses!Word, Memory!Word
<1>3. Buses!Contents \in [Addr -> { {} } \cup { {w} : w \in Memory!Word }]
    BY <1>2 DEF Buses!Contents
<1> QED BY <1>1, <1>3 DEF Memory!Init, Buses!Reply

\* The memory, its ECC and the arbitration in front of it serve every access
\* they accept atomically, whatever flips, collides or is reset meanwhile.
THEOREM MemoryCorrect == Buses!Spec => MemorySpec
<1>1. Buses!Spec => []MemInv
    BY InitMemInv, NextMemInv, PTL DEF Buses!Spec
<1>2. QED
    BY <1>1, InitIsServed, NextIsServed, PTL
       DEF Buses!Spec, MemorySpec, Memory!Spec, Memory!memoryVars

-----------------------------------------------------------------------------
(* Who is answered.  The response lines carry no tag: that each answer goes  *)
(* to the master that asked follows from what every slave is busy with, which *)
(* OwnInv says slave by slave, and from the warm reset being longer than what *)
(* can still be on its way when it strikes.                                   *)

Asks(s) == lsu_state # "DATA" /\ \E r \in access : r.to = s
Awaits(s) == lsu_state = "DATA" /\ \E r \in access : r.to = s
FetchAwaits(s) == \E r \in fetched : r.to = s

MastersOK ==
    /\ lsu_state \in {"IDLE", "ADDR", "DATA"}
    /\ lsu_state = "DATA" => access # {}
    /\ access \in { {} } \cup { {r} : r \in DataRequests }
    /\ fetch \in { {} } \cup { {r} : r \in Buses!FetchRequest }
    /\ fetched \in { {} } \cup { {r} : r \in Buses!FetchRequest }

LinesOK ==
    /\ rvalid_q \in BOOLEAN /\ itcm_owner_q \in BOOLEAN /\ phase2_q \in BOOLEAN
    /\ err_rvalid_q \in BOOLEAN /\ err_owner_q \in BOOLEAN
    /\ d_phase2_q \in BOOLEAN /\ d_rvalid_q \in BOOLEAN /\ clint_rvalid_q \in BOOLEAN
    /\ apb_q \in {"IDLE", "SETUP", "ACCESS", "RESP"}
    /\ held \in Nat

\* A slave is busy for the data master exactly if that waits for it, and
\* answers the fetch stage exactly if a fetch was granted at the last edge.
SlavesOwn ==
    /\ rvalid_q /\ itcm_owner_q <=> Awaits("itcm")
    /\ d_rvalid_q <=> Awaits("dtcm")
    /\ apb_q # "IDLE" <=> Awaits("periph")
    /\ clint_rvalid_q <=> Awaits("clint")
    /\ err_rvalid_q /\ err_owner_q <=> Awaits("none")
    /\ rvalid_q /\ ~itcm_owner_q <=> FetchAwaits("itcm")
    /\ err_rvalid_q /\ ~err_owner_q <=> FetchAwaits("none")

\* Edges of the warm reset left when the bridge or a memory is still at an
\* access from before it.
Drains ==
    /\ lsu_state = "IDLE" /\ access = {} /\ fetch = {} /\ fetched = {}
    /\ ~itcm_owner_q /\ ~err_rvalid_q /\ ~err_owner_q /\ ~clint_rvalid_q
    /\ rvalid_q \/ d_rvalid_q => held >= 2
    /\ apb_q = "SETUP" => held >= 3
    /\ apb_q = "ACCESS" => held >= 2

OwnInv ==
    /\ MastersOK /\ LinesOK
    /\ ~Buses!InReset => SlavesOwn
    /\ Buses!InReset => Drains

LEMMA InitOwnInv == Buses!Init => OwnInv
<1> SUFFICES ASSUME Buses!Init PROVE OwnInv
    OBVIOUS
<1>1. MastersOK
    BY DEF Buses!Init, MastersOK
<1>2. rvalid_q = FALSE /\ phase2_q = FALSE
    BY DEF Buses!Init, Buses!TcmInit
<1>3. LinesOK /\ ~Buses!InReset
    <2>1. held = 0
        BY DEF Buses!Init
    <2>2. held \in Nat /\ ~Buses!InReset
        BY <2>1 DEF Buses!InReset
    <2>3. apb_q = "IDLE"
        BY DEF Buses!Init
    <2>4. /\ itcm_owner_q = FALSE /\ err_rvalid_q = FALSE /\ err_owner_q = FALSE
          /\ d_phase2_q = FALSE /\ d_rvalid_q = FALSE /\ clint_rvalid_q = FALSE
        BY DEF Buses!Init
    <2> QED BY <1>2, <2>2, <2>3, <2>4 DEF LinesOK
<1>4. SlavesOwn
    BY <1>2 DEF Buses!Init, SlavesOwn, Awaits, FetchAwaits
<1> QED BY <1>1, <1>3, <1>4 DEF OwnInv

\* The requests by slave.
LEMMA Requesting ==
    ASSUME NEW s
    PROVE  /\ Buses!ToSlave(s) # {} <=> ~Buses!InReset /\ Asks(s)
           /\ Buses!FetchFrom(s) # {} <=> \E r \in fetch : r.to = s
           /\ Buses!ItcmReq # {} <=> Buses!ToSlave("itcm") # {} \/ Buses!FetchFrom("itcm") # {}
BY DEF Buses!ToSlave, Buses!DataReq, Asks, Buses!FetchFrom, Buses!ItcmReq, Buses!ItcmReqFetch

\* The memory answers exactly what it accepts.
LEMMA Accepting ==
    ASSUME NEW req, Buses!TcmEdge(req), phase2_q \in BOOLEAN
    PROVE  /\ rvalid_q' \in BOOLEAN /\ phase2_q' \in BOOLEAN
           /\ rvalid_q' <=> req # {} /\ Buses!Ready
BY DEF Buses!TcmEdge, Buses!Read, Buses!Write, Buses!Accept, Buses!Ready, Buses!WriteBack,
       Buses!NoAccess, Buses!Partial, Buses!FullWord

\* The data master takes an answer whenever there is one, and no other.
LEMMA Answering ==
    /\ Buses!Responder \subseteq Buses!Responders
    /\ Buses!Responder # {} <=> Buses!Responders # {}
<1> DEFINE First(j) == Buses!Order[j] \in Buses!Responders
                       /\ \A k \in 1..(j - 1) : Buses!Order[k] \notin Buses!Responders
<1>1. Buses!Responder = { Buses!Order[i] : i \in { j \in 1..5 : First(j) } }
    BY DEF Buses!Responder
<1>2. Buses!Responders \subseteq {Buses!Order[1], Buses!Order[2], Buses!Order[3], Buses!Order[4], Buses!Order[5]}
    BY DEF Buses!Responders, Buses!Order
<1>3. ASSUME Buses!Responders # {}
      PROVE  \E j \in 1..5 : First(j)
    <2>1. PICK i \in 1..5 : Buses!Order[i] \in Buses!Responders
        BY <1>2, <1>3
    <2>2. CASE Buses!Order[1] \in Buses!Responders
        BY <2>2
    <2>3. CASE Buses!Order[1] \notin Buses!Responders /\ Buses!Order[2] \in Buses!Responders
        BY <2>3
    <2>4. CASE /\ Buses!Order[1] \notin Buses!Responders /\ Buses!Order[2] \notin Buses!Responders
               /\ Buses!Order[3] \in Buses!Responders
        BY <2>4
    <2>5. CASE /\ Buses!Order[1] \notin Buses!Responders /\ Buses!Order[2] \notin Buses!Responders
               /\ Buses!Order[3] \notin Buses!Responders /\ Buses!Order[4] \in Buses!Responders
        BY <2>5
    <2>6. CASE /\ Buses!Order[1] \notin Buses!Responders /\ Buses!Order[2] \notin Buses!Responders
               /\ Buses!Order[3] \notin Buses!Responders /\ Buses!Order[4] \notin Buses!Responders
        <3>1. Buses!Order[5] \in Buses!Responders
            BY <2>1, <2>6
        <3> QED BY <2>6, <3>1
    <2> QED BY <2>2, <2>3, <2>4, <2>5, <2>6
<1> QED BY <1>1, <1>3

\* An edge while the core runs, slave by slave.
LEMMA RunningEdge ==
    ASSUME OwnInv, Buses!Clk, ~Buses!InReset
    PROVE  /\ held' = 0 /\ Buses!LsuEdge /\ Buses!FetchEdge
           /\ rvalid_q' <=> Buses!Ready /\ (Asks("itcm") \/ \E r \in fetch : r.to = "itcm")
           /\ rvalid_q' => (itcm_owner_q' <=> Asks("itcm"))
           /\ d_rvalid_q' <=> Asks("dtcm") /\ ~d_phase2_q
           /\ clint_rvalid_q' <=> Asks("clint")
           /\ err_rvalid_q' <=> Asks("none") \/ \E r \in fetch : r.to = "none"
           /\ err_rvalid_q' => (err_owner_q' <=> Asks("none"))
           /\ LinesOK'
<1>1. /\ held' = 0 /\ Buses!LsuEdge /\ Buses!FetchEdge /\ Buses!BusEdge /\ Buses!DtcmEdge /\ Buses!ApbEdge
      /\ Buses!TcmEdge(Buses!ItcmReq) /\ clint_rvalid_q' = (Buses!ToSlave("clint") # {})
    BY DEF Buses!Clk
<1>2. /\ rvalid_q' \in BOOLEAN /\ phase2_q' \in BOOLEAN
      /\ rvalid_q' <=> Buses!ItcmReq # {} /\ Buses!Ready
    BY <1>1, Accepting DEF OwnInv, LinesOK
<1>3. rvalid_q' <=> Buses!Ready /\ (Asks("itcm") \/ \E r \in fetch : r.to = "itcm")
    BY <1>2, Requesting
<1>4. /\ rvalid_q' => (itcm_owner_q' <=> Asks("itcm"))
      /\ itcm_owner_q' \in BOOLEAN
    <2>1. itcm_owner_q' = Buses!OwnerNext /\ itcm_owner_q \in BOOLEAN
        BY <1>1 DEF Buses!BusEdge, OwnInv, LinesOK
    <2>2. CASE Buses!ItcmReq # {} /\ Buses!Ready
        BY <1>2, <2>1, <2>2, Requesting DEF Buses!OwnerNext
    <2>3. CASE ~(Buses!ItcmReq # {} /\ Buses!Ready)
        BY <1>2, <2>1, <2>3 DEF Buses!OwnerNext
    <2> QED BY <2>2, <2>3
<1>5. /\ d_rvalid_q' <=> Asks("dtcm") /\ ~d_phase2_q
      /\ d_rvalid_q' \in BOOLEAN /\ d_phase2_q' \in BOOLEAN
    BY <1>1, Requesting DEF Buses!DtcmEdge
<1>6. clint_rvalid_q' \in BOOLEAN /\ (clint_rvalid_q' <=> Asks("clint"))
    BY <1>1, Requesting
<1>7. /\ err_rvalid_q' \in BOOLEAN /\ err_owner_q' \in BOOLEAN
      /\ err_rvalid_q' <=> Asks("none") \/ \E r \in fetch : r.to = "none"
      /\ err_rvalid_q' => (err_owner_q' <=> Asks("none"))
    <2>1. Buses!ErrData \in BOOLEAN /\ (Buses!ErrData <=> Asks("none"))
        BY Requesting DEF Buses!ErrData
    <2>2. /\ (Buses!ErrData \/ Buses!ErrInstr) \in BOOLEAN
          /\ Buses!ErrData \/ Buses!ErrInstr <=> Asks("none") \/ \E r \in fetch : r.to = "none"
        BY <2>1, Requesting DEF Buses!ErrInstr
    <2>3. err_owner_q \in BOOLEAN
        BY DEF OwnInv, LinesOK
    <2>4. err_rvalid_q' = (Buses!ErrData \/ Buses!ErrInstr) /\ err_owner_q' = Buses!ErrOwnerNext
        BY <1>1 DEF Buses!BusEdge
    <2> QED BY <2>1, <2>2, <2>3, <2>4 DEF Buses!ErrOwnerNext
<1>8. apb_q' \in {"IDLE", "SETUP", "ACCESS", "RESP"} /\ held' \in Nat
    BY <1>1 DEF Buses!ApbEdge
<1>9. LinesOK'
    BY <1>2, <1>4, <1>5, <1>6, <1>7, <1>8 DEF LinesOK
<1> QED BY <1>1, <1>3, <1>4, <1>5, <1>6, <1>7, <1>9

\* The data master waits until its slave answers, and no other slave is busy.
LEMMA WaitingEdge ==
    ASSUME OwnInv, ~SlowSlot, Buses!Clk, ~Buses!InReset, lsu_state = "DATA"
    PROVE  /\ lsu_state' = IF apb_q \in {"SETUP", "ACCESS"} THEN "DATA" ELSE "IDLE"
           /\ lsu_state' = "DATA" => access' = access
           /\ apb_q' = IF apb_q = "SETUP" THEN "ACCESS"
                       ELSE IF apb_q = "ACCESS" THEN "RESP" ELSE "IDLE"
<1>1. PICK r \in DataRequests : access = {r}
    BY DEF OwnInv, MastersOK
<1>2. r.to \in Buses!Slave
    BY BusConstants DEF Buses!BusAssumption
<1>3. SlavesOwn /\ LinesOK
    BY DEF OwnInv
<1>4. \A s \in Buses!Slave : Awaits(s) <=> s = r.to
    BY <1>1 DEF Awaits
<1>5. Buses!Responder = {} <=> apb_q \in {"SETUP", "ACCESS"}
    <2>1. Buses!Responders # {} <=> apb_q \notin {"SETUP", "ACCESS"}
        BY <1>2, <1>3, <1>4 DEF SlavesOwn, LinesOK, Buses!Slave, Buses!Responders
    <2> QED BY <2>1, Answering
<1>6. Buses!LsuNext = IF Buses!Responder # {} THEN "IDLE" ELSE "DATA"
    BY DEF Buses!LsuNext
<1>7. lsu_state' = Buses!LsuNext /\ (Buses!LsuNext # "IDLE" => access' = access)
    BY DEF Buses!Clk, Buses!LsuEdge
<1>8. apb_q' = IF apb_q = "SETUP" THEN "ACCESS"
               ELSE IF apb_q = "ACCESS" THEN "RESP" ELSE "IDLE"
    <2>1. Buses!ToSlave("periph") = {}
        BY DEF Buses!ToSlave, Buses!DataReq
    <2> QED BY <1>3, <2>1 DEF Buses!Clk, Buses!ApbEdge, LinesOK
<1> QED BY <1>5, <1>6, <1>7, <1>8

\* A master that does not wait is granted by a slave that is free, or not yet.
LEMMA AskingEdge ==
    ASSUME OwnInv, ~SlowSlot, Buses!Clk, ~Buses!InReset, lsu_state # "DATA"
    PROVE  /\ lsu_state' \in {"IDLE", "ADDR", "DATA"}
           /\ lsu_state' = "DATA" <=> access # {} /\ Buses!DataGnt
           /\ lsu_state' = "DATA" => access' = access
           /\ apb_q = "IDLE"
           /\ apb_q' = IF Asks("periph") THEN "SETUP" ELSE "IDLE"
<1>1. apb_q = "IDLE"
    BY DEF OwnInv, SlavesOwn, Awaits
<1>2. Buses!LsuNext = IF access # {} THEN IF Buses!DataGnt THEN "DATA" ELSE "ADDR" ELSE lsu_state
    BY DEF Buses!LsuNext
<1>3. lsu_state' = Buses!LsuNext /\ (Buses!LsuNext # "IDLE" => access' = access)
    BY DEF Buses!Clk, Buses!LsuEdge
<1>4. apb_q' = IF Asks("periph") THEN "SETUP" ELSE "IDLE"
    BY <1>1, Requesting DEF Buses!Clk, Buses!ApbEdge
<1> QED BY <1>1, <1>2, <1>3, <1>4 DEF OwnInv, MastersOK

LEMMA RunningKeeps ==
    ASSUME OwnInv, ~SlowSlot, Buses!Clk, ~Buses!InReset
    PROVE  OwnInv'
<1>1. MastersOK'
    <2>1. access' \in { {} } \cup { {r} : r \in DataRequests }
        BY RunningEdge DEF Buses!LsuEdge, OwnInv, MastersOK
    <2>2. /\ fetch' \in { {} } \cup { {r} : r \in Buses!FetchRequest }
          /\ fetched' \in { {} } \cup { {r} : r \in Buses!FetchRequest }
        BY RunningEdge DEF Buses!FetchEdge, OwnInv, MastersOK
    <2>3. lsu_state' \in {"IDLE", "ADDR", "DATA"} /\ (lsu_state' = "DATA" => access' # {})
        BY WaitingEdge, AskingEdge DEF OwnInv, MastersOK
    <2> QED BY <2>1, <2>2, <2>3 DEF MastersOK
<1>2. LinesOK' /\ ~Buses!InReset'
    BY RunningEdge DEF Buses!InReset
<1>3. SlavesOwn /\ LinesOK /\ MastersOK
    BY DEF OwnInv
<1>4. fetched' = IF Buses!InstrGnt THEN fetch ELSE {}
    BY RunningEdge DEF Buses!FetchEdge
<1>5. /\ \A s : Asks(s) => lsu_state # "DATA" /\ access # {}
      /\ \A s, t : Asks(s) /\ Asks(t) => s = t
    BY <1>3 DEF Asks, MastersOK
<1>6. /\ \A s, t : (\E r \in fetch : r.to = s) /\ (\E r \in fetch : r.to = t) => s = t
      /\ \A r \in fetch : r.to \in {"itcm", "none"}
    BY <1>3 DEF MastersOK, Buses!FetchRequest
<1>7. Buses!InstrGnt <=> \/ Buses!Ready /\ ~Asks("itcm") /\ \E r \in fetch : r.to = "itcm"
                         \/ ~Asks("none") /\ \E r \in fetch : r.to = "none"
    BY Requesting DEF Buses!InstrGnt
<1>8. /\ rvalid_q' /\ ~itcm_owner_q' <=> FetchAwaits("itcm")'
      /\ err_rvalid_q' /\ ~err_owner_q' <=> FetchAwaits("none")'
    BY <1>4, <1>6, <1>7, RunningEdge DEF FetchAwaits
<1>9. CASE lsu_state = "DATA"
    <2>1. \A s : ~Asks(s)
        BY <1>9 DEF Asks
    <2>2. /\ ~d_rvalid_q' /\ ~clint_rvalid_q'
          /\ ~(rvalid_q' /\ itcm_owner_q') /\ ~(err_rvalid_q' /\ err_owner_q')
        BY <2>1, RunningEdge
    <2>3. \A s : Awaits(s)' <=> apb_q \in {"SETUP", "ACCESS"} /\ Awaits(s)
        BY <1>9, WaitingEdge DEF Awaits
    <2>4. \A s : apb_q \in {"SETUP", "ACCESS"} /\ Awaits(s) => s = "periph"
        BY <1>3 DEF SlavesOwn, Awaits, MastersOK
    <2>5. apb_q' # "IDLE" <=> Awaits("periph")'
        BY <1>3, <1>9, <2>3, WaitingEdge DEF SlavesOwn
    <2> QED BY <1>1, <1>2, <1>8, <2>2, <2>3, <2>4, <2>5 DEF OwnInv, SlavesOwn
<1>10. CASE lsu_state # "DATA"
    <2>1. Buses!DataGnt <=> \/ Asks("itcm") /\ Buses!Ready
                            \/ Asks("dtcm") /\ ~d_phase2_q
                            \/ Asks("periph") \/ Asks("clint") \/ Asks("none")
        BY <1>10, AskingEdge, Requesting DEF Buses!DataGnt
    <2>2. \A s : Awaits(s)' <=> Buses!DataGnt /\ Asks(s)
        BY <1>10, AskingEdge DEF Awaits, Asks
    <2>3. /\ rvalid_q' /\ itcm_owner_q' <=> Awaits("itcm")'
          /\ d_rvalid_q' <=> Awaits("dtcm")'
          /\ clint_rvalid_q' <=> Awaits("clint")'
          /\ err_rvalid_q' /\ err_owner_q' <=> Awaits("none")'
        BY <1>5, <2>1, <2>2, RunningEdge
    <2>4. apb_q' # "IDLE" <=> Awaits("periph")'
        BY <1>10, <2>1, <2>2, AskingEdge
    <2> QED BY <1>1, <1>2, <1>8, <2>3, <2>4 DEF OwnInv, SlavesOwn
<1> QED BY <1>9, <1>10

\* During the warm reset nobody asks, and what is on its way comes to an end.
LEMMA ResetKeeps ==
    ASSUME OwnInv, ~SlowSlot, Buses!Clk, Buses!InReset
    PROVE  OwnInv'
<1>1. Drains /\ LinesOK /\ MastersOK
    BY DEF OwnInv
<1>2. UNCHANGED <<Buses!coreVars, Buses!ownVars, clint_rvalid_q>> /\ held' = held - 1
    BY DEF Buses!Clk
<1>3. held \in Nat /\ held > 0 /\ held' \in Nat
    BY <1>1, <1>2 DEF LinesOK, Buses!InReset
<1>4. \A s : Buses!ToSlave(s) = {}
    BY DEF Buses!ToSlave, Buses!DataReq
<1>5. Buses!ItcmReq = {}
    BY <1>1, <1>4, Requesting DEF Drains
<1>6. rvalid_q' = FALSE /\ phase2_q' \in BOOLEAN
    BY <1>1, <1>5, Accepting DEF Buses!Clk, LinesOK
<1>7. d_rvalid_q' = FALSE /\ d_phase2_q' \in BOOLEAN
    BY <1>4 DEF Buses!Clk, Buses!DtcmEdge
<1>8. apb_q' = IF apb_q = "SETUP" THEN "ACCESS"
               ELSE IF apb_q = "ACCESS" THEN "RESP" ELSE "IDLE"
    BY <1>1, <1>4 DEF Buses!Clk, Buses!ApbEdge, LinesOK
<1>9. MastersOK'
    BY <1>1, <1>2 DEF MastersOK, Buses!coreVars, Buses!lsuVars, Buses!fetchVars
<1>10. LinesOK'
    BY <1>1, <1>2, <1>3, <1>6, <1>7, <1>8 DEF LinesOK, Buses!ownVars
<1>11. /\ lsu_state' = "IDLE" /\ access' = {} /\ fetch' = {} /\ fetched' = {}
       /\ ~itcm_owner_q' /\ ~err_rvalid_q' /\ ~err_owner_q' /\ ~clint_rvalid_q'
    BY <1>1, <1>2 DEF Drains, Buses!coreVars, Buses!lsuVars, Buses!fetchVars, Buses!ownVars
<1>12. CASE held' = 0
    <2>1. apb_q' = "IDLE"
        BY <1>1, <1>2, <1>3, <1>8, <1>12 DEF Drains, LinesOK
    <2> QED BY <1>6, <1>7, <1>9, <1>10, <1>11, <1>12, <2>1
            DEF OwnInv, SlavesOwn, Awaits, FetchAwaits, Buses!InReset
<1>13. CASE held' > 0
    <2>1. /\ apb_q' = "SETUP" => held' >= 3
          /\ apb_q' = "ACCESS" => held' >= 2
        BY <1>1, <1>2, <1>3, <1>8, <1>13 DEF Drains
    <2> QED BY <1>6, <1>7, <1>9, <1>10, <1>11, <1>13, <2>1 DEF OwnInv, Drains, Buses!InReset
<1> QED BY <1>3, <1>12, <1>13

LEMMA NextOwnInv ==
    ASSUME OwnInv, ~SlowSlot, WarmRstLen >= 3, [Buses!Next]_(Buses!vars)
    PROVE  OwnInv'
<1>1. CASE Buses!Clk
    BY <1>1, RunningKeeps, ResetKeeps
<1>2. CASE Buses!WarmReset
    <2>1. held' = WarmRstLen /\ WarmRstLen \in Nat /\ Buses!InReset'
        BY <1>2, BusConstants DEF Buses!BusAssumption, Buses!WarmReset, Buses!InReset
    <2>2. MastersOK' /\ LinesOK'
        BY <1>2, <2>1 DEF Buses!WarmReset, OwnInv, MastersOK, LinesOK, Buses!tcmVars, Buses!dtcmVars
    <2>3. Drains'
        BY <1>2, <2>1 DEF Buses!WarmReset, Drains
    <2> QED BY <2>1, <2>2, <2>3 DEF OwnInv
<1>3. CASE Buses!Upset \/ UNCHANGED Buses!vars
    <2>1. UNCHANGED <<rvalid_q, phase2_q, Buses!busVars>>
        BY <1>3 DEF Buses!Upset, Buses!Flip, Buses!vars, Buses!tcmVars
    <2> QED BY <2>1 DEF OwnInv, MastersOK, LinesOK, SlavesOwn, Drains, Buses!InReset, Awaits,
                        FetchAwaits, Buses!busVars, Buses!coreVars, Buses!lsuVars, Buses!fetchVars,
                        Buses!ownVars, Buses!dtcmVars
<1> QED BY <1>1, <1>2, <1>3 DEF Buses!Next

\* Each master gets the answers to its own accesses, all of them and no others:
\* with the peripherals of the chip, which are ready at once, and a warm reset
\* longer than their accesses.
THEOREM EachItsOwn ==
    ASSUME ~SlowSlot, WarmRstLen >= 3
    PROVE  Buses!Spec => []AnswersOwn
<1>1. OwnInv => AnswersOwn
    <2> SUFFICES ASSUME OwnInv, ~Buses!InReset PROVE AnswersOwn
        BY DEF AnswersOwn, Buses!AnswersOwn
    <2>1. SlavesOwn /\ MastersOK /\ LinesOK
        BY DEF OwnInv
    <2>2. ASSUME Buses!Responders # {}
          PROVE  lsu_state = "DATA" /\ Buses!Responders = { r.to : r \in access }
        <3>1. \E s : Awaits(s)
            BY <2>1, <2>2 DEF SlavesOwn, LinesOK, Buses!Responders
        <3>2. PICK r \in DataRequests : access = {r} /\ lsu_state = "DATA"
            BY <2>1, <3>1 DEF MastersOK, Awaits
        <3>3. r.to \in Buses!Slave /\ \A s \in Buses!Slave : Awaits(s) <=> s = r.to
            BY <3>2, BusConstants DEF Buses!BusAssumption, Awaits
        <3>4. Buses!Responders = {r.to}
            BY <2>1, <2>2, <3>3 DEF SlavesOwn, LinesOK, Buses!Slave, Buses!Responders
        <3> QED BY <3>2, <3>4
    <2>3. Buses!InstrRvalid <=> fetched # {}
        BY <2>1 DEF Buses!InstrRvalid, SlavesOwn, FetchAwaits, MastersOK, Buses!FetchRequest
    <2> QED BY <2>2, <2>3 DEF AnswersOwn, Buses!AnswersOwn
<1> QED BY <1>1, InitOwnInv, NextOwnInv, PTL DEF Buses!Spec

=============================================================================
