------------------------------ MODULE BootLoader ------------------------------
(***************************************************************************)
(* The boot loader, rtl/boot/cdriscv_32s_20_qspi_boot.sv: out of reset it  *)
(* reads the image from the flash, writes it through the data bus into the *)
(* tightly coupled memories, checks the CRC and releases the core, or      *)
(* retries, or gives up.                                                   *)
(*                                                                         *)
(* The step is a byte from the flash, an event on the bus, or a state of   *)
(* the loader; the clocks of a byte are left out, as the loader makes      *)
(* them.  The header is read in one step.  A read from the flash may be    *)
(* corrupted, a write may be answered with an error, and progress may      *)
(* stall until the watchdog takes it for lost: MaxGlitches times in all.   *)
(* The memory test, when it starts by itself, does so with the loader's    *)
(* first steps, holds the loader and leaves the memories full of zeros.    *)
(***************************************************************************)
EXTENDS Integers, Sequences, FiniteSets

CONSTANTS
    WordBytes, RetryMax,
    ItcmBase, ItcmBytes, DtcmBase, DtcmBytes,
    Arguments,    \* what mkbootimg.py may be called with
    Misread,      \* the header fields a corrupted read may change
    Values,       \* what a corrupted address or length reads as
    MaxGlitches

BootAssumption ==
    /\ WordBytes \in Nat /\ WordBytes >= 2
    /\ {RetryMax, MaxGlitches, ItcmBase, ItcmBytes, DtcmBase, DtcmBytes} \subseteq Nat
    /\ Arguments \subseteq [segs : Seq([dest : Nat, data : Seq({0, 1})]),
                           quad : BOOLEAN, pad0 : Nat]
    /\ Misread \subseteq {"magic", "flags", "d0", "l0", "d1", "l1", "crc"}
    /\ Values \subseteq Nat

VARIABLES
    args,                      \* of the image in the flash
    state_q, gap, hdr_q,
    bytes_left_q, read,        \* bytes to come, and bytes of this command read
    crc_q, word_q,
    cur_addr_q, seg_left_q, in_seg1_q,
    wr_pending_q, wr_gntd_q, wr_addr_q, wr_data_q,
    retries_q, boot_done_q, boot_fault_q,
    bist,                      \* "idle", "starts" or "busy"
    tcm,                       \* the words written, by address
    glitches

load == <<bytes_left_q, read, crc_q, word_q, cur_addr_q, seg_left_q, in_seg1_q>>
write == <<wr_pending_q, wr_gntd_q, wr_addr_q, wr_data_q>>
outcome == <<retries_q, boot_done_q, boot_fault_q>>
vars == <<args, state_q, gap, hdr_q, load, write, outcome, bist, tcm, glitches>>

-----------------------------------------------------------------------------
(* The image in the flash, as scripts/mkbootimg.py packs it: a header and   *)
(* the bytes of one or two segments, one after the other.  A word has       *)
(* WordBytes bytes.  The CRC is the bytes it is over: what collides in 32   *)
(* bits is not the subject here.                                            *)

Zeros(n) == [i \in 1..n |-> 0]

\* A segment's bytes: filled up to a word, the first with pad0 words of zeros.
Padded(i, data, pad0) ==
    data \o Zeros((-Len(data)) % WordBytes) \o (IF i = 1 THEN Zeros(WordBytes * pad0) ELSE <<>>)

\* The arguments the script packs.  Where a segment lies is not looked at.
Packs(call) ==
    /\ Len(call.segs) \in 1..2
    /\ \A i \in DOMAIN call.segs : call.segs[i].dest % WordBytes = 0
    /\ Padded(1, call.segs[1].data, call.pad0) # <<>>

\* The segments of the image; a second one that is not given is empty.
Segment(call, i) ==
    IF i \in DOMAIN call.segs
    THEN [dest |-> call.segs[i].dest, bytes |-> Padded(i, call.segs[i].data, call.pad0)]
    ELSE [dest |-> 0, bytes |-> <<>>]

Payload(call) == Segment(call, 1).bytes \o Segment(call, 2).bytes

Header(call) ==
    [magic |-> TRUE, flags |-> IF call.quad THEN {0} ELSE {},
     d0 |-> Segment(call, 1).dest, l0 |-> Len(Segment(call, 1).bytes),
     d1 |-> Segment(call, 2).dest, l1 |-> Len(Segment(call, 2).bytes),
     crc |-> Payload(call)]

-----------------------------------------------------------------------------

hold == bist = "busy"

Itcm == ItcmBase..(ItcmBase + ItcmBytes - 1)
Dtcm == DtcmBase..(DtcmBase + DtcmBytes - 1)

\* Entirely inside one memory, and word aligned.
SegIn(dest, len, base, bytes) == dest >= base /\ dest + len <= base + bytes
SegOk(dest, len) ==
    /\ dest % WordBytes = 0 /\ len % WordBytes = 0
    /\ SegIn(dest, len, ItcmBase, ItcmBytes) \/ SegIn(dest, len, DtcmBase, DtcmBytes)

HdrOk(h) ==
    /\ h.magic /\ h.flags \subseteq {0}
    /\ h.l0 # 0 /\ SegOk(h.d0, h.l0)
    /\ h.l1 = 0 \/ SegOk(h.d1, h.l1)

NoHeader == [magic |-> FALSE, flags |-> {}, d0 |-> 0, l0 |-> 0, d1 |-> 0, l1 |-> 0, crc |-> <<>>]
Nothing == <<>>

Init ==
    /\ args \in {a \in Arguments : Packs(a)}
    /\ state_q = "IDLE" /\ gap = FALSE /\ hdr_q = NoHeader
    /\ bytes_left_q = 0 /\ read = 0 /\ crc_q = <<>> /\ word_q = <<>>
    /\ cur_addr_q = 0 /\ seg_left_q = 0 /\ in_seg1_q = FALSE
    /\ wr_pending_q = FALSE /\ wr_gntd_q = FALSE /\ wr_addr_q = 0 /\ wr_data_q = <<>>
    /\ retries_q = 0 /\ boot_done_q = FALSE /\ boot_fault_q = FALSE
    /\ bist \in {"idle", "starts"}
    /\ tcm = [a \in Itcm \cup Dtcm |-> Nothing]
    /\ glitches = 0

Glitch == glitches < MaxGlitches /\ glitches' = glitches + 1

\* mutant: a failure is retried without being counted
FailedForever ==
    /\ gap' = FALSE /\ wr_pending_q' = FALSE /\ wr_gntd_q' = FALSE
    /\ state_q' = "IDLE"
    /\ UNCHANGED <<args, hdr_q, load, wr_addr_q, wr_data_q, outcome>>

\* The one handler of every failure.
Failed ==
    /\ gap' = FALSE /\ wr_pending_q' = FALSE /\ wr_gntd_q' = FALSE
    /\ IF retries_q >= RetryMax
       THEN boot_fault_q' = TRUE /\ state_q' = "FAULT" /\ UNCHANGED retries_q
       ELSE retries_q' = retries_q + 1 /\ state_q' = "IDLE" /\ UNCHANGED boot_fault_q
    /\ UNCHANGED <<args, hdr_q, load, wr_addr_q, wr_data_q, boot_done_q>>

Start ==
    /\ state_q = "IDLE" /\ ~hold
    /\ crc_q' = <<>> /\ word_q' = <<>> /\ in_seg1_q' = FALSE
    /\ state_q' = "HDR"
    /\ UNCHANGED <<args, gap, hdr_q, bytes_left_q, read, cur_addr_q, seg_left_q,
                   write, outcome, bist, tcm, glitches>>

\* A header with field f read wrong, and with any field.
MisreadField(h, f) ==
    CASE f = "magic" -> {[h EXCEPT !.magic = FALSE]}
      [] f = "flags" -> {[h EXCEPT !.flags = {1} \cup @]}
      [] f = "d0" -> {[h EXCEPT !.d0 = v] : v \in Values}
      [] f = "l0" -> {[h EXCEPT !.l0 = v] : v \in Values}
      [] f = "d1" -> {[h EXCEPT !.d1 = v] : v \in Values}
      [] f = "l1" -> {[h EXCEPT !.l1 = v] : v \in Values}
      [] f = "crc" -> {[h EXCEPT !.crc = <<2>>]}
Corrupted(h) == UNION {MisreadField(h, f) : f \in Misread}

ReadHeader ==
    /\ state_q = "HDR" /\ ~hold
    /\ \/ hdr_q' = Header(args) /\ UNCHANGED glitches
       \/ hdr_q' \in Corrupted(Header(args)) /\ Glitch
    /\ state_q' = "CHECK"
    /\ bist' = IF bist = "starts" THEN "idle" ELSE bist
    /\ UNCHANGED <<args, gap, load, write, outcome, tcm>>

CheckHeader ==
    /\ state_q = "CHECK"
    /\ IF ~HdrOk(hdr_q) THEN Failed
       ELSE /\ cur_addr_q' = hdr_q.d0 /\ seg_left_q' = hdr_q.l0
            /\ bytes_left_q' = hdr_q.l0 + hdr_q.l1 /\ read' = 0
            /\ state_q' = "PAY"
            /\ UNCHANGED <<args, gap, hdr_q, crc_q, word_q, in_seg1_q, write, outcome>>
    /\ UNCHANGED <<bist, tcm, glitches>>

\* mutant: the engine runs on while a word waits for the bus
SpiRunsOn == state_q = "PAY" /\ ~gap /\ ~hold

SpiRun == state_q = "PAY" /\ ~gap /\ ~wr_pending_q /\ ~hold

\* Behind the payload the flash is erased.
FlashByte == IF read < Len(Payload(args)) THEN Payload(args)[read + 1] ELSE 1

\* The last byte of a word makes it a write.
ReadByte ==
    /\ SpiRun /\ bytes_left_q > 0
    /\ \E b \in 0..2 :
          /\ IF b = FlashByte THEN UNCHANGED glitches ELSE b = 2 /\ Glitch
          /\ crc_q' = Append(crc_q, b)
          /\ IF Len(word_q) + 1 < WordBytes
             THEN word_q' = Append(word_q, b) /\ UNCHANGED write
             ELSE /\ word_q' = <<>>
                  /\ wr_pending_q' = TRUE /\ wr_gntd_q' = FALSE
                  /\ wr_addr_q' = cur_addr_q /\ wr_data_q' = Append(word_q, b)
    /\ bytes_left_q' = bytes_left_q - 1 /\ read' = read + 1
    /\ UNCHANGED <<args, state_q, gap, hdr_q, cur_addr_q, seg_left_q, in_seg1_q,
                   outcome, bist, tcm>>

Grant ==
    /\ wr_pending_q /\ ~wr_gntd_q
    /\ wr_gntd_q' = TRUE
    /\ UNCHANGED <<args, state_q, gap, hdr_q, load, wr_pending_q, wr_addr_q, wr_data_q,
                   outcome, bist, tcm, glitches>>

\* The word is in the memory: on to the next, or to the second segment.
Answer ==
    /\ wr_pending_q /\ wr_gntd_q
    /\ tcm' = IF wr_addr_q \in DOMAIN tcm THEN [tcm EXCEPT ![wr_addr_q] = wr_data_q] ELSE tcm
    /\ wr_pending_q' = FALSE /\ wr_gntd_q' = FALSE
    /\ IF seg_left_q = WordBytes /\ ~in_seg1_q /\ hdr_q.l1 # 0
       THEN cur_addr_q' = hdr_q.d1 /\ seg_left_q' = hdr_q.l1 /\ in_seg1_q' = TRUE
       ELSE /\ cur_addr_q' = cur_addr_q + WordBytes /\ seg_left_q' = seg_left_q - WordBytes
            /\ UNCHANGED in_seg1_q
    /\ UNCHANGED <<args, state_q, gap, hdr_q, bytes_left_q, read, crc_q, word_q,
                   wr_addr_q, wr_data_q, outcome, bist, glitches>>

AnswerError ==
    /\ wr_pending_q /\ wr_gntd_q /\ Glitch
    /\ Failed
    /\ UNCHANGED <<bist, tcm>>

\* No byte and no grant for TimeoutCycles.
Timeout ==
    /\ state_q \in {"HDR", "PAY"} /\ ~hold /\ ~wr_gntd_q /\ Glitch
    /\ Failed
    /\ UNCHANGED <<bist, tcm>>

\* Chip select is high again behind the last byte, and for the time of a gap.
EndCommand ==
    /\ SpiRun /\ bytes_left_q = 0
    /\ gap' = TRUE
    /\ UNCHANGED <<args, state_q, hdr_q, load, write, outcome, bist, tcm, glitches>>

EndGap ==
    /\ state_q = "PAY" /\ gap
    /\ gap' = FALSE /\ state_q' = "CRC"
    /\ UNCHANGED <<args, hdr_q, load, write, outcome, bist, tcm, glitches>>

CheckCrc ==
    /\ state_q = "CRC"
    /\ IF crc_q # hdr_q.crc THEN Failed
       ELSE /\ boot_done_q' = TRUE /\ state_q' = "DONE"
            /\ UNCHANGED <<args, gap, hdr_q, load, write, retries_q, boot_fault_q>>
    /\ UNCHANGED <<bist, tcm, glitches>>

\* AutoStart: the test is busy two clocks after reset, long before a header is
\* read; the last element it writes is zero.
BistStarts ==
    /\ bist = "starts" /\ bist' = "busy"
    /\ UNCHANGED <<args, state_q, gap, hdr_q, load, write, outcome, tcm, glitches>>

BistEnds ==
    /\ bist = "busy" /\ bist' = "idle"
    /\ tcm' = [a \in DOMAIN tcm |-> Zeros(WordBytes)]
    /\ UNCHANGED <<args, state_q, gap, hdr_q, load, write, outcome, glitches>>

Next ==
    \/ Start \/ ReadHeader \/ CheckHeader \/ ReadByte \/ Grant \/ Answer \/ AnswerError
    \/ Timeout \/ EndCommand \/ EndGap \/ CheckCrc \/ BistStarts \/ BistEnds

LoaderSteps ==
    Start \/ ReadHeader \/ CheckHeader \/ ReadByte \/ EndCommand \/ EndGap \/ CheckCrc
BusSteps == Grant \/ Answer \/ AnswerError

\* The loader is the master of the flash, the bus grants and answers, and the
\* memory test ends.
Fairness ==
    /\ WF_vars(LoaderSteps)
    /\ WF_vars(BusSteps)
    /\ WF_vars(BistEnds)

Spec == Init /\ [][Next]_vars /\ Fairness

----------------------------------------------------------------------------

Words(dest, bytes) ==
    {[addr |-> dest + i - 1, word |-> SubSeq(bytes, i, i + WordBytes - 1)] :
        i \in {i \in 1..Len(bytes) : i % WordBytes = 1 % WordBytes}}
HasWords(dest, bytes) ==
    \A w \in Words(dest, bytes) : w.addr \in DOMAIN tcm /\ tcm[w.addr] = w.word

Overlap(h) == (h.d0..(h.d0 + h.l0 - 1)) \cap (h.d1..(h.d1 + h.l1 - 1)) # {}

\* The payload lies where header h places its two segments.
Delivered(h) ==
    /\ HasWords(h.d0, SubSeq(Payload(args), 1, h.l0))
    /\ HasWords(h.d1, SubSeq(Payload(args), h.l0 + 1, Len(Payload(args))))

\* The one corruption of a header that no check of the loader sees: another
\* legal address, of the first segment or of a second one that is not empty.
Misplaced ==
    \/ hdr_q.d0 # Header(args).d0
    \/ hdr_q.l1 # 0 /\ hdr_q.d1 # Header(args).d1

\* The core is released on the payload of the flash, every word of it where the
\* header that was read has it, whatever was misread, refused or retried before,
\* and with no write still under way when the bus changes hands (qspi_boot.sv:6-15,
\* subsys.sv:308-320).  That is where the image has it, unless an address was
\* misread as another legal one: of all that can be misread only this gets
\* through.  (Where two segments overlap the second one stands.)
DeliversPayload ==
    boot_done_q =>
        /\ ~wr_pending_q
        /\ Overlap(hdr_q) \/ Delivered(hdr_q)
        /\ Overlap(Header(args)) \/ Delivered(Header(args)) \/ Misplaced

\* "The header is not covered -- a corrupt header fails the magic /
\* reserved-flag / bounds checks instead" (qspi_boot.sv:38-41): the core is
\* never released on an image that is not where its header puts it.  A header
\* whose address is read as another legal one fails none of these checks.
CorruptHeaderFails ==
    boot_done_q /\ ~Overlap(Header(args)) => Delivered(Header(args))

\* A wild segment never writes anything: what is requested lies in a memory,
\* through segments, retries and an address left from another attempt
\* (qspi_boot.sv:45-49).
NeverWild == wr_pending_q => wr_addr_q \in Itcm \cup Dtcm

\* Booting is given up only on an image that cannot be loaded, or after as many
\* failures as there are attempts (qspi_boot.sv:82-88).
GivesUpForCause ==
    boot_fault_q => ~HdrOk(Header(args)) \/ glitches > RetryMax

\* The loader ends: the core is released or the failure is latched.
BootEnds == <>(boot_done_q \/ boot_fault_q)
=============================================================================
