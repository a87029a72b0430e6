--------------------------- MODULE DecompressCheck ---------------------------
(***************************************************************************)
(* scripts/check_decompress.py: every halfword, what the decompressor made *)
(* of it and what binutils says of both, judged one after the other.       *)
(*                                                                         *)
(* A row is what the script asks of it: whether the halfword is a 32-bit   *)
(* one, what the reference calls it, the two flags of the decompressor,    *)
(* and whether its expansion reads as the form the halfword stands for.    *)
(***************************************************************************)
EXTENDS Integers, FiniteSets

CONSTANTS MaxRows

VARIABLES
    rows_left, verdict,
    st,      \* the classes counted so far
    bad,     \* discrepancies
    wrong,   \* history: rows the decompressor did wrong
    open     \* history: rows the script cannot compare
vars == <<rows_left, verdict, st, bad, wrong, open>>

\* What the reference says: nothing at all; a Zcmp instruction, or one of its
\* reserved lists, which binutils does not know for reserved; not decoded; a
\* reserved shift, stack adjustment or the unimplemented instruction; a form of
\* the table of identities, or one that is in no table.
Refs == {"nothing", "cm", "cm rlist<4", ".insn", "shamt>=32", "nzimm=0", "unimp",
         "identity", "unmapped"}
Reserved == {".insn", "shamt>=32", "nzimm=0", "unimp"}

Rows == [full : BOOLEAN, ref : Refs, ill : BOOLEAN, zf : BOOLEAN,
         exp : {"same", "other", "undecoded", "arity"}]

Rejected(r) == IF r.ill THEN "ok_reject" ELSE "ACCEPTED_INVALID"

\* mutant: the flag of a sequence is looked at for Zcmp instructions only
NoFlagOnOther(r) == FALSE

\* The core would run a sequence in the place of the instruction.
FlagOnOther(r) == r.zf

\* The class of a row: the first of the tests that holds.
Class(r) ==
    IF r.ill /\ r.zf THEN "ZCMP_MISFLAG"
    ELSE IF r.full THEN Rejected(r)
    ELSE IF r.ref = "nothing" THEN "no_ref"
    ELSE IF r.ref = "cm rlist<4" THEN Rejected(r)
    ELSE IF r.ref = "cm" THEN (IF r.zf THEN "ok_zcmp_flagged" ELSE "REJECTED_VALID")
    ELSE IF FlagOnOther(r) THEN "ZCMP_MISFLAG"
    ELSE IF r.ref \in Reserved THEN Rejected(r)
    ELSE IF r.ref = "unmapped" THEN "unmapped"
    ELSE IF r.ill THEN "REJECTED_VALID"
    ELSE CASE r.exp = "undecoded" -> "no_dut_disasm"
           [] r.exp = "arity" -> "arity"
           [] r.exp = "other" -> "MISMATCH"
           [] r.exp = "same" -> "ok"

Discrepancies == {"MISMATCH", "REJECTED_VALID", "ACCEPTED_INVALID", "ZCMP_MISFLAG"}

\* What the decompressor should do with a halfword.
Right(r) ==
    IF r.full \/ r.ref \in Reserved \cup {"cm rlist<4"} THEN r.ill /\ ~r.zf
    ELSE IF r.ref = "cm" THEN r.zf /\ ~r.ill
    ELSE ~r.zf /\ ~r.ill /\ r.exp = "same"

\* The rows a verdict rests on: the reference knows the halfword, and where the
\* expansion is compared, both sides could be written out.
Comparable(r) ==
    \/ r.full
    \/ r.ref \in Reserved \cup {"cm", "cm rlist<4"}
    \/ r.ref = "identity" /\ r.exp \in {"same", "other"}

Init ==
    /\ rows_left = MaxRows /\ verdict = "none"
    /\ st = {} /\ bad = 0 /\ wrong = 0 /\ open = 0

Judge ==
    /\ rows_left > 0 /\ rows_left' = rows_left - 1
    /\ \E r \in Rows :
          /\ st' = st \cup {Class(r)}
          /\ bad' = bad + (IF Class(r) \in Discrepancies THEN 1 ELSE 0)
          /\ wrong' = wrong + (IF Comparable(r) /\ ~Right(r) THEN 1 ELSE 0)
          /\ open' = open + (IF Comparable(r) THEN 0 ELSE 1)
    /\ UNCHANGED verdict

Report ==
    /\ rows_left = 0 /\ verdict = "none"
    /\ verdict' = IF bad = 0 THEN "PASS" ELSE "FAIL"
    /\ UNCHANGED <<rows_left, st, bad, wrong, open>>

Next == Judge \/ Report
Spec == Init /\ [][Next]_vars

\* No wrong row is passed by a test that stands before the one it fails, and
\* what binutils is lax about is no discrepancy of a decompressor that rejects
\* it: a wrong row fails the check, and where every row could be compared only
\* a wrong row does (scripts/check_decompress.py:118-218).
WrongRowsFail ==
    verdict # "none" =>
        /\ wrong > 0 => verdict = "FAIL"
        /\ wrong = 0 /\ open = 0 => verdict = "PASS"
=============================================================================
