-------------------------------- MODULE Fmeda --------------------------------
(***************************************************************************)
(* scripts/fmeda.py: the flip-flops of each row of the failure analysis,   *)
(* recounted from a placed netlist, line by line, and the shares of the    *)
(* rows in the metrics.                                                    *)
(*                                                                         *)
(* A register's name is what the rules make of it: the set of the rules    *)
(* that match.  A line of the netlist that matters starts a flip-flop or   *)
(* gives the net of a .Q pin, of the flip-flop or of another cell; a       *)
(* flip-flop may have none.                                                *)
(***************************************************************************)
EXTENDS Integers, Sequences, FiniteSets, FiniteSetsExt

CONSTANTS
    Names,      \* [name |-> the rules of ATTRIBUTION that match it]
    Elements,   \* [row |-> flip-flops], the table
    TotalFf,    \* TOTAL_FF_NETLIST
    MaxLines

Rules == DOMAIN Elements

VARIABLES
    pc,
    recounts,          \* the argument --netlist was given
    lines,             \* lines read
    in_ff,
    counts, total, unmatched,
    ffs,               \* history: the Q-net of each flip-flop so far, or NoQ
    stale              \* history: the net of another cell was taken for that of
                       \* a flip-flop that has none

counted == <<in_ff, counts, total, unmatched>>
netlist == <<ffs, stale>>
vars == <<pc, recounts, lines, counted, netlist>>

NoQ == "no Q"

FmedaAssumption ==
    /\ IsFiniteSet(Rules) /\ Rules \subseteq Nat
    /\ Elements \in [Rules -> Nat]
    /\ NoQ \notin DOMAIN Names

\* Two assertions hold before anything runs: the table adds up to the placed
\* total, and rules and table name the same rows.
TableCloses ==
    /\ MapThenSumSet(LAMBDA r : Elements[r], Rules) = TotalFf
    /\ UNION {Names[n] : n \in DOMAIN Names} \subseteq Rules

Init ==
    /\ pc = IF TableCloses THEN "main" ELSE "stopped"
    /\ recounts \in BOOLEAN
    /\ lines = 0 /\ in_ff = FALSE
    /\ counts = [r \in Rules |-> 0] /\ total = 0 /\ unmatched = <<>>
    /\ ffs = <<>> /\ stale = FALSE

\* Without a netlist the metrics are those of the table as it is.
Main ==
    /\ pc = "main"
    /\ pc' = IF recounts THEN "read" ELSE "computed"
    /\ UNCHANGED <<recounts, lines, counted, netlist>>

Read == pc = "read" /\ lines < MaxLines /\ lines' = lines + 1 /\ UNCHANGED <<pc, recounts>>

CellLine ==
    /\ Read
    /\ in_ff' = TRUE /\ total' = total + 1
    /\ ffs' = Append(ffs, NoQ)
    /\ UNCHANGED <<counts, unmatched, stale>>

\* The first rule that matches.
FirstRule(n) == Min(Names[n])

\* The net of a .Q: attributed, or left over.
Attribute(n) ==
    IF Names[n] = {} THEN unmatched' = Append(unmatched, n) /\ UNCHANGED counts
    ELSE counts' = [counts EXCEPT ![FirstRule(n)] = @ + 1] /\ UNCHANGED unmatched

\* The .Q of the flip-flop that was started last.
QLine ==
    /\ Read /\ in_ff
    /\ \E n \in DOMAIN Names : ffs' = [ffs EXCEPT ![Len(ffs)] = n] /\ Attribute(n)
    /\ in_ff' = FALSE
    /\ UNCHANGED <<total, stale>>

\* The .Q of another cell: it counts for a flip-flop that still waits for its own.
OtherQLine ==
    /\ Read
    /\ IF in_ff
       THEN /\ \E n \in DOMAIN Names : Attribute(n)
            /\ in_ff' = FALSE /\ stale' = TRUE
       ELSE UNCHANGED <<in_ff, counts, unmatched, stale>>
    /\ UNCHANGED <<total, ffs>>

Sum == MapThenSumSet(LAMBDA r : counts[r], Rules)

\* mutant: only the total is compared
TotalsAgree == total = TotalFf /\ unmatched = <<>> /\ Sum = total

\* The table is exactly what the netlist says.
Agrees ==
    /\ \A r \in Rules : counts[r] = Elements[r]
    /\ total = TotalFf
    /\ unmatched = <<>>
    /\ Sum = total

CheckNetlist ==
    /\ pc = "read"
    /\ pc' = IF Agrees THEN "computed" ELSE "stopped"
    /\ UNCHANGED <<recounts, lines, counted, netlist>>

Next == Main \/ CellLine \/ QLine \/ OtherQLine \/ CheckNetlist
Spec == Init /\ [][Next]_vars

-----------------------------------------------------------------------------

\* Each flip-flop of the netlist belongs to a row by the first rule its net
\* matches, and every row has as many as the table says.
NetlistIsTable ==
    /\ \A i \in DOMAIN ffs : ffs[i] # NoQ /\ Names[ffs[i]] # {}
    /\ \A r \in Rules :
          Cardinality({i \in DOMAIN ffs : FirstRule(ffs[i]) = r}) = Elements[r]

\* Metrics are computed from a table that adds up and, of a run with --netlist,
\* exactly when the netlist is what the table says (scripts/fmeda.py:44-54,
\* 558-634).  A run without it looks at no netlist.  And a flip-flop without a
\* net is noticed unless the net of a later cell is taken for its own
\* (fmeda.py:574-584): of such a netlist nothing is said but that the table
\* adds up.
RecountExact ==
    /\ pc = "computed" => TableCloses
    /\ pc \in {"computed", "stopped"} /\ ~stale =>
          (pc = "computed" <=> TableCloses /\ (recounts => NetlistIsTable))
=============================================================================
