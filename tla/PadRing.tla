------------------------------ MODULE PadRing ------------------------------
(***************************************************************************)
(* The generator of the pad ring (scripts/gen_padring.py): it compares the *)
(* ports it finds in the text of the subsystem with its own table, checks  *)
(* that the pinout of that table pads every signal once, computes the      *)
(* placement of the four sides and writes three files one after the other: *)
(* the chip top, the configuration of the flow and the table of the        *)
(* manual.  Between two runs somebody edits the ports, the table or the    *)
(* pinout; any edit can be a mistake.                                      *)
(*                                                                         *)
(* A file is what a reader of it relies on: the chip top its pads and the  *)
(* connections of the subsystem, the configuration its four lists of pads, *)
(* the manual its rows.                                                    *)
(***************************************************************************)
EXTENDS Integers, Sequences, SequencesExt

CONSTANTS
    Ports,        \* the ports in the RTL at the start, [name |-> declaration]
    PortEdits,    \* what an edit may make of a port, an old or a new one
    ParamWidth,   \* the width the script takes a port to have that is declared
                  \* with NUM_EXT_FAULTS
    FirstPinout,  \* the pinout at the start
    Spare,        \* pads an edit may put into the pinout
    Tied, Open,   \* ports that have no pad: tied inputs and open outputs
    QioBits,      \* width of the bidirectional bus
    NSig, NPwr,   \* the numbers of pads the script insists on
    PadW, CornerW, EdgeSpacing, Width, \* geometry; Width of each side
    MaxEdits

Sides == <<"south", "east", "north", "west">>
QioPorts == {"qspi_io_i", "qspi_io_o", "qspi_io_oe_o"}
NoBit == -1
NoFile == [written |-> FALSE]

\* The cells of the supplies, and the ports whose pads the script knows by name:
\* an edit of the tables alone does not change them.
Supply == {"vdd", "vss", "iovdd", "iovss"}
HardCoded == QioPorts \cup {"tdo_o", "tdo_oe_o"}

\* A declaration: what it is, <<direction, width>>, and how its line is written:
\* with a number for its range or none, with the parameter NUM_EXT_FAULTS, with
\* another expression, or so that the script's pattern does not match it (another
\* type, a comment behind it).
Declaration ==
    [is : {"input", "output"} \X (Nat \ {0}), line : {"plain", "param", "other", "missed"}]
Named == DOMAIN Ports \cup DOMAIN PortEdits

AnyPad ==
    [kind : {"sig"}, port : STRING, bit : Int, cell : {"in", "out", "tri"}]
    \cup [kind : {"qio"}, port : {"qspi_io"}, bit : Int, cell : {"inout"}]
    \cup [kind : {"pwr"}, port : STRING \ (Named \cup {"qspi_io"}),
          bit : {NoBit}, cell : Supply]

\* Pads as the constructors make them, and the five ports as the script takes
\* them; no port has the name of a supply or of the bidirectional bus.
PadRingAssumption ==
    /\ QioBits \in Nat \ {0, 1}
    /\ FirstPinout \in [ToSet(Sides) -> Seq(AnyPad)] /\ Spare \subseteq AnyPad
    /\ Ports \in [DOMAIN Ports -> Declaration] /\ ParamWidth \in Nat \ {0}
    /\ PortEdits \in [DOMAIN PortEdits -> SUBSET Declaration]
    /\ "qspi_io" \notin Named
    /\ HardCoded \subseteq DOMAIN Ports
    /\ HardCoded \cap (DOMAIN PortEdits \cup Tied \cup Open) = {}
    /\ \A p \in HardCoded : Ports[p].line = "plain"
    /\ \A p \in {"tdo_o", "tdo_oe_o"} : Ports[p].is = <<"output", 1>>
    /\ \A p \in QioPorts :
           Ports[p].is = <<IF p = "qspi_io_i" THEN "input" ELSE "output", QioBits>>

VARIABLES
    rtl,        \* the ports of the subsystem, as Ports
    expected,   \* the table of the script, [name |-> <<direction, width>>]
    pinout,     \* side -> sequence of pads
    listed,     \* the flow's configuration lists the hard wrapper to leave out
    pc,
    chip, config, doc,
    edits

vars == <<rtl, expected, pinout, listed, pc, chip, config, doc, edits>>

----------------------------------------------------------------------------
(* The ports the script finds. *)

\* A line the pattern does not match is passed over.
MatchedLines == {p \in DOMAIN rtl : rtl[p].line # "missed"}

ParsedAs(d) == IF d.line = "param" THEN <<d.is[1], ParamWidth>> ELSE d.is
parse_ports == [p \in MatchedLines |-> ParsedAs(rtl[p])]

\* The assertion on a range.
RangesKnown == \A p \in MatchedLines : rtl[p].line # "other"

----------------------------------------------------------------------------
(* The pinout.  A signal pad has a port, a bit unless the port is one wide, *)
(* and the cell of its direction.                                           *)

Sig(table, port, bit) ==
    [kind |-> "sig", port |-> port, bit |-> bit,
     cell |-> IF port = "tdo_o" THEN "tri"
              ELSE IF table[port][1] = "input" THEN "in" ELSE "out"]

\* The assertion in the constructor of a signal pad.
SigFits(table, e) ==
    e.kind = "sig" =>
        /\ e.port \in DOMAIN table
        /\ IF table[e.port][2] = 1 THEN e.bit = NoBit ELSE e.bit \in 0..(table[e.port][2] - 1)

Pwr(kind, name) == [kind |-> "pwr", port |-> name, bit |-> NoBit, cell |-> kind]
Qio(bit) == [kind |-> "qio", port |-> "qspi_io", bit |-> bit, cell |-> "inout"]

\* Pads are built from the table at every run: the cell follows the direction.
Built(s) == [i \in DOMAIN pinout[s] |->
    LET e == pinout[s][i]
    IN IF e.kind = "sig" THEN Sig(expected, e.port, e.bit) ELSE e]

InstName(e) == <<e.port, e.bit>>

Entries == UNION {{<<s, i>> : i \in DOMAIN pinout[s]} : s \in ToSet(Sides)}
Entry(at) == pinout[at[1]][at[2]]
OfKind(k) == {at \in Entries : Entry(at).kind = k}
Padded == {InstName(Entry(at)) : at \in OfKind("sig")}

\* mutant: the widths of the pads are not compared with the ports
EverySignalSomehow ==
    \A p \in DOMAIN expected \ (Tied \cup Open \cup {"tdo_oe_o"} \cup QioPorts) :
        \E k \in Padded : k[1] = p

\* Every signal that has pads has one for each of its bits and no other; the
\* tied, the open and the internal ones have none.
EverySignalOnce ==
    \A p \in DOMAIN expected \ QioPorts :
        {k \in Padded : k[1] = p} =
            IF p \in Tied \cup Open \cup {"tdo_oe_o"} THEN {}
            ELSE IF expected[p][2] = 1 THEN {<<p, NoBit>>}
            ELSE {<<p, b>> : b \in 0..(expected[p][2] - 1)}

PadChecks ==
    /\ \A at \in Entries : SigFits(expected, Entry(at))
    /\ Cardinality(Padded) = Cardinality(OfKind("sig"))
    /\ Cardinality({Entry(at).bit : at \in OfKind("qio")}) = Cardinality(OfKind("qio"))
    /\ {Entry(at).bit : at \in OfKind("qio")} = 0..(QioBits - 1)
    /\ EverySignalOnce
    /\ Cardinality(OfKind("sig")) + Cardinality(OfKind("qio")) = NSig
    /\ Cardinality(OfKind("pwr")) = NPwr

\* The arithmetic of the placement script: even spacing, and what is left goes
\* to the two corners.
Fill(s) == Width[s] - 2 * EdgeSpacing - 2 * CornerW - PadW * Len(pinout[s])
Spacing(s) == ((Fill(s) \div (Len(pinout[s]) + 1)) \div 2) * 2
CornerGaps(s) == Fill(s) - Spacing(s) * (Len(pinout[s]) - 1)
Placeable(s) == Fill(s) >= 0 /\ CornerGaps(s) >= 0 /\ CornerGaps(s) % 2 = 0

----------------------------------------------------------------------------
(* What is written. *)

\* An instance of a pad: the signals of the core at its terminals.
Instance(e) ==
    [name |-> InstName(e), cell |-> e.cell, pad |-> <<e.port, e.bit>>,
     from |-> CASE e.cell = "in" -> {<<e.port, e.bit>>}
                [] e.cell = "inout" -> {<<"qspi_io_i", e.bit>>}
                [] OTHER -> {},
     to |-> CASE e.cell = "out" -> {<<e.port, e.bit>>}
              [] e.cell = "tri" -> {<<e.port, e.bit>>, <<"tdo_oe_o", NoBit>>}
              [] e.cell = "inout" -> {<<"qspi_io_o", e.bit>>, <<"qspi_io_oe_o", e.bit>>}
              [] OTHER -> {}]

SubConnection(p) == IF p \in Tied THEN "tied" ELSE IF p \in Open THEN "open" ELSE "core"

\* The rows run around the die from its south-west corner.
Numbered == FlattenSeq([k \in 1..4 |-> Built(Sides[k])])

Chip ==
    [written |-> TRUE,
     pads |-> [i \in DOMAIN Numbered |-> Instance(Numbered[i])],
     sub |-> [p \in DOMAIN expected |-> SubConnection(p)]]

Config == [written |-> TRUE, lists |-> [k \in 1..4 |->
    [i \in DOMAIN pinout[Sides[k]] |-> InstName(pinout[Sides[k]][i])]]]

Doc == [written |-> TRUE, rows |-> [i \in DOMAIN Numbered |-> InstName(Numbered[i])]]

----------------------------------------------------------------------------

Init ==
    /\ rtl = Ports /\ expected = [p \in DOMAIN Ports |-> Ports[p].is]
    /\ pinout = FirstPinout
    /\ listed = TRUE
    /\ pc = "idle"
    /\ chip = NoFile /\ config = NoFile /\ doc = NoFile
    /\ edits = 0

Edit ==
    /\ pc = "idle" /\ edits < MaxEdits
    /\ edits' = edits + 1
    /\ UNCHANGED <<pc, chip, config, doc>>

With(ports, p, d) == [q \in DOMAIN ports \cup {p} |-> IF q = p THEN d ELSE ports[q]]
Without(ports, p) == [q \in DOMAIN ports \ {p} |-> ports[q]]

\* A port is declared anew, added or removed: in the RTL or in the table.
EditPorts ==
    /\ Edit
    /\ \E p \in DOMAIN PortEdits :
          \/ /\ rtl' \in {With(rtl, p, d) : d \in PortEdits[p]} \cup {Without(rtl, p)}
             /\ UNCHANGED expected
          \/ /\ expected' \in {With(expected, p, d.is) : d \in PortEdits[p]}
                                \cup {Without(expected, p)}
             /\ UNCHANGED rtl
    /\ UNCHANGED <<pinout, listed>>

\* A pad is put over another one, taken out, or put between two.
EditPinout ==
    /\ Edit
    /\ \E at \in Entries :
       LET s == at[1]  i == at[2] IN
       \/ \E e \in Spare : pinout' = [pinout EXCEPT ![s][i] = e]
       \/ pinout' = [pinout EXCEPT ![s] = RemoveAt(@, i)]
       \/ \E e \in Spare : pinout' = [pinout EXCEPT ![s] = InsertAt(@, i, e)]
       \/ \E t \in ToSet(Sides) \ {s} :
             pinout' = [pinout EXCEPT ![s] = RemoveAt(@, i), ![t] = Append(@, pinout[s][i])]
    /\ UNCHANGED <<rtl, expected, listed>>

EditConfig == Edit /\ listed' = ~listed /\ UNCHANGED <<rtl, expected, pinout>>

\* The script, from its start to the last check before a file is written.
Stop == pc' = "idle"
Checks ==
    /\ pc = "idle"
    /\ pc' = IF /\ RangesKnown /\ parse_ports = expected
                /\ PadChecks /\ \A s \in ToSet(Sides) : Placeable(s)
             THEN "chip" ELSE "idle"
    /\ UNCHANGED <<rtl, expected, pinout, listed, chip, config, doc, edits>>

WriteChip ==
    /\ pc = "chip" /\ chip' = Chip /\ pc' = "config"
    /\ UNCHANGED <<rtl, expected, pinout, listed, config, doc, edits>>

\* The configuration of the flow must list the wrapper that is left out: when
\* it does not, the chip top is already written.
WriteConfig ==
    /\ pc = "config"
    /\ IF listed THEN config' = Config /\ pc' = "doc" ELSE UNCHANGED config /\ Stop
    /\ UNCHANGED <<rtl, expected, pinout, listed, chip, doc, edits>>

\* The manual's table stays as it is where the manual or its markers are missing.
WriteDoc ==
    /\ pc = "doc" /\ doc' \in {Doc, doc} /\ Stop
    /\ UNCHANGED <<rtl, expected, pinout, listed, chip, config, edits>>

Next ==
    \/ EditPorts \/ EditPinout \/ EditConfig
    \/ Checks \/ WriteChip \/ WriteConfig \/ WriteDoc

Spec == Init /\ [][Next]_vars

----------------------------------------------------------------------------

PortBits(p) ==
    IF rtl[p].is[2] = 1 THEN {<<p, NoBit>>}
    ELSE {<<p, b>> : b \in 0..(rtl[p].is[2] - 1)}

\* The script takes the port for what it is.
ReadRight(p) == p \in MatchedLines /\ ParsedAs(rtl[p]) = rtl[p].is

\* Bit b of port p has one place in a chip top: an input one pad that drives it,
\* an output one pad it drives, a port that is tied or open none.  A bit of the
\* bidirectional bus has one among the bidirectional pads; a signal pad on one of
\* its ports too is kept out by nothing but the number of signals.
Placed(top, p, b) ==
    LET pads == {i \in DOMAIN top.pads : p \in QioPorts => top.pads[i].cell = "inout"}
        driving == {i \in pads : b \in top.pads[i].from}
        driven == {i \in pads : b \in top.pads[i].to}
    IN IF top.sub[p] # "core" THEN driving \cup driven = {}
       ELSE IF rtl[p].is[1] = "input" THEN Cardinality(driving) = 1 /\ driven = {}
       ELSE Cardinality(driven) = 1 /\ driving = {}

\* In a chip top that is written every bit of every port that was read right has
\* its place in the direction of the RTL, and no two pads with a signal share a
\* pin or a name, whatever was edited before (scripts/gen_padring.py:15-17, 223).
ChipIsWired ==
    [][chip' # chip =>
       /\ \A p \in DOMAIN rtl : ReadRight(p) => \A b \in PortBits(p) : Placed(chip', p, b)
       /\ \A i, k \in DOMAIN chip'.pads :
             i # k /\ chip'.pads[i].cell \notin Supply =>
                 chip'.pads[i].name # chip'.pads[k].name]_vars

\* The bits of port p that some pad is connected to.
Connected(top, p) ==
    {b \in UNION {pad.from \cup pad.to : pad \in ToSet(top.pads)} : b[1] = p}

\* What was not read right is not wired as it is: a port whose line the pattern
\* does not match is not connected at all, and the pads of one declared with the
\* parameter are as many as the script takes that to be (gen_padring.py:69,
\* 76-91), whatever the table says.  Lines 17-18 have "PARSED from
\* rtl/cdriscv_32s_20_subsys.sv and asserted against the expected table below.
\* Drift aborts the run".
DriftIsWritten ==
    [][chip' # chip =>
       \A p \in DOMAIN rtl \ (Tied \cup Open) :
          ~ReadRight(p) => Connected(chip', p) # PortBits(p)]_vars

\* A run that gets to its end leaves three files of one pinout: the flow places
\* exactly the pads of the chip top, side by side, and the manual numbers them
\* as they stand.
FilesAgree ==
    [][doc' # doc =>
       LET names == [i \in DOMAIN chip.pads |-> chip.pads[i].name]
       IN FlattenSeq(config.lists) = names /\ doc'.rows = names]_vars
=============================================================================
