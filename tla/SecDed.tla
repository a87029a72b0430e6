------------------------------- MODULE SecDed -------------------------------
(***************************************************************************)
(* The SEC-DED code of the memories, from its generator to a read:         *)
(* scripts/gen_secded.py picks the columns of the check matrix, checks     *)
(* them and writes the decoder as text; scripts/mkimage.py computes the    *)
(* code words of a program, with one bit flipped on request; upsets flip   *)
(* more bits of a stored word; the decoder of the text reads it.           *)
(*                                                                         *)
(* A word is the set of its bits that are one, a column the set of the     *)
(* parity rows it adds to, and a code word holds the parity bits above the *)
(* data bits.                                                              *)
(***************************************************************************)
EXTENDS Integers, Sequences, FiniteSets, FiniteSetsExt

CONSTANTS
    Geometry,   \* the arguments --par and --data
    Pattern,    \* words of programs, cut to the width of the geometry
    MaxWords, MaxPad,
    MaxHits     \* flipped bits in the memory at a time

SecDedAssumption ==
    /\ \A g \in Geometry : g.par \in Nat \ {0} /\ g.data \in Nat \ {0}
    /\ \A w \in Pattern : w \subseteq Nat
    /\ MaxWords \in Nat /\ MaxPad \in Nat /\ MaxHits \in Nat

VARIABLES
    pc,
    geometry,
    cols,      \* the column of each data bit, one place up
    remaining, row_w,  \* candidates not chosen, and how often a row is used
    text,      \* the masks of the written file
    image,     \* the code words in the memory
    meant,     \* history: the word each place should hold
    hits       \* history: the bits of each place that are not as encoded

vars == <<pc, geometry, cols, remaining, row_w, text, image, meant, hits>>

Rows == 0..(geometry.par - 1)
DataBits == 0..(geometry.data - 1)
CodeBits == 0..(geometry.par + geometry.data - 1)
Column(d) == cols[d + 1]

Odd(s) == Cardinality(s) % 2 = 1

----------------------------------------------------------------------------
(* scripts/gen_secded.py *)

\* Odd columns of three rows and more, the next heavier ones only when the
\* lighter ones are too few; none at all when they never are enough.
Candidates ==
    LET OfWeight(w) == {c \in SUBSET Rows : Odd(c) /\ Cardinality(c) \in 3..w}
        enough == {w \in 3..geometry.par : Cardinality(OfWeight(w)) >= geometry.data}
    IN IF enough = {} THEN {} ELSE OfWeight(Min(enough))

Least(S, weight) == LET m == Min({weight[x] : x \in S}) IN {x \in S : weight[x] = m}

\* mutant: the sum of squares is left out
BestByHeaviestRow ==
    LET With(c, r) == row_w[r] + (IF r \in c THEN 1 ELSE 0)
        light == Least(remaining, [c \in remaining |-> Cardinality(c)])
        flat == Least(light, [c \in light |-> Max({With(c, r) : r \in Rows})])
    IN CHOOSE c \in flat : \A d \in flat \ {c} : Min(SymDiff(c, d)) \in c

\* The candidate that keeps the rows most balanced: the lightest, then the
\* least heaviest row, then the least sum of squares, then the first in order.
Best ==
    LET With(c, r) == row_w[r] + (IF r \in c THEN 1 ELSE 0)
        light == Least(remaining, [c \in remaining |-> Cardinality(c)])
        flat == Least(light, [c \in light |-> Max({With(c, r) : r \in Rows})])
        even == Least(flat, [c \in flat |->
                    MapThenSumSet(LAMBDA r : With(c, r) * With(c, r), Rows)])
    IN CHOOSE c \in even : \A d \in even \ {c} : Min(SymDiff(c, d)) \in c

\* Data and parity columns are distinct and odd.  That two of them then differ
\* in an even number of rows, more than none, is what the script checks next.
Check(c) ==
    /\ \A d \in 1..geometry.data : c[d] \subseteq Rows /\ Odd(c[d])
    /\ \A d, e \in 1..geometry.data : d # e => c[d] # c[e]
    /\ \A d \in 1..geometry.data, r \in Rows : c[d] # {r}

Mask(c, r) == {d \in DataBits : r \in c[d + 1]}

Nibbles(bits) == IF bits = {} THEN 1 ELSE Max(bits) \div 4 + 1
NibD == (geometry.data + 3) \div 4

\* The literal of a mask: its size, its digits, and what they say.
Literal(c, r) ==
    [size |-> geometry.data,
     digits |-> Max({NibD, Nibbles(Mask(c, r))}),
     bits |-> Mask(c, r)]

\* The text is read back before it is written: every literal has the size of
\* the data and no more digits than that, and no parity equation is missing.
VerifyEmitted(t) ==
    /\ DOMAIN t = Rows
    /\ \A r \in Rows : t[r].size = geometry.data /\ t[r].digits <= NibD

Init ==
    /\ pc = "generate"
    /\ geometry = [par |-> 1, data |-> 1]
    /\ cols = <<>> /\ remaining = {} /\ row_w = <<>>
    /\ text = <<>>
    /\ image = <<>> /\ meant = <<>> /\ hits = <<>>

\* parse_args, and the candidates; too few of them stop the script.
Arguments ==
    /\ pc = "generate"
    /\ geometry' \in Geometry
    /\ remaining' = Candidates'
    /\ row_w' = [r \in Rows' |-> 0]
    /\ pc' = IF remaining' = {} THEN "stopped" ELSE "build"
    /\ UNCHANGED <<cols, text, image, meant, hits>>

ChooseColumn ==
    /\ pc = "build"
    /\ LET best == Best
       IN /\ cols' = Append(cols, best)
          /\ remaining' = remaining \ {best}
          /\ row_w' = [r \in Rows |-> row_w[r] + (IF r \in best THEN 1 ELSE 0)]
    /\ pc' = IF Len(cols') < geometry.data THEN pc ELSE "check"
    /\ UNCHANGED <<geometry, text, image, meant, hits>>

CheckColumns ==
    /\ pc = "check"
    /\ pc' = IF Check(cols) THEN "emit" ELSE "stopped"
    /\ UNCHANGED <<geometry, cols, remaining, row_w, text, image, meant, hits>>

Emit ==
    /\ pc = "emit"
    /\ LET t == [r \in Rows |-> Literal(cols, r)]
       IN IF VerifyEmitted(t) THEN text' = t /\ pc' = "written"
          ELSE UNCHANGED text /\ pc' = "stopped"
    /\ UNCHANGED <<geometry, cols, remaining, row_w, image, meant, hits>>

----------------------------------------------------------------------------
(* scripts/mkimage.py *)

Encode(word) ==
    word \cup {geometry.data + r : r \in {r \in Rows : Odd(word \cap Mask(cols, r))}}

\* What --flip asks for: nothing, or a bit of one of the words of the program.
Flips(n) == {{}} \cup {{<<i, b>>} : i \in 1..n, b \in CodeBits}

\* The words of a program, one bit of one of them flipped where that is asked
\* for, and zeros up to the size asked for: the zeros come after the flip.
MakeImage ==
    /\ pc = "written"
    /\ \E n \in 0..MaxWords, pad \in 0..MaxPad :
       \E program \in [1..n -> {w \cap DataBits : w \in Pattern}], flip \in Flips(n) :
           LET size == Max({n, pad})
               At(i) == IF i <= n THEN program[i] ELSE {}
               Flipped(i) == {b \in CodeBits : <<i, b>> \in flip}
           IN /\ meant' = [i \in 1..size |-> At(i)]
              /\ hits' = [i \in 1..size |-> Flipped(i)]
              /\ image' = [i \in 1..size |-> SymDiff(Encode(At(i)), Flipped(i))]
    /\ pc' = "memory"
    /\ UNCHANGED <<geometry, cols, remaining, row_w, text>>

----------------------------------------------------------------------------
(* The memory and the decoder of the written file. *)

\* A particle turns one bit of a word over.
Upset(i, b) ==
    /\ pc = "memory"
    /\ MapThenSumSet(LAMBDA j : Cardinality(hits[j]), 1..Len(hits)) < MaxHits
    /\ image' = [image EXCEPT ![i] = SymDiff(@, {b})]
    /\ hits' = [hits EXCEPT ![i] = SymDiff(@, {b})]
    /\ UNCHANGED <<pc, geometry, cols, remaining, row_w, text, meant>>

\* A literal of the text is cut to its size.
HwMask(r) == {d \in text[r].bits : d < text[r].size}

Syndrome(cw) ==
    {r \in Rows : (geometry.data + r \in cw) # Odd((cw \cap DataBits) \cap HwMask(r))}

\* mutant: a single error is any syndrome but zero
AnyIsSingle(syndrome) == syndrome # {}

ErrSingle(syndrome) == syndrome # {} /\ Odd(syndrome)
ErrDouble(syndrome) == syndrome # {} /\ ~Odd(syndrome)

Flip(syndrome) == {d \in DataBits : ErrSingle(syndrome) /\ syndrome = Column(d)}

Decode(cw) ==
    LET syndrome == Syndrome(cw)
    IN [data |-> SymDiff(cw \cap DataBits, Flip(syndrome)),
        single |-> ErrSingle(syndrome), double |-> ErrDouble(syndrome)]

Next ==
    \/ Arguments \/ ChooseColumn \/ CheckColumns \/ Emit \/ MakeImage
    \/ \E i \in 1..Len(image), b \in CodeBits : Upset(i, b)

Spec == Init /\ [][Next]_vars

----------------------------------------------------------------------------

\* A read of a word without an upset gives the word of the program and reports
\* nothing; with one upset, in a data or a parity bit, it gives the word and
\* reports a correction; with two it reports that it could not, never that it
\* did (scripts/gen_secded.py:13-15).
ReadsRight(i) ==
    LET read == Decode(image[i])
        n == Cardinality(hits[i])
    IN /\ n = 0 => read = [data |-> meant[i], single |-> FALSE, double |-> FALSE]
       /\ n = 1 => read = [data |-> meant[i], single |-> TRUE, double |-> FALSE]
       /\ n = 2 => read.double /\ ~read.single

DecodesRight == \A i \in 1..Len(image) : ReadsRight(i)

\* The masks of the decoder in the repository, and the syndromes at which it
\* turns a data bit over.
ShippedGeometry == [par |-> 7, data |-> 32]
ShippedMasks ==
    LET a == 10  c == 12
        M(digits) == {n \in 0..31 : (digits[8 - n \div 4] \div 2^(n % 4)) % 2 = 1}
    IN <<M(<<8, c, a, 5, 3, 2, 9, 5>>), M(<<5, 3, 2, 9, 4, c, a, 5>>),
         M(<<6, 4, c, a, 5, 3, 2, 9>>), M(<<9, 9, 5, 2, 9, 4, a, a>>),
         M(<<a, 6, 2, c, a, 5, 4, a>>), M(<<4, 9, 9, 3, 2, 9, 5, 2>>),
         M(<<3, 2, 5, 4, c, a, 5, 4>>)>>
ShippedFlips ==
    <<7, 56, 67, 28, 97, 14, 112, 11, 52, 69, 26, 98, 13, 49, 70, 88,
      35, 44, 81, 22, 104, 19, 76, 37, 42, 82, 21, 41, 74, 84, 38, 25>>

\* What the generator writes for the geometry of the repository is the decoder
\* that the repository builds, so the images of mkimage.py, which runs the
\* generator, are read by the decoder of that file.
ShippedIsGenerated ==
    geometry = ShippedGeometry /\ text # <<>> =>
        /\ \A r \in Rows : text[r].bits = ShippedMasks[r + 1]
        /\ \A d \in DataBits :
               Column(d) = {r \in Rows : (ShippedFlips[d + 1] \div 2^r) % 2 = 1}
=============================================================================
