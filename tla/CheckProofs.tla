----------------------------- MODULE CheckProofs ----------------------------
(***************************************************************************)
(* What the three programs of MCTools that judge a table accept and what   *)
(* they refuse, whatever they are given.                                   *)
(*                                                                         *)
(* The check of the decompressor: the class of a row that can be judged is *)
(* a discrepancy exactly if the row is wrong.                              *)
(*                                                                         *)
(* The failure metrics: with a netlist the counts are those of the flip-   *)
(* flops by their first rule, and the sum over a finite set of rules is    *)
(* the number of flip-flops that have one; a row loses a flip-flop only to *)
(* the net of another cell that was read while the last one was still in   *)
(* hand, and without a netlist nothing is counted.                         *)
(*                                                                         *)
(* The push and pop table: the model is the state of the hart before each  *)
(* case, no value it holds there is zero or another place's, and no step   *)
(* writes what another step writes; so a step that is changed or left out  *)
(* shows in the registers, the accesses or the return, and so does an      *)
(* exchange of two accesses.  Any other exchange leaves all of them as     *)
(* they are: the check cannot tell it from the right table.                *)
(***************************************************************************)
EXTENDS ToolProofs

-----------------------------------------------------------------------------
(* The check of the decompressor. *)

\* Every order of the tests gives a row that can be judged the class it should
\* have.
LEMMA ClassIsRight ==
    ASSUME NEW r \in Decomp!Rows, Decomp!Comparable(r)
    PROVE  Decomp!Class(r) \in Decomp!Discrepancies <=> ~Decomp!Right(r)
<1> USE DEF Decomp!Comparable, Decomp!Class, Decomp!Discrepancies, Decomp!Right,
            Decomp!Rejected, Decomp!Reserved, Decomp!FlagOnOther
<1>1. r.ill \in BOOLEAN /\ r.zf \in BOOLEAN /\ r.full \in BOOLEAN /\ r.ref \in Decomp!Refs
    BY DEF Decomp!Rows
<1>2. CASE r.full
    BY <1>1, <1>2
<1>3. CASE ~r.full /\ r.ref \in Decomp!Reserved
    BY <1>1, <1>3
<1>4. CASE ~r.full /\ r.ref \in {"cm", "cm rlist<4"}
    BY <1>1, <1>4
<1>5. CASE ~r.full /\ r.ref = "identity" /\ r.exp = "same"
    BY <1>1, <1>5
<1>6. CASE ~r.full /\ r.ref = "identity" /\ r.exp = "other"
    BY <1>1, <1>6
<1> QED BY <1>2, <1>3, <1>4, <1>5, <1>6

\* Discrepancies are exactly the wrong rows, and rows that cannot be judged.
DecInv ==
    /\ dec_bad \in Nat /\ wrong \in Nat /\ open \in Nat
    /\ wrong > 0 => dec_bad > 0
    /\ wrong = 0 /\ open = 0 => dec_bad = 0
    /\ dec_verdict # "none" =>
           rows_left = 0 /\ dec_verdict = (IF dec_bad = 0 THEN "PASS" ELSE "FAIL")

\* The check of the decompressor passes no wrong row, for tables of any length,
\* and where every row could be judged it fails on none but wrong ones
\* (scripts/check_decompress.py:118-218).
THEOREM NoWrongRowPasses == Decomp!Spec => []Decomp!WrongRowsFail
<1>1. Decomp!Init => DecInv
    BY DEF Decomp!Init, DecInv
<1>2. ASSUME DecInv, [Decomp!Next]_(Decomp!vars) PROVE DecInv'
    <2>1. CASE Decomp!Judge
        <3>1. PICK r \in Decomp!Rows :
                  /\ dec_bad' = dec_bad + (IF Decomp!Class(r) \in Decomp!Discrepancies THEN 1 ELSE 0)
                  /\ wrong' = wrong + (IF Decomp!Comparable(r) /\ ~Decomp!Right(r) THEN 1 ELSE 0)
                  /\ open' = open + (IF Decomp!Comparable(r) THEN 0 ELSE 1)
            BY <2>1 DEF Decomp!Judge
        <3>2. dec_verdict' = dec_verdict /\ dec_verdict = "none"
            BY <1>2, <2>1 DEF Decomp!Judge, DecInv
        <3>3. CASE Decomp!Comparable(r) /\ Decomp!Right(r)
            BY <1>2, <3>1, <3>2, <3>3, ClassIsRight DEF DecInv
        <3>4. CASE Decomp!Comparable(r) /\ ~Decomp!Right(r)
            BY <1>2, <3>1, <3>2, <3>4, ClassIsRight DEF DecInv
        <3>5. CASE ~Decomp!Comparable(r)
            BY <1>2, <3>1, <3>2, <3>5 DEF DecInv
        <3> QED BY <3>3, <3>4, <3>5
    <2>2. CASE Decomp!Report
        BY <1>2, <2>2 DEF Decomp!Report, DecInv
    <2>3. CASE UNCHANGED Decomp!vars
        BY <1>2, <2>3 DEF DecInv, Decomp!vars
    <2> QED BY <1>2, <2>1, <2>2, <2>3 DEF Decomp!Next
<1>3. DecInv => Decomp!WrongRowsFail
    BY DEF DecInv, Decomp!WrongRowsFail
<1> QED BY <1>1, <1>2, <1>3, PTL DEF Decomp!Spec

-----------------------------------------------------------------------------
(* The failure metrics. *)

\* Induction on the subsets of a finite set, one chosen element at a time.
LEMMA SubsetInduction ==
    ASSUME NEW S, IsFiniteSet(S), NEW P, {} \in P,
           \A s \in (SUBSET S) \ {{}} : s \ {CHOOSE x \in s : TRUE} \in P => s \in P
    PROVE  SUBSET S \subseteq P
<1>1. PICK K : K = {k \in Nat : \A s \in SUBSET S : Cardinality(s) = k => s \in P}
    OBVIOUS
<1>2. \A s \in SUBSET S : IsFiniteSet(s) /\ Cardinality(s) \in Nat
    BY FS_Subset, FS_CardinalityType
<1>3. 0 \in K
    <2>1. \A s \in SUBSET S : Cardinality(s) = 0 => s = {}
        BY <1>2, FS_EmptySet
    <2> QED BY <1>1, <2>1
<1>4. ASSUME NEW k \in Nat, k \in K PROVE k + 1 \in K
    <2>1. ASSUME NEW s \in SUBSET S, Cardinality(s) = k + 1 PROVE s \in P
        <3>1. PICK x : x = CHOOSE y \in s : TRUE
            OBVIOUS
        <3>2. s # {}
            BY <2>1, FS_EmptySet
        <3>3. x \in s
            BY <3>1, <3>2
        <3>4. Cardinality(s \ {x}) = k
            <4>1. Cardinality(s \ {x}) = Cardinality(s) - 1
                BY <1>2, <3>3, FS_RemoveElement
            <4> QED BY <2>1, <4>1
        <3>5. s \ {x} \in P
            BY <1>1, <1>4, <3>4
        <3> QED BY <3>1, <3>2, <3>5
    <2> QED BY <1>1, <2>1
<1>5. Nat \subseteq K
    BY <1>3, <1>4, SetInduction
<1> QED BY <1>1, <1>2, <1>5

\* The recursion of a sum over a set.
Sums(g, f, S) ==
    g = [s \in SUBSET S |-> IF s = {} THEN 0
                            ELSE LET x == CHOOSE y \in s : TRUE IN f[x] + g[s \ {x}]]

LEMMA SumExists ==
    ASSUME NEW S, IsFiniteSet(S), NEW f
    PROVE  \E g : Sums(g, f, S)
<1> DEFINE Small(k) == {t \in SUBSET S : Cardinality(t) <= k}
           Part(g, k) == \A s \in Small(k) :
                             g[s] = IF s = {} THEN 0
                                    ELSE LET x == CHOOSE y \in s : TRUE IN f[x] + g[s \ {x}]
<1>1. PICK K : K = {k \in Nat : \E g : Part(g, k)}
    OBVIOUS
<1>2. \A s \in SUBSET S : IsFiniteSet(s) /\ Cardinality(s) \in Nat
    BY FS_Subset, FS_CardinalityType
<1>3. 0 \in K
    <2>1. \A s \in Small(0) : s = {}
        BY <1>2, FS_EmptySet
    <2>2. Part([s \in SUBSET S |-> 0], 0)
        BY <2>1
    <2> QED BY <1>1, <2>2
<1>4. ASSUME NEW k \in Nat, k \in K PROVE k + 1 \in K
    <2>1. PICK g : Part(g, k)
        BY <1>1, <1>4
    <2>2. PICK h : h = [s \in SUBSET S |->
                            IF Cardinality(s) <= k THEN g[s]
                            ELSE LET x == CHOOSE y \in s : TRUE IN f[x] + g[s \ {x}]]
        OBVIOUS
    <2>3. ASSUME NEW s \in Small(k + 1)
          PROVE  h[s] = IF s = {} THEN 0
                        ELSE LET x == CHOOSE y \in s : TRUE IN f[x] + h[s \ {x}]
        <3>1. PICK x : x = CHOOSE y \in s : TRUE
            OBVIOUS
        <3>2. CASE s = {}
            <4>1. s \in Small(k)
                BY <3>2, FS_EmptySet
            <4>2. h[s] = g[s]
                BY <2>2, <4>1
            <4>3. g[s] = 0
                BY <2>1, <3>2, <4>1
            <4> QED BY <3>2, <4>2, <4>3
        <3>3. CASE s # {}
            <4>1. x \in s /\ s \ {x} \in SUBSET S
                BY <3>1, <3>3
            <4>2. Cardinality(s \ {x}) = Cardinality(s) - 1
                BY <1>2, <4>1, FS_RemoveElement
            <4>3. Cardinality(s \ {x}) <= k
                BY <1>2, <4>2
            <4>4. h[s \ {x}] = g[s \ {x}]
                BY <2>2, <4>1, <4>3
            <4>5. h[s] = f[x] + g[s \ {x}]
                <5>1. CASE Cardinality(s) <= k
                    <6>1. h[s] = g[s]
                        BY <2>2, <5>1
                    <6>2. g[s] = f[x] + g[s \ {x}]
                        BY <2>1, <3>1, <3>3, <5>1
                    <6> QED BY <6>1, <6>2
                <5>2. CASE ~(Cardinality(s) <= k)
                    BY <2>2, <3>1, <5>2
                <5> QED BY <5>1, <5>2
            <4> QED BY <3>1, <3>3, <4>4, <4>5
        <3> QED BY <3>2, <3>3
    <2>4. Part(h, k + 1)
        BY <2>3
    <2>5. \E u : Part(u, k + 1)
        BY <2>4
    <2> HIDE DEF Part
    <2> QED BY <1>1, <2>5
<1>5. PICK n \in Nat : n = Cardinality(S)
    BY FS_CardinalityType
<1>6. n \in K
    BY <1>3, <1>4, SetInduction
<1>7. PICK g : Part(g, n)
    BY <1>1, <1>6
<1>8. SUBSET S = Small(n)
    BY <1>5, FS_Subset
<1>9. PICK h : h = [s \in SUBSET S |-> g[s]]
    OBVIOUS
<1>10. Sums(h, f, S)
    <2>1. ASSUME NEW s \in SUBSET S
          PROVE  h[s] = IF s = {} THEN 0
                        ELSE LET x == CHOOSE y \in s : TRUE IN f[x] + h[s \ {x}]
        BY <1>7, <1>8, <1>9
    <2> QED BY <1>9, <2>1 DEF Sums
<1> QED BY <1>10

\* A sum of naturals is one; a sum of zeros is zero.
LEMMA SumIsNat ==
    ASSUME NEW S, IsFiniteSet(S), NEW f \in [S -> Nat], NEW g, Sums(g, f, S)
    PROVE  \A s \in SUBSET S : g[s] \in Nat
<1>1. PICK P : P = {s \in SUBSET S : g[s] \in Nat}
    OBVIOUS
<1>2. g[{}] = 0
    BY DEF Sums
<1>3. ASSUME NEW s \in (SUBSET S) \ {{}}, s \ {CHOOSE x \in s : TRUE} \in P
      PROVE  s \in P
    <2>1. PICK x : x = CHOOSE y \in s : TRUE
        OBVIOUS
    <2>2. g[s] = f[x] + g[s \ {x}]
        BY <2>1 DEF Sums
    <2>3. x \in S /\ f[x] \in Nat
        BY <2>1
    <2> QED BY <1>1, <1>3, <2>1, <2>2, <2>3
<1>4. {} \in P
    BY <1>1, <1>2
<1>5. SUBSET S \subseteq P
    BY <1>3, <1>4, SubsetInduction, Zenon
<1> QED BY <1>1, <1>5

LEMMA SumOfNothing ==
    ASSUME NEW S, IsFiniteSet(S), NEW f, \A x \in S : f[x] = 0, NEW g, Sums(g, f, S)
    PROVE  g[S] = 0
<1>1. PICK P : P = {s \in SUBSET S : g[s] = 0}
    OBVIOUS
<1>2. g[{}] = 0
    BY DEF Sums
<1>3. ASSUME NEW s \in (SUBSET S) \ {{}}, s \ {CHOOSE x \in s : TRUE} \in P
      PROVE  s \in P
    <2>1. PICK x : x = CHOOSE y \in s : TRUE
        OBVIOUS
    <2>2. g[s] = f[x] + g[s \ {x}]
        BY <2>1 DEF Sums
    <2>3. x \in S /\ f[x] = 0
        BY <2>1
    <2> QED BY <1>1, <1>3, <2>1, <2>2, <2>3
<1>4. {} \in P
    BY <1>1, <1>2
<1>5. SUBSET S \subseteq P
    BY <1>3, <1>4, SubsetInduction, Zenon
<1> QED BY <1>1, <1>5

\* One more in one place is one more in the sum.
LEMMA SumOfOneMore ==
    ASSUME NEW S, IsFiniteSet(S), NEW f \in [S -> Nat], NEW r \in S,
           NEW h, \A x \in S : h[x] = f[x] + (IF x = r THEN 1 ELSE 0),
           NEW g, Sums(g, f, S), NEW k, Sums(k, h, S)
    PROVE  k[S] = g[S] + 1
<1>1. PICK P : P = {s \in SUBSET S : k[s] = g[s] + (IF r \in s THEN 1 ELSE 0)}
    OBVIOUS
<1>2. g[{}] = 0 /\ k[{}] = 0
    BY DEF Sums
<1>3. ASSUME NEW s \in (SUBSET S) \ {{}}, s \ {CHOOSE x \in s : TRUE} \in P
      PROVE  s \in P
    <2>1. PICK x : x = CHOOSE y \in s : TRUE
        OBVIOUS
    <2>2. g[s] = f[x] + g[s \ {x}] /\ k[s] = h[x] + k[s \ {x}]
        BY <2>1 DEF Sums
    <2>3. x \in s /\ x \in S /\ f[x] \in Nat /\ s \ {x} \in SUBSET S
        BY <2>1
    <2>4. g[s \ {x}] \in Nat
        BY <2>3, SumIsNat
    <2>5. k[s \ {x}] = g[s \ {x}] + (IF r \in s \ {x} THEN 1 ELSE 0)
        BY <1>1, <1>3, <2>1
    <2>6. h[x] = f[x] + (IF x = r THEN 1 ELSE 0)
        BY <2>3
    <2>7. k[s] = g[s] + (IF r \in s THEN 1 ELSE 0)
        BY <2>2, <2>3, <2>4, <2>5, <2>6
    <2> QED BY <1>1, <2>7
<1>4. {} \in P
    BY <1>1, <1>2
<1>5. SUBSET S \subseteq P
    BY <1>3, <1>4, SubsetInduction, Zenon
<1>6. g[S] \in Nat
    BY SumIsNat
<1> QED BY <1>1, <1>5, <1>6

\* What the counts mean: the flip-flops read, those with a net that some rule
\* knows, and those among them that a rule is the first to match.
Counted == {i \in 1..Len(ffs) : ffs[i] # Metrics!NoQ /\ Names[ffs[i]] # {}}
InRow(r) == {i \in Counted : Metrics!FirstRule(ffs[i]) = r}

Judged == fmeda_pc \in {"computed", "stopped"}

\* A flip-flop still waits for its net.
Waits == ffs # <<>> /\ ffs[Len(ffs)] = Metrics!NoQ

\* Of a netlist in which no net was taken for another's, every line is counted
\* for what it is; a run with a netlist is judged by what was counted.
FmInv ==
    /\ ffs \in Seq(DOMAIN Names \cup {Metrics!NoQ})
    /\ in_ff <=> Waits
    /\ total = Len(ffs)
    /\ counts \in [Metrics!Rules -> Nat]
    /\ \A r \in Metrics!Rules : counts[r] = Cardinality(InRow(r))
    /\ Metrics!Sum = Cardinality(Counted)
    /\ unmatched \in Seq(DOMAIN Names)
    /\ unmatched = <<>> <=>
           \A i \in 1..Len(ffs) : ffs[i] = Metrics!NoQ \/ Names[ffs[i]] # {}
    /\ fmeda_pc = "read" => recounts
    /\ Judged => (fmeda_pc = "computed" <=> (recounts => Metrics!Agrees))

LEMMA FmSets ==
    /\ \A S : Metrics!Cardinality(S) = Cardinality(S)
    /\ \A S : Metrics!IsFiniteSet(S) <=> IsFiniteSet(S)
BY DEF Metrics!Cardinality, Cardinality, Metrics!IsFiniteSet, IsFiniteSet

\* The sums of the counts and of the table are those of the recursion.
SumOver(f, S) == (CHOOSE g : Sums(g, f, S))[S]

LEMMA SumIsSum ==
    ASSUME NEW f, NEW S, IsFiniteSet(S)
    PROVE  \E g : Sums(g, f, S) /\ SumOver(f, S) = g[S]
<1>1. PICK g : g = CHOOSE h : Sums(h, f, S)
    OBVIOUS
<1>2. Sums(g, f, S)
    BY <1>1, SumExists
<1>3. SumOver(f, S) = g[S]
    BY <1>1 DEF SumOver
<1> QED BY <1>2, <1>3

LEMMA SumOfCounts == Metrics!Sum = SumOver(counts, Metrics!Rules)
BY Zenon DEF SumOver, Sums, Metrics!Sum, Metrics!MapThenSumSet, Metrics!MapThenFoldSet

LEMMA SumOfCountsNext == Metrics!Sum' = SumOver(counts', Metrics!Rules)
BY Zenon DEF SumOver, Sums, Metrics!Sum, Metrics!MapThenSumSet, Metrics!MapThenFoldSet

LEMMA SumOfTable ==
    ASSUME Metrics!TableCloses
    PROVE  SumOver(Elements, Metrics!Rules) = TotalFf
BY Zenon DEF SumOver, Sums, Metrics!TableCloses, Metrics!MapThenSumSet,
             Metrics!MapThenFoldSet

LEMMA FirstIsRule ==
    ASSUME Metrics!TableCloses, Metrics!FmedaAssumption,
           NEW n \in DOMAIN Names, Names[n] # {}
    PROVE  Metrics!FirstRule(n) \in Metrics!Rules
<1>1. Names[n] \subseteq Metrics!Rules
    BY DEF Metrics!TableCloses
<1>2. Names[n] \subseteq Nat
    BY <1>1 DEF Metrics!FmedaAssumption
<1>3. \E m \in Names[n] : \A k \in Names[n] : k >= m
    BY <1>2, SmallestOf
<1> QED BY <1>1, <1>3 DEF Metrics!FirstRule, Metrics!Min

\* A step that neither starts a flip-flop nor attributes one.
LEMMA SameRecount ==
    ASSUME FmInv, UNCHANGED <<ffs, in_ff, total, counts, unmatched, recounts>>,
           fmeda_pc' = "read" => recounts,
           Judged' => (fmeda_pc' = "computed" <=> (recounts => Metrics!Agrees))
    PROVE  FmInv'
<1>1. Counted' = Counted /\ \A r : InRow(r)' = InRow(r)
    BY DEF Counted, InRow
<1>2. Metrics!Sum' = Metrics!Sum
    BY SumOfCounts, SumOfCountsNext
<1>3. (Waits' <=> Waits) /\ (Metrics!Agrees' <=> Metrics!Agrees)
    BY <1>2 DEF Waits, Metrics!Agrees
<1> QED BY <1>1, <1>2, <1>3 DEF FmInv

LEMMA CellLineCounts ==
    ASSUME FmInv, Metrics!FmedaAssumption, Metrics!CellLine
    PROVE  FmInv'
<1> USE DEF FmInv
<1>1. PICK n \in Nat : n = Len(ffs)
    OBVIOUS
<1>2. ffs' = Append(ffs, Metrics!NoQ) /\ UNCHANGED <<counts, unmatched>>
      /\ in_ff' = TRUE /\ total' = total + 1 /\ fmeda_pc' = "read"
      /\ recounts' = recounts /\ fmeda_pc = "read"
    BY DEF Metrics!CellLine, Metrics!Read
<1>3. /\ ffs' \in Seq(DOMAIN Names \cup {Metrics!NoQ}) /\ Len(ffs') = n + 1
      /\ ffs'[n + 1] = Metrics!NoQ /\ \A i \in 1..n : ffs'[i] = ffs[i]
    BY <1>1, <1>2, AppendProperties
<1>4. Counted' = Counted
    BY <1>1, <1>3 DEF Counted
<1>5. \A r : InRow(r)' = InRow(r)
    <2>1. \A i \in Counted : ffs'[i] = ffs[i]
        BY <1>1, <1>3 DEF Counted
    <2> QED BY <1>4, <2>1 DEF InRow
<1>6. Metrics!Sum' = Metrics!Sum
    BY <1>2, SumOfCounts, SumOfCountsNext
<1>7. Waits'
    <2>1. ffs' # <<>>
        BY <1>3
    <2> QED BY <1>3, <2>1 DEF Waits
<1>8. (unmatched = <<>>)' <=>
          \A i \in 1..Len(ffs') : ffs'[i] = Metrics!NoQ \/ Names[ffs'[i]] # {}
    <2>1. unmatched' = unmatched
        BY <1>2
    <2>2. unmatched = <<>> <=> \A i \in 1..n : ffs[i] = Metrics!NoQ \/ Names[ffs[i]] # {}
        BY <1>1
    <2>3. \A i : i \in 1..(n + 1) <=> i \in 1..n \/ i = n + 1
        OBVIOUS
    <2>4. (\A i \in 1..(n + 1) : ffs'[i] = Metrics!NoQ \/ Names[ffs'[i]] # {})
              <=> \A i \in 1..n : ffs[i] = Metrics!NoQ \/ Names[ffs[i]] # {}
        <3> HIDE DEF FmInv
        <3> QED BY <1>3, <2>3
    <2>5. Len(ffs') = n + 1
        BY <1>3
    <2> HIDE DEF FmInv
    <2> QED BY <2>1, <2>2, <2>4, <2>5
<1> QED BY <1>1, <1>2, <1>3, <1>4, <1>5, <1>6, <1>7, <1>8 DEF Judged

LEMMA QLineCounts ==
    ASSUME FmInv, Metrics!FmedaAssumption, Metrics!TableCloses, Metrics!QLine
    PROVE  FmInv'
<1> USE DEF FmInv
<1>1. PICK n \in DOMAIN Names :
          ffs' = [ffs EXCEPT ![Len(ffs)] = n] /\ Metrics!Attribute(n)
    BY DEF Metrics!QLine
<1>2. /\ in_ff' = FALSE /\ total' = total /\ fmeda_pc' = "read" /\ Waits
      /\ fmeda_pc = "read" /\ recounts' = recounts
    BY <1>1 DEF Metrics!QLine, Metrics!Read
<1>3. PICK k \in Nat : k = Len(ffs)
    OBVIOUS
<1>4. k > 0 /\ ffs[k] = Metrics!NoQ
    <2>1. ffs # <<>> /\ ffs[k] = Metrics!NoQ
        BY <1>2, <1>3 DEF Waits
    <2> QED BY <1>3, <2>1, EmptySeq
<1>5. n # Metrics!NoQ
    BY DEF Metrics!FmedaAssumption
<1>6. /\ ffs' \in Seq(DOMAIN Names \cup {Metrics!NoQ}) /\ Len(ffs') = k
      /\ ffs'[k] = n /\ \A i \in 1..(k - 1) : ffs'[i] = ffs[i]
    <2>1. ffs \in [1..k -> DOMAIN Names \cup {Metrics!NoQ}]
        BY <1>3
    <2>2. ffs' \in [1..k -> DOMAIN Names \cup {Metrics!NoQ}]
        BY <1>1, <1>3, <1>4, <2>1
    <2>3. ffs'[k] = n /\ \A i \in 1..(k - 1) : ffs'[i] = ffs[i]
        BY <1>1, <1>3, <1>4, <2>1
    <2> QED BY <2>2, <2>3
<1>7. ~Waits'
    BY <1>5, <1>6 DEF Waits
<1>8. Counted \subseteq 1..(k - 1)
    BY <1>3, <1>4 DEF Counted
<1>9. \A r : InRow(r) \subseteq 1..(k - 1)
    BY <1>8 DEF InRow
<1>10. (unmatched = <<>>) <=> \A i \in 1..(k - 1) : ffs[i] = Metrics!NoQ \/ Names[ffs[i]] # {}
    BY <1>3, <1>4
<1>11. CASE Names[n] = {}
    <2>1. unmatched' = Append(unmatched, n) /\ counts' = counts
        BY <1>1, <1>11 DEF Metrics!Attribute
    <2>2. Counted' = Counted
        BY <1>3, <1>4, <1>6, <1>11 DEF Counted
    <2>3. \A r : InRow(r)' = InRow(r)
        <3>1. \A i \in Counted : ffs'[i] = ffs[i]
            BY <1>6, <1>8
        <3> QED BY <2>2, <3>1 DEF InRow
    <2>4. Metrics!Sum' = Metrics!Sum
        BY <2>1, SumOfCounts, SumOfCountsNext
    <2>5. unmatched' # <<>> /\ unmatched' \in Seq(DOMAIN Names)
        BY <2>1, AppendProperties
    <2>6. ~\A i \in 1..Len(ffs') : ffs'[i] = Metrics!NoQ \/ Names[ffs'[i]] # {}
        BY <1>4, <1>5, <1>6, <1>11
    <2> QED BY <1>2, <1>3, <1>6, <1>7, <2>1, <2>2, <2>3, <2>4, <2>5, <2>6 DEF Judged
<1>12. CASE Names[n] # {}
    <2>1. PICK r0 : r0 = Metrics!FirstRule(n)
        OBVIOUS
    <2>2. r0 \in Metrics!Rules
        BY <1>12, <2>1, FirstIsRule
    <2>3. counts' = [counts EXCEPT ![r0] = counts[r0] + 1] /\ unmatched' = unmatched
        BY <1>1, <1>12, <2>1 DEF Metrics!Attribute
    <2>4. /\ counts' \in [Metrics!Rules -> Nat]
          /\ \A r \in Metrics!Rules : counts'[r] = counts[r] + (IF r = r0 THEN 1 ELSE 0)
        BY <2>3, Bumped
    <2>5. Counted' = Counted \cup {k}
        BY <1>3, <1>4, <1>5, <1>6, <1>12, SMTT(40) DEF Counted
    <2>6. Cardinality(Counted') = Cardinality(Counted) + 1
        <3>1. \A S : S \subseteq 1..(k - 1) => Cardinality(S \cup {k}) = Cardinality(S) + 1
            <4>1. k \in Nat \ {0}
                BY <1>4
            <4> QED BY <4>1, OneMore, Zenon
        <3> QED BY <1>8, <2>5, <3>1
    <2>7. ASSUME NEW r \in Metrics!Rules PROVE counts'[r] = Cardinality(InRow(r)')
        <3>1. \A i \in Counted : ffs'[i] = ffs[i]
            BY <1>6, <1>8
        <3>2. InRow(r)' = InRow(r) \cup (IF r = r0 THEN {k} ELSE {})
            BY <1>6, <2>1, <2>5, <3>1 DEF InRow
        <3>3. PICK S, T, b : S = InRow(r) /\ T = InRow(r)' /\ b = (r = r0)
            OBVIOUS
        <3>4. S \subseteq 1..(k - 1) /\ T = S \cup (IF b THEN {k} ELSE {}) /\ b \in BOOLEAN
            BY <1>9, <3>2, <3>3
        <3>5. Cardinality(T) = Cardinality(S) + (IF b THEN 1 ELSE 0)
            <4>1. k \in Nat \ {0}
                BY <1>4
            <4> QED BY <3>4, <4>1, MaybeOneMore, ZenonT(60)
        <3>6. Cardinality(InRow(r)') = Cardinality(InRow(r)) + (IF r = r0 THEN 1 ELSE 0)
            BY <3>3, <3>5
        <3> QED BY <2>4, <3>6
    <2>8. Metrics!Sum' = Metrics!Sum + 1
        <3>1. IsFiniteSet(Metrics!Rules)
            BY FmSets DEF Metrics!FmedaAssumption
        <3>2. PICK g : Sums(g, counts, Metrics!Rules) /\ Metrics!Sum = g[Metrics!Rules]
            BY <3>1, SumIsSum, SumOfCounts
        <3>3. PICK h : Sums(h, counts', Metrics!Rules) /\ Metrics!Sum' = h[Metrics!Rules]
            BY <3>1, SumIsSum, SumOfCountsNext
        <3>4. counts \in [Metrics!Rules -> Nat]
            OBVIOUS
        <3>5. \A r \in Metrics!Rules : counts'[r] = counts[r] + (IF r = r0 THEN 1 ELSE 0)
            BY <2>4
        <3>6. h[Metrics!Rules] = g[Metrics!Rules] + 1
            <4>1. PICK S, a, b : S = Metrics!Rules /\ a = counts /\ b = counts'
                OBVIOUS
            <4>2. /\ IsFiniteSet(S) /\ a \in [S -> Nat] /\ r0 \in S
                  /\ \A x \in S : b[x] = a[x] + (IF x = r0 THEN 1 ELSE 0)
                  /\ Sums(g, a, S) /\ Sums(h, b, S)
                BY <2>2, <3>1, <3>2, <3>3, <3>4, <3>5, <4>1
            <4>3. h[S] = g[S] + 1
                <5> HIDE DEF FmInv
                <5> QED BY <4>2, SumOfOneMore
            <4> QED BY <4>1, <4>3
        <3> QED BY <3>2, <3>3, <3>6
    <2>9. (unmatched = <<>>)' <=>
              \A i \in 1..Len(ffs') : ffs'[i] = Metrics!NoQ \/ Names[ffs'[i]] # {}
        BY <1>4, <1>6, <1>10, <1>12, <2>3
    <2> QED BY <1>2, <1>3, <1>6, <1>7, <2>3, <2>4, <2>6, <2>7, <2>8, <2>9 DEF Judged
<1> QED BY <1>11, <1>12

\* Once the net of another cell was taken for a flip-flop's it remains so.
LEMMA FmKept ==
    ASSUME stale \/ FmInv, Metrics!FmedaAssumption, Metrics!TableCloses,
           [Metrics!Next]_(Metrics!vars)
    PROVE  (stale \/ FmInv)'
<1>1. CASE stale
    BY <1>1 DEF Metrics!Next, Metrics!Main, Metrics!CellLine, Metrics!QLine,
                Metrics!OtherQLine, Metrics!CheckNetlist, Metrics!vars, Metrics!netlist
<1>2. CASE FmInv /\ Metrics!Main
    BY <1>2, SameRecount DEF Metrics!Main, Metrics!counted, Metrics!netlist, Judged, FmInv
<1>3. CASE FmInv /\ Metrics!CellLine
    BY <1>3, CellLineCounts
<1>4. CASE FmInv /\ Metrics!QLine
    BY <1>4, QLineCounts
<1>5. CASE FmInv /\ Metrics!OtherQLine
    <2>1. CASE in_ff
        BY <1>5, <2>1 DEF Metrics!OtherQLine
    <2>2. CASE ~in_ff
        BY <1>5, <2>2, SameRecount DEF Metrics!OtherQLine, Metrics!Read, Judged, FmInv
    <2> QED BY <2>1, <2>2
<1>6. CASE FmInv /\ Metrics!CheckNetlist
    BY <1>6, SameRecount DEF Metrics!CheckNetlist, Metrics!counted, Metrics!netlist, Judged, FmInv
<1>7. CASE FmInv /\ UNCHANGED Metrics!vars
    BY <1>7, SameRecount DEF Metrics!vars, Metrics!counted, Metrics!netlist, Judged, FmInv
<1> QED BY <1>1, <1>2, <1>3, <1>4, <1>5, <1>6, <1>7 DEF Metrics!Next

\* What is compared is what the table promises.
LEMMA AgreementIsExact ==
    ASSUME FmInv, Metrics!FmedaAssumption, Metrics!TableCloses
    PROVE  Metrics!Agrees <=> Metrics!NetlistIsTable
<1>1. PICK k \in Nat : k = Len(ffs) /\ DOMAIN ffs = 1..k
    BY DEF FmInv
<1>2. IsFiniteSet(1..k) /\ Cardinality(1..k) = k
    BY FS_Interval
<1>3. Counted \subseteq 1..k
    BY <1>1 DEF Counted
<1>4. Metrics!Sum = Cardinality(Counted) /\ total = k
    BY <1>1 DEF FmInv
<1>5. (\A i \in DOMAIN ffs : ffs[i] # Metrics!NoQ /\ Names[ffs[i]] # {}) <=> Counted = 1..k
    BY <1>1 DEF Counted
<1>6. ASSUME Counted = 1..k
      PROVE  /\ \A r : {i \in DOMAIN ffs : Metrics!FirstRule(ffs[i]) = r} = InRow(r)
             /\ unmatched = <<>>
    <2>1. \A i \in 1..k : Names[ffs[i]] # {}
        BY <1>6 DEF Counted
    <2> QED BY <1>1, <1>6, <2>1 DEF InRow, FmInv
<1>7. ASSUME \A r \in Metrics!Rules : counts[r] = Elements[r]
      PROVE  Metrics!Sum = TotalFf
    <2>1. counts = Elements
        BY <1>7 DEF FmInv, Metrics!FmedaAssumption
    <2> QED BY <2>1, SumOfCounts, SumOfTable
<1>8. ASSUME Metrics!Agrees
      PROVE  Counted = 1..k
    <2>1. Cardinality(Counted) = k
        BY <1>4, <1>8 DEF Metrics!Agrees
    <2> QED BY <1>2, <1>3, <2>1, FS_Subset
<1>9. ASSUME Metrics!Agrees, NEW r \in Metrics!Rules
      PROVE  Cardinality({i \in DOMAIN ffs : Metrics!FirstRule(ffs[i]) = r}) = Elements[r]
    BY <1>6, <1>8, <1>9 DEF Metrics!Agrees, FmInv
<1>10. ASSUME Counted = 1..k,
              \A r \in Metrics!Rules :
                  Cardinality({i \in DOMAIN ffs : Metrics!FirstRule(ffs[i]) = r}) = Elements[r]
       PROVE  Metrics!Agrees
    <2>1. \A r \in Metrics!Rules : counts[r] = Elements[r]
        BY <1>6, <1>10 DEF FmInv
    <2>2. Metrics!Sum = TotalFf /\ Metrics!Sum = k
        BY <1>2, <1>4, <1>7, <1>10, <2>1
    <2>3. unmatched = <<>>
        BY <1>6, <1>10
    <2> QED BY <1>4, <2>1, <2>2, <2>3 DEF Metrics!Agrees
<1>11. Metrics!Agrees <=>
           /\ \A i \in DOMAIN ffs : ffs[i] # Metrics!NoQ /\ Names[ffs[i]] # {}
           /\ \A r \in Metrics!Rules :
                  Cardinality({i \in DOMAIN ffs : Metrics!FirstRule(ffs[i]) = r}) = Elements[r]
    BY <1>5, <1>8, <1>9, <1>10
<1> QED BY <1>11, FmSets DEF Metrics!NetlistIsTable

\* Metrics are computed from a table that adds up only; with --netlist, exactly
\* from the netlists in which every flip-flop belongs to a row and every row has
\* as many as the table says, unless the net of another cell was taken for that
\* of a flip-flop that has none; and without it from any.  This whatever the
\* rules, the table and the netlist: the counts are those of the flip-flops by
\* their first rule, and their sum is that of the flip-flops with a row
\* (scripts/fmeda.py:44-54, 558-634).
THEOREM NetlistsAreRecounted == Metrics!Spec => []Metrics!RecountExact
<1> USE ToolConstants DEF ToolConstants
<1>1. CASE Metrics!TableCloses
    <2>1. Metrics!Init => FmInv
        <3>1. SUFFICES ASSUME Metrics!Init PROVE FmInv
            OBVIOUS
        <3>2. ffs = <<>> /\ in_ff = FALSE /\ total = 0 /\ unmatched = <<>> /\ fmeda_pc = "main"
              /\ counts = [r \in Metrics!Rules |-> 0]
            BY <1>1, <3>1 DEF Metrics!Init
        <3>3. Counted = {} /\ \A r : InRow(r) = {}
            BY <3>2 DEF Counted, InRow
        <3>4. Metrics!Sum = 0
            <4>1. IsFiniteSet(Metrics!Rules)
                BY FmSets DEF Metrics!FmedaAssumption
            <4>2. PICK g : Sums(g, counts, Metrics!Rules) /\ Metrics!Sum = g[Metrics!Rules]
                BY <4>1, SumIsSum, SumOfCounts
            <4>3. \A r \in Metrics!Rules : counts[r] = 0
                BY <3>2
            <4> QED BY <4>1, <4>2, <4>3, SumOfNothing
        <3>5. ~Waits /\ ~Judged
            BY <3>2 DEF Waits, Judged
        <3> QED BY <3>2, <3>3, <3>4, <3>5, FS_EmptySet DEF FmInv
    <2>2. (stale \/ FmInv) /\ [Metrics!Next]_(Metrics!vars) => (stale \/ FmInv)'
        BY <1>1, FmKept
    <2>3. (stale \/ FmInv) => Metrics!RecountExact
        BY <1>1, AgreementIsExact DEF FmInv, Judged, Metrics!RecountExact
    <2> QED BY <2>1, <2>2, <2>3, PTL DEF Metrics!Spec
<1>2. CASE ~Metrics!TableCloses
    <2> DEFINE Stopped == fmeda_pc = "stopped"
    <2>1. Metrics!Init => Stopped
        BY <1>2 DEF Metrics!Init
    <2>2. Stopped /\ [Metrics!Next]_(Metrics!vars) => Stopped'
        BY DEF Metrics!Next, Metrics!Main, Metrics!CellLine, Metrics!QLine, Metrics!OtherQLine,
               Metrics!CheckNetlist, Metrics!Read, Metrics!vars
    <2>3. Stopped => Metrics!RecountExact
        BY <1>2 DEF Metrics!RecountExact
    <2> QED BY <2>1, <2>2, <2>3, PTL DEF Metrics!Spec
<1> QED BY <1>1, <1>2

-----------------------------------------------------------------------------
(* The check of the push and pop table. *)

MicroOp ==
    [mem : BOOLEAN, we : BOOLEAN, rs1 : Int, rs2 : Int, rd : Int, imm : Int,
     azero : BOOLEAN, wb : BOOLEAN, last : BOOLEAN, ret : BOOLEAN]

\* What a step writes, where it reaches the memory and where it goes on.
Writes(s) == s.rd # 0 /\ (IF s.mem THEN ~s.we ELSE s.wb)
StepValue(s) ==
    IF s.mem THEN Zcmp!MemGet(regs[2] + s.imm)
    ELSE IF s.azero THEN s.imm ELSE regs[s.rs1] + s.imm
Access(s) == [addr |-> regs[2] + s.imm, data |-> IF s.we THEN regs[s.rs2] ELSE -1]
Target(w, s) == IF s.rs2 \in DOMAIN w THEN w[s.rs2] ELSE regs[s.rs2]

StepEvents(w, b, n, s) ==
    LET v == IF Writes(s) THEN Zcmp!Write(w, s.rd, StepValue(s)) ELSE w
    IN [regw |-> v, memb |-> IF s.mem THEN Append(b, Access(s)) ELSE b,
        next |-> IF s.last /\ s.ret THEN Target(v, s) ELSE n]

LEMMA AfterIs ==
    ASSUME NEW w, NEW b, NEW n, NEW s \in MicroOp
    PROVE  Zcmp!Returned(Zcmp!Interpret([regw |-> w, memb |-> b, next |-> n], s), s)
               = StepEvents(w, b, n, s)
<1>1. PICK ev : ev = [regw |-> w, memb |-> b, next |-> n]
    OBVIOUS
<1>2. PICK v, a : /\ v = IF Writes(s) THEN Zcmp!Write(w, s.rd, StepValue(s)) ELSE w
                  /\ a = IF s.mem THEN Append(b, Access(s)) ELSE b
    OBVIOUS
<1>3. /\ s.mem \in BOOLEAN /\ s.we \in BOOLEAN /\ s.wb \in BOOLEAN /\ s.azero \in BOOLEAN
      /\ s.last \in BOOLEAN /\ s.ret \in BOOLEAN
    BY DEF MicroOp
<1>4. Zcmp!Interpret(ev, s) = [regw |-> v, memb |-> a, next |-> n]
    <2>1. CASE s.mem /\ s.we
        <3>1. Zcmp!Interpret(ev, s)
                  = [ev EXCEPT !.memb = Append(@, [addr |-> regs[2] + s.imm,
                                                   data |-> regs[s.rs2]])]
            BY <2>1 DEF Zcmp!Interpret, Zcmp!SP
        <3>2. v = w /\ a = Append(b, [addr |-> regs[2] + s.imm, data |-> regs[s.rs2]])
            BY <1>2, <2>1 DEF Writes, Access
        <3> QED BY <1>1, <3>1, <3>2
    <2>2. CASE s.mem /\ ~s.we
        <3>1. Zcmp!Interpret(ev, s)
                  = [ev EXCEPT !.memb = Append(@, [addr |-> regs[2] + s.imm, data |-> -1]),
                               !.regw = IF s.rd = 0 THEN @
                                        ELSE Zcmp!Write(@, s.rd, Zcmp!MemGet(regs[2] + s.imm))]
            BY <2>2 DEF Zcmp!Interpret, Zcmp!SP, Zcmp!ZERO, Zcmp!None
        <3>2. v = IF s.rd = 0 THEN w ELSE Zcmp!Write(w, s.rd, Zcmp!MemGet(regs[2] + s.imm))
            BY <1>2, <2>2 DEF Writes, StepValue
        <3>3. a = Append(b, [addr |-> regs[2] + s.imm, data |-> -1])
            BY <1>2, <2>2 DEF Access
        <3> QED BY <1>1, <3>1, <3>2, <3>3
    <2>3. CASE ~s.mem /\ s.wb /\ s.rd # 0
        <3>1. Zcmp!Interpret(ev, s)
                  = [ev EXCEPT !.regw = Zcmp!Write(@, s.rd, IF s.azero THEN s.imm
                                                            ELSE regs[s.rs1] + s.imm)]
            BY <2>3 DEF Zcmp!Interpret, Zcmp!ZERO
        <3>2. v = Zcmp!Write(w, s.rd, IF s.azero THEN s.imm ELSE regs[s.rs1] + s.imm) /\ a = b
            BY <1>2, <2>3 DEF Writes, StepValue
        <3> QED BY <1>1, <3>1, <3>2
    <2>4. CASE ~s.mem /\ ~(s.wb /\ s.rd # 0)
        <3>1. Zcmp!Interpret(ev, s) = ev
            BY <2>4 DEF Zcmp!Interpret, Zcmp!ZERO
        <3>2. v = w /\ a = b
            BY <1>2, <2>4 DEF Writes
        <3> QED BY <1>1, <3>1, <3>2
    <2> QED BY <1>3, <2>1, <2>2, <2>3, <2>4
<1>5. Zcmp!Returned([regw |-> v, memb |-> a, next |-> n], s)
          = [regw |-> v, memb |-> a, next |-> IF s.last /\ s.ret THEN Target(v, s) ELSE n]
    <2>1. PICK e : e = [regw |-> v, memb |-> a, next |-> n]
        OBVIOUS
    <2>2. e.regw = v
        BY <2>1
    <2>3. CASE s.last /\ s.ret
        <3>1. Zcmp!Returned(e, s) = [e EXCEPT !.next = Target(v, s)]
            BY <2>2, <2>3 DEF Zcmp!Returned, Target
        <3> QED BY <2>1, <2>3, <3>1
    <2>4. CASE ~(s.last /\ s.ret)
        <3>1. Zcmp!Returned(e, s) = e
            BY <2>4 DEF Zcmp!Returned
        <3> QED BY <2>1, <2>4, <3>1
    <2> QED BY <2>3, <2>4
<1> QED BY <1>1, <1>2, <1>4, <1>5 DEF StepEvents

\* The recursion over the steps.
Begin == [regw |-> Zcmp!NoWrites, memb |-> <<>>, next |-> Zcmp!CmPc(case) + 2]
OneMoreOp(ev, s) == Zcmp!Returned(Zcmp!Interpret(ev, s), s)
Run(f, q, m) == f = [k \in 0..m |-> IF k = 0 THEN Begin ELSE OneMoreOp(f[k - 1], q[k])]

LEMMA RunExists == ASSUME NEW q, NEW m \in Nat PROVE \E f : Run(f, q, m)
<1>1. PICK S : S = {n \in Nat : \E f : Run(f, q, n)}
    OBVIOUS
<1>2. 0 \in S
    <2>1. PICK f : f = [k \in 0..0 |-> Begin]
        OBVIOUS
    <2>2. \A k \in 0..0 : f[k] = IF k = 0 THEN Begin ELSE OneMoreOp(f[k - 1], q[k])
        BY <2>1
    <2>3. f = [k \in 0..0 |-> IF k = 0 THEN Begin ELSE OneMoreOp(f[k - 1], q[k])]
        BY <2>1, <2>2
    <2> QED BY <1>1, <2>3 DEF Run
<1>3. ASSUME NEW n \in Nat, n \in S PROVE n + 1 \in S
    <2>1. PICK f : Run(f, q, n)
        BY <1>1, <1>3
    <2>2. PICK last : last = OneMoreOp(f[n], q[n + 1])
        OBVIOUS
    <2>3. PICK g : g = [k \in 0..(n + 1) |-> IF k = n + 1 THEN last ELSE f[k]]
        OBVIOUS
    <2>4. ASSUME NEW k \in 0..(n + 1)
          PROVE  g[k] = IF k = 0 THEN Begin ELSE OneMoreOp(g[k - 1], q[k])
        <3>1. CASE k = n + 1
            <4>1. k # 0 /\ k - 1 = n /\ n \in 0..(n + 1) /\ n # n + 1
                BY <3>1
            <4>2. g[k - 1] = f[n] /\ g[k] = last
                BY <2>3, <3>1, <4>1
            <4> QED BY <2>2, <3>1, <4>1, <4>2
        <3>2. CASE k # n + 1 /\ k # 0
            <4>1. k \in 0..n /\ k - 1 \in 0..(n + 1) /\ k - 1 # n + 1
                BY <3>2
            <4>2. g[k] = f[k] /\ g[k - 1] = f[k - 1]
                BY <2>3, <3>2, <4>1
            <4>3. f[k] = OneMoreOp(f[k - 1], q[k])
                BY <2>1, <3>2, <4>1 DEF Run
            <4> QED BY <3>2, <4>2, <4>3
        <3>3. CASE k = 0
            <4>1. f[0] = Begin
                BY <2>1 DEF Run
            <4>2. k # n + 1
                BY <3>3
            <4> QED BY <2>3, <3>3, <4>1, <4>2
        <3> QED BY <3>1, <3>2, <3>3
    <2>5. g = [k \in 0..(n + 1) |-> IF k = 0 THEN Begin ELSE OneMoreOp(g[k - 1], q[k])]
        BY <2>3, <2>4
    <2>6. Run(g, q, n + 1)
        BY <2>5 DEF Run
    <2> QED BY <1>1, <2>6
<1>4. Nat \subseteq S
    BY <1>2, <1>3, SetInduction
<1> QED BY <1>1, <1>4

LEMMA EventsRun ==
    ASSUME NEW q, Len(q) \in Nat
    PROVE  \E f : Run(f, q, Len(q)) /\ Zcmp!Events(q) = f[Len(q)]
<1>1. PICK f : f = CHOOSE g : Run(g, q, Len(q))
    OBVIOUS
<1>2. Run(f, q, Len(q))
    BY <1>1, RunExists
<1>3. Zcmp!Events(q) = f[Len(q)]
    BY <1>1, Zenon DEF Zcmp!Events, Run, Begin, OneMoreOp
<1> QED BY <1>2, <1>3

\* A sequence of beats and then steps that are none, which ends where it returns.
Shape(q, m) ==
    /\ q \in Seq(MicroOp) /\ m \in 0..Len(q)
    /\ \A i \in 1..Len(q) : q[i].mem <=> i <= m
    /\ \A i \in 1..Len(q) : q[i].last /\ q[i].ret => i = Len(q)

\* The writes of the first k steps: each is the value of a step that writes it.
Wrote(w, q, k) ==
    /\ w = [r \in DOMAIN w |-> w[r]]
    /\ \A r \in DOMAIN w : \E i \in 1..k : Writes(q[i]) /\ q[i].rd = r /\ w[r] = StepValue(q[i])
    /\ \A i \in 1..k : Writes(q[i]) => q[i].rd \in DOMAIN w

LEMMA WroteOneMore ==
    ASSUME NEW w, NEW q, NEW k \in Nat, Wrote(w, q, k), NEW v,
           v = IF Writes(q[k + 1]) THEN Zcmp!Write(w, q[k + 1].rd, StepValue(q[k + 1])) ELSE w
    PROVE  Wrote(v, q, k + 1)
<1>1. \A i : i \in 1..(k + 1) <=> i \in 1..k \/ i = k + 1
    OBVIOUS
<1>2. CASE Writes(q[k + 1])
    <2>1. PICK r0, x : r0 = q[k + 1].rd /\ x = StepValue(q[k + 1])
        OBVIOUS
    <2>2. v = [r \in DOMAIN w \cup {r0} |-> IF r = r0 THEN x ELSE w[r]]
        BY <1>2, <2>1 DEF Zcmp!Write
    <2>3. DOMAIN v = DOMAIN w \cup {r0} /\ v = [r \in DOMAIN v |-> v[r]]
        BY <2>2
    <2>4. ASSUME NEW r \in DOMAIN v
          PROVE  \E i \in 1..(k + 1) : Writes(q[i]) /\ q[i].rd = r /\ v[r] = StepValue(q[i])
        <3>1. CASE r = r0
            <4>1. v[r] = x
                BY <2>2, <2>3, <3>1
            <4> QED BY <1>1, <1>2, <2>1, <3>1, <4>1
        <3>2. CASE r # r0
            <4>1. r \in DOMAIN w /\ v[r] = w[r]
                BY <2>2, <2>3, <3>2
            <4>2. PICK i \in 1..k : Writes(q[i]) /\ q[i].rd = r /\ w[r] = StepValue(q[i])
                BY <4>1 DEF Wrote
            <4> QED BY <1>1, <4>1, <4>2
        <3> QED BY <3>1, <3>2
    <2>5. \A i \in 1..(k + 1) : Writes(q[i]) => q[i].rd \in DOMAIN v
        BY <1>1, <2>1, <2>3 DEF Wrote
    <2> QED BY <2>3, <2>4, <2>5 DEF Wrote
<1>3. CASE ~Writes(q[k + 1])
    <2>1. v = w
        BY <1>3
    <2>2. \A r \in DOMAIN w : \E i \in 1..(k + 1) :
              Writes(q[i]) /\ q[i].rd = r /\ w[r] = StepValue(q[i])
        BY <1>1 DEF Wrote
    <2>3. \A i \in 1..(k + 1) : Writes(q[i]) => q[i].rd \in DOMAIN w
        BY <1>1, <1>3 DEF Wrote
    <2>4. w = [r \in DOMAIN w |-> w[r]]
        BY DEF Wrote
    <2> QED BY <2>1, <2>2, <2>3, <2>4 DEF Wrote
<1> QED BY <1>2, <1>3

Least(k, m) == IF k <= m THEN k ELSE m
Beats(q, m) == [i \in 1..m |-> Access(q[i])]
Leaves(w, q) ==
    IF Len(q) > 0 /\ q[Len(q)].last /\ q[Len(q)].ret THEN Target(w, q[Len(q)])
    ELSE Zcmp!CmPc(case) + 2

\* What the first k steps come to.
Reached(ev, q, m, k) ==
    \E w, n : /\ ev = [regw |-> w, memb |-> Beats(q, Least(k, m)), next |-> n]
              /\ Wrote(w, q, k)
              /\ n = IF k = Len(q) THEN Leaves(w, q) ELSE Zcmp!CmPc(case) + 2

LEMMA ReachedStart ==
    ASSUME NEW q, NEW m, Shape(q, m) PROVE Reached(Begin, q, m, 0)
<1>1. PICK w : w = Zcmp!NoWrites
    OBVIOUS
<1>2. w = [r \in {} |-> 0]
    BY <1>1 DEF Zcmp!NoWrites
<1>3. Wrote(w, q, 0)
    BY <1>2 DEF Wrote
<1>4. Beats(q, Least(0, m)) = <<>>
    <2>1. Least(0, m) = 0
        BY DEF Least, Shape
    <2> QED BY <2>1 DEF Beats
<1>5. 0 = Len(q) => Leaves(w, q) = Zcmp!CmPc(case) + 2
    BY DEF Leaves
<1> QED BY <1>1, <1>3, <1>4, <1>5 DEF Reached, Begin

LEMMA ReachedStep ==
    ASSUME NEW q, NEW m, Shape(q, m), NEW k \in Nat, k < Len(q), NEW ev, Reached(ev, q, m, k)
    PROVE  Reached(OneMoreOp(ev, q[k + 1]), q, m, k + 1)
<1>1. PICK L \in Nat : L = Len(q)
    BY DEF Shape
<1>2. PICK s : s = q[k + 1]
    OBVIOUS
<1>3. k + 1 \in 1..L /\ m \in 0..L /\ s \in MicroOp /\ k # L
    BY <1>1, <1>2 DEF Shape
<1>4. PICK w : /\ ev = [regw |-> w, memb |-> Beats(q, Least(k, m)),
                        next |-> Zcmp!CmPc(case) + 2]
               /\ Wrote(w, q, k)
    BY <1>1, <1>3 DEF Reached
<1>5. PICK v : v = IF Writes(s) THEN Zcmp!Write(w, s.rd, StepValue(s)) ELSE w
    OBVIOUS
<1>6. Wrote(v, q, k + 1)
    BY <1>2, <1>4, <1>5, WroteOneMore
<1>7. OneMoreOp(ev, s) = StepEvents(w, Beats(q, Least(k, m)), Zcmp!CmPc(case) + 2, s)
    BY <1>3, <1>4, AfterIs DEF OneMoreOp
<1>8. (IF s.mem THEN Append(Beats(q, Least(k, m)), Access(s)) ELSE Beats(q, Least(k, m)))
          = Beats(q, Least(k + 1, m))
    <2>1. s.mem <=> k + 1 <= m
        BY <1>1, <1>2, <1>3 DEF Shape
    <2>2. CASE k + 1 <= m
        <3>1. Least(k, m) = k /\ Least(k + 1, m) = k + 1
            BY <1>3, <2>2 DEF Least
        <3>2. PICK b, c : b = Beats(q, k) /\ c = Beats(q, k + 1)
            OBVIOUS
        <3>3. b = [i \in 1..k |-> Access(q[i])] /\ c = [i \in 1..(k + 1) |-> Access(q[i])]
            BY <3>2 DEF Beats
        <3>4. Append(b, Access(s)) = c
            BY <1>2, <3>3
        <3> QED BY <2>1, <2>2, <3>1, <3>2, <3>4
    <2>3. CASE ~(k + 1 <= m)
        <3>1. Least(k, m) = m /\ Least(k + 1, m) = m
            BY <1>3, <2>3 DEF Least
        <3> QED BY <2>1, <2>3, <3>1
    <2> QED BY <2>2, <2>3
<1>9. (IF s.last /\ s.ret THEN Target(v, s) ELSE Zcmp!CmPc(case) + 2)
          = IF k + 1 = L THEN Leaves(v, q) ELSE Zcmp!CmPc(case) + 2
    <2>1. CASE k + 1 = L
        BY <1>1, <1>2, <2>1 DEF Leaves
    <2>2. CASE k + 1 # L
        <3>1. ~(s.last /\ s.ret)
            BY <1>1, <1>2, <1>3, <2>2 DEF Shape
        <3> QED BY <2>2, <3>1
    <2> QED BY <2>1, <2>2
<1>10. OneMoreOp(ev, s) = [regw |-> v, memb |-> Beats(q, Least(k + 1, m)),
                           next |-> IF k + 1 = L THEN Leaves(v, q) ELSE Zcmp!CmPc(case) + 2]
    BY <1>5, <1>7, <1>8, <1>9 DEF StepEvents
<1> QED BY <1>1, <1>2, <1>6, <1>10 DEF Reached

\* Every prefix of a sequence comes to what its steps are.
LEMMA RunReached ==
    ASSUME NEW q, NEW m, Shape(q, m), NEW f, Run(f, q, Len(q))
    PROVE  \A k \in 0..Len(q) : Reached(f[k], q, m, k)
<1>1. PICK L \in Nat : L = Len(q)
    BY DEF Shape
<1>2. Run(f, q, L)
    BY <1>1
<1>3. PICK S : S = {k \in Nat : k <= L => Reached(f[k], q, m, k)}
    OBVIOUS
<1>4. 0 \in S
    <2>1. f[0] = Begin
        BY <1>1, <1>2 DEF Run
    <2> QED BY <1>3, <2>1, ReachedStart
<1>5. ASSUME NEW k \in Nat, k \in S PROVE k + 1 \in S
    <2>1. SUFFICES ASSUME k + 1 <= L PROVE Reached(f[k + 1], q, m, k + 1)
        BY <1>3
    <2>2. Reached(f[k], q, m, k) /\ k < Len(q)
        BY <1>1, <1>3, <1>5, <2>1
    <2>3. f[k + 1] = OneMoreOp(f[k], q[k + 1])
        <3>1. k + 1 \in 0..L /\ k + 1 # 0 /\ (k + 1) - 1 = k
            BY <1>1, <2>1
        <3> QED BY <1>2, <3>1 DEF Run
    <2> QED BY <2>2, <2>3, ReachedStep
<1>6. Nat \subseteq S
    BY <1>4, <1>5, SetInduction
<1>7. SUFFICES ASSUME NEW k \in 0..L PROVE Reached(f[k], q, m, k)
    BY <1>1
<1>8. k \in Nat /\ k <= L
    BY <1>1
<1> QED BY <1>3, <1>6, <1>8

LEMMA EventsAre ==
    ASSUME NEW q, NEW m, Shape(q, m)
    PROVE  \E w : /\ Zcmp!Events(q) = [regw |-> w, memb |-> Beats(q, m), next |-> Leaves(w, q)]
                  /\ Wrote(w, q, Len(q))
<1>1. PICK L \in Nat : L = Len(q)
    BY DEF Shape
<1>2. PICK f : Run(f, q, L) /\ Zcmp!Events(q) = f[L]
    BY <1>1, EventsRun
<1>3. Reached(f[L], q, m, L)
    BY <1>1, <1>2, RunReached
<1>4. Least(L, m) = m
    BY <1>1 DEF Least, Shape
<1> QED BY <1>1, <1>2, <1>3, <1>4 DEF Reached

\* What makes every defect of a step show: no step writes what another does, none
\* reaches where another does, and no value that a step reads is zero.
Telling(q, m) ==
    /\ Shape(q, m)
    /\ regs[0] = 0 /\ regs[7] = 0 /\ regs[2] \in Int
    /\ \A i \in 1..Len(q) : (q[i].last <=> i = Len(q)) /\ (q[i].ret => q[i].last)
    /\ \A i \in 1..m :
           /\ ~q[i].wb
           /\ IF q[i].we THEN regs[q[i].rs2] \in Nat \ {0}
              ELSE q[i].rd # 0 /\ q[i].rs2 = 0
    /\ \A i, j \in 1..m : q[i].imm = q[j].imm => i = j
    /\ \A i, j \in 1..Len(q) : q[i].we => ~q[j].ret
    /\ \A i \in (m + 1)..Len(q) :
           /\ q[i].wb /\ ~q[i].we /\ q[i].rd # 0
           /\ regs[q[i].rs1] \in Int \ {0}
           /\ q[i].azero => q[i].imm = 0
    /\ \A i \in 1..Len(q) : Writes(q[i]) =>
           /\ q[i].rd # 7
           /\ \A k \in 1..Len(q) : Writes(q[k]) /\ q[k].rd = q[i].rd => k = i
    /\ m < Len(q)
    /\ \A w : Wrote(w, q, Len(q)) =>
           /\ Target(w, q[Len(q)]) # Zcmp!CmPc(case) + 2
           /\ q[Len(q)].ret => Target(w, q[Len(q)]) # 0

Differ(x, y) == x.regw # y.regw \/ x.memb # y.memb \/ x.next # y.next

\* One step of a sequence is another.
Other(p, q, k, t) == p = [q EXCEPT ![k] = t]

LEMMA OtherIs ==
    ASSUME NEW q \in Seq(MicroOp), NEW k \in 1..Len(q), NEW t \in MicroOp,
           NEW p, Other(p, q, k, t)
    PROVE  /\ p \in Seq(MicroOp) /\ Len(p) = Len(q) /\ p[k] = t
           /\ \A i \in 1..Len(q) : i # k => p[i] = q[i]
BY DEF Other

LEMMA OtherShape ==
    ASSUME NEW q, NEW m, Shape(q, m), NEW k \in 1..Len(q), NEW t \in MicroOp,
           t.mem = q[k].mem, t.last /\ t.ret => k = Len(q),
           NEW p, Other(p, q, k, t)
    PROVE  Shape(p, m)
<1>1. q \in Seq(MicroOp)
    BY DEF Shape
<1>2. /\ p \in Seq(MicroOp) /\ Len(p) = Len(q) /\ p[k] = t
      /\ \A i \in 1..Len(q) : i # k => p[i] = q[i]
    BY <1>1, OtherIs
<1> QED BY <1>2 DEF Shape

LEMMA AccessTells ==
    ASSUME NEW q, NEW m, Telling(q, m), NEW k \in 1..m, NEW t \in MicroOp,
           t.mem, Access(t) # Access(q[k]), t.last /\ t.ret => k = Len(q),
           NEW p, Other(p, q, k, t)
    PROVE  Differ(Zcmp!Events(p), Zcmp!Events(q))
<1>1. Shape(q, m) /\ k \in 1..Len(q) /\ q \in Seq(MicroOp)
    BY DEF Telling, Shape
<1>2. q[k].mem = TRUE /\ t.mem = TRUE
    BY <1>1 DEF Shape, MicroOp
<1>3. Shape(p, m)
    BY <1>1, <1>2, OtherShape
<1>4. PICK v, w : /\ Zcmp!Events(p) = [regw |-> v, memb |-> Beats(p, m), next |-> Leaves(v, p)]
                  /\ Zcmp!Events(q) = [regw |-> w, memb |-> Beats(q, m), next |-> Leaves(w, q)]
    BY <1>1, <1>3, EventsAre
<1>5. p[k] = t
    BY <1>1, OtherIs
<1>6. Beats(p, m)[k] = Access(t) /\ Beats(q, m)[k] = Access(q[k])
    BY <1>5 DEF Beats
<1> QED BY <1>4, <1>6 DEF Differ

LEMMA WrittenOnce ==
    ASSUME NEW q, NEW n \in Nat, NEW w, Wrote(w, q, n), NEW k \in 1..n, Writes(q[k]),
           \A i \in 1..n : Writes(q[i]) /\ q[i].rd = q[k].rd => i = k
    PROVE  q[k].rd \in DOMAIN w /\ w[q[k].rd] = StepValue(q[k])
<1>1. q[k].rd \in DOMAIN w
    BY DEF Wrote
<1>2. PICK i \in 1..n : Writes(q[i]) /\ q[i].rd = q[k].rd /\ w[q[k].rd] = StepValue(q[i])
    BY <1>1 DEF Wrote
<1> QED BY <1>1, <1>2

LEMMA ValueTells ==
    ASSUME NEW q, NEW m, Telling(q, m), NEW k \in 1..Len(q), NEW t \in MicroOp,
           t.mem = q[k].mem, t.last /\ t.ret => k = Len(q), t.rd = q[k].rd,
           Writes(q[k]), Writes(t), StepValue(t) # StepValue(q[k]),
           NEW p, Other(p, q, k, t)
    PROVE  Differ(Zcmp!Events(p), Zcmp!Events(q))
<1>1. Shape(q, m) /\ q \in Seq(MicroOp)
    BY DEF Telling, Shape
<1>2. PICK n \in Nat : n = Len(q)
    BY <1>1
<1>3. Shape(p, m)
    BY <1>1, OtherShape
<1>4. Len(p) = n /\ p[k] = t /\ \A i \in 1..n : i # k => p[i] = q[i]
    BY <1>1, <1>2, OtherIs
<1>5. PICK v : /\ Zcmp!Events(p) = [regw |-> v, memb |-> Beats(p, m), next |-> Leaves(v, p)]
               /\ Wrote(v, p, n)
    BY <1>3, <1>4, EventsAre
<1>6. PICK w : /\ Zcmp!Events(q) = [regw |-> w, memb |-> Beats(q, m), next |-> Leaves(w, q)]
               /\ Wrote(w, q, n)
    BY <1>1, <1>2, EventsAre
<1>7. \A i \in 1..n : Writes(q[i]) /\ q[i].rd = q[k].rd => i = k
    BY <1>2 DEF Telling
<1>8. w[q[k].rd] = StepValue(q[k])
    BY <1>2, <1>6, <1>7, WrittenOnce
<1>9. v[p[k].rd] = StepValue(p[k])
    <2>1. \A i \in 1..n : Writes(p[i]) /\ p[i].rd = p[k].rd => i = k
        BY <1>4, <1>7
    <2>2. Writes(p[k]) /\ k \in 1..n
        BY <1>2, <1>4
    <2> QED BY <1>5, <2>1, <2>2, WrittenOnce
<1>10. v # w
    BY <1>4, <1>8, <1>9
<1> QED BY <1>5, <1>6, <1>10 DEF Differ

LEMMA PlaceTells ==
    ASSUME NEW q, NEW m, Telling(q, m), NEW k \in 1..Len(q), NEW t \in MicroOp,
           t.mem = q[k].mem, t.last /\ t.ret => k = Len(q), t.rd = 7, Writes(t),
           NEW p, Other(p, q, k, t)
    PROVE  Differ(Zcmp!Events(p), Zcmp!Events(q))
<1>1. Shape(q, m) /\ q \in Seq(MicroOp)
    BY DEF Telling, Shape
<1>2. PICK n \in Nat : n = Len(q)
    BY <1>1
<1>3. Shape(p, m)
    BY <1>1, OtherShape
<1>4. Len(p) = n /\ p[k] = t
    BY <1>1, <1>2, OtherIs
<1>5. PICK v : /\ Zcmp!Events(p) = [regw |-> v, memb |-> Beats(p, m), next |-> Leaves(v, p)]
               /\ Wrote(v, p, n)
    BY <1>3, <1>4, EventsAre
<1>6. PICK w : /\ Zcmp!Events(q) = [regw |-> w, memb |-> Beats(q, m), next |-> Leaves(w, q)]
               /\ Wrote(w, q, n)
    BY <1>1, <1>2, EventsAre
<1>7. 7 \in DOMAIN v
    BY <1>2, <1>4, <1>5 DEF Wrote
<1>8. 7 \notin DOMAIN w
    <2>1. \A r \in DOMAIN w : \E i \in 1..n : Writes(q[i]) /\ q[i].rd = r
        BY <1>6 DEF Wrote
    <2>2. \A i \in 1..n : Writes(q[i]) => q[i].rd # 7
        BY <1>2 DEF Telling
    <2> QED BY <2>1, <2>2
<1> QED BY <1>5, <1>6, <1>7, <1>8 DEF Differ

\* Only the last step differs, and only in where it goes on.
LEMMA NextTells ==
    ASSUME NEW q, NEW m, Telling(q, m), NEW t \in MicroOp,
           t.mem = q[Len(q)].mem, Writes(t) = Writes(q[Len(q)]), t.rd = q[Len(q)].rd,
           StepValue(t) = StepValue(q[Len(q)]), t.last,
           \/ t.ret = ~q[Len(q)].ret /\ t.rs2 = q[Len(q)].rs2
           \/ t.ret /\ q[Len(q)].ret /\ t.rs2 = 7,
           NEW p, Other(p, q, Len(q), t)
    PROVE  Differ(Zcmp!Events(p), Zcmp!Events(q))
<1>1. Shape(q, m) /\ q \in Seq(MicroOp)
    BY DEF Telling, Shape
<1>2. PICK n \in Nat : n = Len(q) /\ n \in 1..Len(q) /\ n > 0
    BY <1>1 DEF Telling, Shape
<1>3. Shape(p, m)
    BY <1>1, <1>2, OtherShape
<1>4. Len(p) = n /\ p[n] = t /\ \A i \in 1..n : i # n => p[i] = q[i]
    BY <1>1, <1>2, OtherIs
<1>5. PICK v : /\ Zcmp!Events(p) = [regw |-> v, memb |-> Beats(p, m), next |-> Leaves(v, p)]
               /\ Wrote(v, p, n)
    BY <1>3, <1>4, EventsAre
<1>6. PICK w : /\ Zcmp!Events(q) = [regw |-> w, memb |-> Beats(q, m), next |-> Leaves(w, q)]
               /\ Wrote(w, q, n)
    BY <1>1, <1>2, EventsAre
<1>7. SUFFICES ASSUME v = w PROVE Leaves(w, p) # Leaves(w, q)
    BY <1>5, <1>6 DEF Differ
<1>8. q[n].last /\ q[n].ret \in BOOLEAN
    <2>1. q[n].last
        BY <1>2 DEF Telling
    <2>2. q[n] \in MicroOp
        BY <1>1, <1>2
    <2> QED BY <2>1, <2>2 DEF MicroOp
<1>9. /\ Target(w, q[n]) # Zcmp!CmPc(case) + 2
      /\ q[n].ret => Target(w, q[n]) # 0
    BY <1>2, <1>6 DEF Telling
<1>10. /\ Leaves(w, q) = IF q[n].ret THEN Target(w, q[n]) ELSE Zcmp!CmPc(case) + 2
       /\ Leaves(w, p) = IF t.ret THEN Target(w, t) ELSE Zcmp!CmPc(case) + 2
    BY <1>2, <1>4, <1>8 DEF Leaves
<1>11. CASE t.ret = ~q[n].ret /\ t.rs2 = q[n].rs2
    <2>1. Target(w, t) = Target(w, q[n])
        BY <1>11 DEF Target
    <2> QED BY <1>8, <1>9, <1>10, <1>11, <2>1
<1>12. CASE t.ret /\ q[n].ret /\ t.rs2 = 7
    <2>1. 7 \notin DOMAIN w
        <3>1. \A r \in DOMAIN w : \E i \in 1..n : Writes(q[i]) /\ q[i].rd = r
            BY <1>6 DEF Wrote
        <3>2. \A i \in 1..n : Writes(q[i]) => q[i].rd # 7
            BY <1>2 DEF Telling
        <3> QED BY <3>1, <3>2
    <2>2. Target(w, t) = 0
        BY <1>12, <2>1 DEF Target, Telling
    <2> QED BY <1>9, <1>10, <1>12, <2>2
<1> QED BY <1>2, <1>11, <1>12

\* A step is left out.
Without(q, k) == SubSeq(q, 1, k - 1) \o SubSeq(q, k + 1, Len(q))

LEMMA DropTells ==
    ASSUME NEW q, NEW m, Telling(q, m), NEW k \in 1..Len(q), NEW p, p = Without(q, k)
    PROVE  Differ(Zcmp!Events(p), Zcmp!Events(q))
<1>1. Shape(q, m) /\ q \in Seq(MicroOp)
    BY DEF Telling, Shape
<1>2. PICK n \in Nat : n = Len(q) /\ k \in 1..n /\ m \in 0..n
    BY <1>1 DEF Shape
<1>3. /\ p \in Seq(MicroOp) /\ Len(p) = n - 1
      /\ \A i \in 1..(n - 1) : i < k => p[i] = q[i]
      /\ \A i \in 1..(n - 1) : ~(i < k) => p[i] = q[i + 1]
    <2>1. PICK a, b : a = SubSeq(q, 1, k - 1) /\ b = SubSeq(q, k + 1, n)
        OBVIOUS
    <2>2. /\ a \in Seq(MicroOp) /\ Len(a) = k - 1
          /\ \A i \in 1..(k - 1) : a[i] = q[i]
        <3>1. 1 \in Int /\ k - 1 \in Int /\ \A i \in 1..(k - 1) : q[i] \in MicroOp
            BY <1>1, <1>2
        <3>2. /\ a \in Seq(MicroOp)
              /\ Len(a) = IF 1 <= k - 1 THEN (k - 1) - 1 + 1 ELSE 0
              /\ \A i \in 1..((k - 1) - 1 + 1) : a[i] = q[1 + i - 1]
            BY <2>1, <3>1, SubSeqProperties
        <3>3. Len(a) = k - 1 /\ (k - 1) - 1 + 1 = k - 1 /\ \A i \in Int : 1 + i - 1 = i
            BY <1>2, <3>2
        <3> QED BY <3>2, <3>3
    <2>3. /\ b \in Seq(MicroOp) /\ Len(b) = n - k
          /\ \A i \in 1..(n - k) : b[i] = q[k + i]
        <3>1. k + 1 \in Int /\ n \in Int /\ \A i \in (k + 1)..n : q[i] \in MicroOp
            BY <1>1, <1>2
        <3>2. /\ b \in Seq(MicroOp)
              /\ Len(b) = IF k + 1 <= n THEN n - (k + 1) + 1 ELSE 0
              /\ \A i \in 1..(n - (k + 1) + 1) : b[i] = q[(k + 1) + i - 1]
            BY <2>1, <3>1, SubSeqProperties
        <3>3. n - (k + 1) + 1 = n - k /\ \A i \in Int : (k + 1) + i - 1 = k + i
            BY <1>2
        <3>4. Len(b) = n - k
            BY <1>2, <3>2
        <3> QED BY <3>2, <3>3, <3>4
    <2>4. p = a \o b
        BY <1>2, <2>1 DEF Without
    <2>4a. a \in Seq(MicroOp) /\ b \in Seq(MicroOp)
        BY <2>2, <2>3
    <2>4b. /\ a \o b \in Seq(MicroOp) /\ Len(a \o b) = Len(a) + Len(b)
           /\ \A i \in 1..(Len(a) + Len(b)) :
                  (a \o b)[i] = IF i <= Len(a) THEN a[i] ELSE b[i - Len(a)]
        BY <2>4a, ConcatProperties
    <2>5. /\ p \in Seq(MicroOp) /\ Len(p) = Len(a) + Len(b)
          /\ \A i \in 1..(Len(a) + Len(b)) : p[i] = IF i <= Len(a) THEN a[i] ELSE b[i - Len(a)]
        BY <2>4, <2>4b
    <2>6. Len(a) + Len(b) = n - 1 /\ Len(a) = k - 1
        BY <1>2, <2>2, <2>3
    <2>7. ASSUME NEW i \in 1..(n - 1), i < k PROVE p[i] = q[i]
        <3>1. i \in 1..(k - 1) /\ i <= k - 1
            BY <1>2, <2>7
        <3>2. p[i] = a[i]
            BY <2>5, <2>6, <3>1
        <3> QED BY <2>2, <3>1, <3>2
    <2>8. ASSUME NEW i \in 1..(n - 1), ~(i < k) PROVE p[i] = q[i + 1]
        <3>1. i - (k - 1) \in 1..(n - k) /\ k + (i - (k - 1)) = i + 1 /\ ~(i <= k - 1)
            BY <1>2, <2>8
        <3>2. p[i] = b[i - (k - 1)]
            BY <2>5, <2>6, <3>1
        <3>3. b[i - (k - 1)] = q[k + (i - (k - 1))]
            BY <2>3, <3>1
        <3> QED BY <3>1, <3>2, <3>3
    <2> QED BY <2>5, <2>6, <2>7, <2>8
<1>4. PICK w : /\ Zcmp!Events(q) = [regw |-> w, memb |-> Beats(q, m), next |-> Leaves(w, q)]
               /\ Wrote(w, q, n)
    BY <1>1, <1>2, EventsAre
<1>5. \A i \in 1..n : (q[i].mem <=> i <= m) /\ (q[i].last /\ q[i].ret => i = n)
    BY <1>1, <1>2 DEF Shape
<1>6. \A i \in 1..(n - 1) : i \in 1..n /\ i + 1 \in 1..n
    BY <1>2
<1>7. CASE k <= m
    <2>1. Shape(p, m - 1)
        <3>1. m - 1 \in 0..Len(p)
            BY <1>2, <1>3, <1>7
        <3>2. \A i \in 1..(n - 1) : p[i].mem <=> i <= m - 1
            BY <1>2, <1>3, <1>5, <1>6, <1>7
        <3>3. \A i \in 1..(n - 1) : p[i].last /\ p[i].ret => i = n - 1
            BY <1>2, <1>3, <1>5, <1>6
        <3> QED BY <1>3, <3>1, <3>2, <3>3 DEF Shape
    <2>2. PICK v : Zcmp!Events(p)
                       = [regw |-> v, memb |-> Beats(p, m - 1), next |-> Leaves(v, p)]
        BY <2>1, EventsAre
    <2>3. Len(Beats(p, m - 1)) = m - 1 /\ Len(Beats(q, m)) = m
        BY <1>2, <1>7 DEF Beats
    <2>4. Beats(p, m - 1) # Beats(q, m)
        BY <1>2, <2>3
    <2> QED BY <1>4, <2>2, <2>4 DEF Differ
<1>8. CASE ~(k <= m)
    <2>1. Shape(p, m)
        <3>1. m \in 0..Len(p)
            BY <1>2, <1>3, <1>8
        <3>2. \A i \in 1..(n - 1) : p[i].mem <=> i <= m
            BY <1>2, <1>3, <1>5, <1>6, <1>8
        <3>3. \A i \in 1..(n - 1) : p[i].last /\ p[i].ret => i = n - 1
            BY <1>2, <1>3, <1>5, <1>6
        <3> QED BY <1>3, <3>1, <3>2, <3>3 DEF Shape
    <2>2. PICK v : /\ Zcmp!Events(p) = [regw |-> v, memb |-> Beats(p, m), next |-> Leaves(v, p)]
                   /\ Wrote(v, p, n - 1)
        BY <1>3, <2>1, EventsAre
    <2>3. Writes(q[k])
        <3>1. q[k].wb /\ q[k].rd # 0 /\ ~q[k].mem
            BY <1>2, <1>5, <1>8 DEF Telling
        <3> QED BY <3>1 DEF Writes
    <2>4. q[k].rd \in DOMAIN w
        BY <1>2, <1>4, <2>3 DEF Wrote
    <2>5. q[k].rd \notin DOMAIN v
        <3>1. SUFFICES ASSUME q[k].rd \in DOMAIN v PROVE FALSE
            OBVIOUS
        <3>2. PICK i \in 1..(n - 1) : Writes(p[i]) /\ p[i].rd = q[k].rd
            BY <2>2, <3>1 DEF Wrote
        <3>3. i \in 1..n /\ i + 1 \in 1..n /\ i \in Int /\ k \in Int
            BY <1>2, <1>6
        <3>4. p[i] = IF i < k THEN q[i] ELSE q[i + 1]
            BY <1>3
        <3>5. PICK j \in 1..n : p[i] = q[j] /\ j # k
            <4>1. CASE i < k
                <5>1. p[i] = q[i] /\ i # k
                    BY <3>3, <3>4, <4>1
                <5> QED BY <3>3, <5>1
            <4>2. CASE ~(i < k)
                <5>1. p[i] = q[i + 1] /\ i + 1 # k
                    BY <3>3, <3>4, <4>2
                <5> QED BY <3>3, <5>1
            <4> QED BY <4>1, <4>2
        <3> QED BY <1>2, <2>3, <3>2, <3>5 DEF Telling
    <2> QED BY <1>4, <2>2, <2>4, <2>5 DEF Differ
<1> QED BY <1>7, <1>8

\* A step is done after the next one.
PlacedFields(u, s, t) ==
    /\ u \in MicroOp
    /\ u.mem = s.mem /\ u.we = s.we /\ u.rs1 = s.rs1 /\ u.rd = s.rd /\ u.imm = s.imm
    /\ u.azero = s.azero /\ u.wb = s.wb /\ u.last = t.last /\ u.ret = t.ret
    /\ u.rs2 = IF t.ret THEN t.rs2 ELSE IF s.ret THEN 0 ELSE s.rs2

LEMMA PlacedIs ==
    ASSUME NEW s, NEW t, s \in MicroOp, t \in MicroOp
    PROVE  PlacedFields(Zcmp!Placed(s, t), s, t)
<1>1. PICK l, r, x : /\ l = t.last /\ r = t.ret
                     /\ x = IF t.ret THEN t.rs2 ELSE IF s.ret THEN 0 ELSE s.rs2
    OBVIOUS
<1>2. l \in BOOLEAN /\ r \in BOOLEAN /\ x \in Int
    BY <1>1 DEF MicroOp
<1>3. PICK u : u = Zcmp!Placed(s, t)
    OBVIOUS
<1>4. u = [s EXCEPT !.last = l, !.ret = r, !.rs2 = x]
    BY <1>1, <1>3 DEF Zcmp!Placed, Zcmp!ZERO
<1>5. PlacedFields(u, s, t)
    BY <1>1, <1>2, <1>4 DEF MicroOp, PlacedFields
<1> QED BY <1>3, <1>5, Zenon

LEMMA SwapIs ==
    ASSUME NEW q \in Seq(MicroOp), NEW k \in 1..(Len(q) - 1),
           NEW p, p = Zcmp!Broken(q, "swap", k)
    PROVE  /\ p \in Seq(MicroOp) /\ Len(p) = Len(q)
           /\ p[k] = Zcmp!Placed(q[k + 1], q[k]) /\ p[k + 1] = Zcmp!Placed(q[k], q[k + 1])
           /\ \A i \in 1..Len(q) : i # k /\ i # k + 1 => p[i] = q[i]
<1>1. PICK n \in Nat : n = Len(q) /\ k \in 1..n /\ k + 1 \in 1..n /\ k # k + 1
    OBVIOUS
<1>2. PICK s \in MicroOp, t \in MicroOp : s = q[k] /\ t = q[k + 1]
    BY <1>1
<1>3. PICK u, v : u = Zcmp!Placed(t, s) /\ v = Zcmp!Placed(s, t)
    OBVIOUS
<1>4. u \in MicroOp /\ v \in MicroOp
    <2>1. PlacedFields(u, t, s) /\ PlacedFields(v, s, t)
        BY <1>3, PlacedIs, Zenon
    <2> QED BY <2>1 DEF PlacedFields
<1>5. p = [q EXCEPT ![k] = u, ![k + 1] = v]
    BY <1>2, <1>3 DEF Zcmp!Broken
<1> QED BY <1>1, <1>2, <1>3, <1>4, <1>5

\* Two accesses to memory exchanged show, for they reach different words.
LEMMA SwapTells ==
    ASSUME NEW q, NEW m, Telling(q, m), NEW k \in 1..(Len(q) - 1),
           q[k].mem, q[k + 1].mem, NEW p, p = Zcmp!Broken(q, "swap", k)
    PROVE  Differ(Zcmp!Events(p), Zcmp!Events(q))
<1>1. Shape(q, m) /\ q \in Seq(MicroOp)
    BY DEF Telling, Shape
<1>2. PICK n \in Nat : n = Len(q) /\ k \in 1..n /\ k + 1 \in 1..n /\ k # k + 1 /\ m \in 0..n
    BY <1>1 DEF Shape
<1>3. PICK s \in MicroOp, t \in MicroOp : s = q[k] /\ t = q[k + 1]
    BY <1>1, <1>2
<1>4. k \in 1..m /\ k + 1 \in 1..m
    BY <1>1, <1>2 DEF Shape
<1>5. ~s.ret
    BY <1>2, <1>3 DEF Telling
<1>6. /\ p \in Seq(MicroOp) /\ Len(p) = n
      /\ p[k] = Zcmp!Placed(t, s) /\ p[k + 1] = Zcmp!Placed(s, t)
      /\ \A i \in 1..n : i # k /\ i # k + 1 => p[i] = q[i]
    <2>1. /\ p \in Seq(MicroOp) /\ Len(p) = Len(q)
          /\ p[k] = Zcmp!Placed(q[k + 1], q[k]) /\ p[k + 1] = Zcmp!Placed(q[k], q[k + 1])
          /\ \A i \in 1..Len(q) : i # k /\ i # k + 1 => p[i] = q[i]
        BY <1>1, SwapIs, Zenon
    <2> QED BY <1>2, <1>3, <2>1, Zenon
<1>7. /\ p[k].mem = t.mem /\ p[k].imm = t.imm /\ p[k].ret = s.ret
      /\ p[k + 1].mem = s.mem /\ p[k + 1].last = t.last /\ p[k + 1].ret = t.ret
    <2>1. PlacedFields(Zcmp!Placed(t, s), t, s) /\ PlacedFields(Zcmp!Placed(s, t), s, t)
        BY PlacedIs, Zenon
    <2>2. PlacedFields(p[k], t, s) /\ PlacedFields(p[k + 1], s, t)
        BY <1>6, <2>1, Zenon
    <2> QED BY <2>2 DEF PlacedFields
<1>8. Shape(p, m)
    <2>1. \A i \in 1..n : p[i].mem <=> i <= m
        BY <1>1, <1>2, <1>3, <1>4, <1>6, <1>7 DEF Shape
    <2>2. \A i \in 1..n : p[i].last /\ p[i].ret => i = n
        BY <1>1, <1>2, <1>3, <1>5, <1>6, <1>7 DEF Shape
    <2> QED BY <1>2, <1>6, <2>1, <2>2 DEF Shape
<1>9. PICK v, w : /\ Zcmp!Events(p) = [regw |-> v, memb |-> Beats(p, m), next |-> Leaves(v, p)]
                  /\ Zcmp!Events(q) = [regw |-> w, memb |-> Beats(q, m), next |-> Leaves(w, q)]
    BY <1>1, <1>8, EventsAre
<1>10. Beats(p, m)[k].addr = regs[2] + t.imm /\ Beats(q, m)[k].addr = regs[2] + s.imm
    BY <1>3, <1>4, <1>7 DEF Beats, Access
<1>11. s.imm # t.imm
    BY <1>2, <1>3, <1>4 DEF Telling
<1>12. s.imm \in Int /\ t.imm \in Int /\ regs[2] \in Int
    BY <1>3 DEF MicroOp, Telling
<1>13. Beats(p, m) # Beats(q, m)
    BY <1>10, <1>11, <1>12
<1> QED BY <1>9, <1>13 DEF Differ

\* Writes of different registers come to the same in either order.
LEMMA WritesCommute ==
    ASSUME NEW w, NEW r, NEW x, NEW c, NEW y, r # c
    PROVE  Zcmp!Write(Zcmp!Write(w, r, x), c, y) = Zcmp!Write(Zcmp!Write(w, c, y), r, x)
<1>1. PICK a, b : a = Zcmp!Write(w, r, x) /\ b = Zcmp!Write(w, c, y)
    OBVIOUS
<1>2. /\ a = [z \in DOMAIN w \cup {r} |-> IF z = r THEN x ELSE w[z]]
      /\ b = [z \in DOMAIN w \cup {c} |-> IF z = c THEN y ELSE w[z]]
    BY <1>1 DEF Zcmp!Write
<1>3. DOMAIN a = DOMAIN w \cup {r} /\ DOMAIN b = DOMAIN w \cup {c}
    BY <1>2
<1>4. PICK D : D = DOMAIN w \cup {r, c}
    OBVIOUS
<1>5. /\ Zcmp!Write(a, c, y) = [z \in D |-> IF z = c THEN y ELSE a[z]]
      /\ Zcmp!Write(b, r, x) = [z \in D |-> IF z = r THEN x ELSE b[z]]
    <2>1. DOMAIN a \cup {c} = D /\ DOMAIN b \cup {r} = D
        BY <1>3, <1>4
    <2> QED BY <2>1 DEF Zcmp!Write
<1>6. \A z \in D : (IF z = c THEN y ELSE a[z]) = (IF z = r THEN x ELSE b[z])
    BY <1>2, <1>4
<1> QED BY <1>1, <1>5, <1>6

LEMMA StepsCommute ==
    ASSUME NEW s \in MicroOp, NEW t \in MicroOp, ~t.mem, ~s.ret, s.we => ~t.ret,
           Writes(s) /\ Writes(t) => s.rd # t.rd,
           NEW w, NEW b, NEW c, NEW ev, ev = [regw |-> w, memb |-> b, next |-> c],
           NEW u, u = Zcmp!Placed(t, s), NEW v, v = Zcmp!Placed(s, t)
    PROVE  OneMoreOp(OneMoreOp(ev, u), v) = OneMoreOp(OneMoreOp(ev, s), t)
<1>1. /\ u \in MicroOp
      /\ u.mem = t.mem /\ u.we = t.we /\ u.rs1 = t.rs1 /\ u.rd = t.rd /\ u.imm = t.imm
      /\ u.azero = t.azero /\ u.wb = t.wb /\ u.last = s.last /\ u.ret = s.ret
    <2>1. PlacedFields(u, t, s)
        BY PlacedIs, Zenon
    <2> QED BY <2>1 DEF PlacedFields
<1>2. /\ v \in MicroOp
      /\ v.mem = s.mem /\ v.we = s.we /\ v.rs1 = s.rs1 /\ v.rd = s.rd /\ v.imm = s.imm
      /\ v.azero = s.azero /\ v.wb = s.wb /\ v.last = t.last /\ v.ret = t.ret
      /\ v.rs2 = IF t.ret THEN t.rs2 ELSE s.rs2
    <2>1. PlacedFields(v, s, t)
        BY PlacedIs, Zenon
    <2> QED BY <2>1 DEF PlacedFields
<1>3. PICK f, g, x, y, a : /\ f = Writes(s) /\ g = Writes(t) /\ x = StepValue(s)
                           /\ y = StepValue(t) /\ a = Access(s)
    OBVIOUS
<1>4. Writes(u) = g /\ StepValue(u) = y
    BY <1>1, <1>3 DEF Writes, StepValue
<1>5. Writes(v) = f /\ StepValue(v) = x
    BY <1>2, <1>3 DEF Writes, StepValue
<1>6. Access(v) = a
    <2>1. CASE s.we
        BY <1>2, <1>3, <2>1 DEF Access
    <2>2. CASE ~s.we
        BY <1>2, <1>3, <2>2 DEF Access
    <2> QED BY <2>1, <2>2
<1>7. PICK w1, w2, b1 : /\ w1 = IF f THEN Zcmp!Write(w, s.rd, x) ELSE w
                        /\ w2 = IF g THEN Zcmp!Write(w1, t.rd, y) ELSE w1
                        /\ b1 = IF s.mem THEN Append(b, a) ELSE b
    OBVIOUS
<1>8. PICK v1, v2 : /\ v1 = IF g THEN Zcmp!Write(w, t.rd, y) ELSE w
                    /\ v2 = IF f THEN Zcmp!Write(v1, s.rd, x) ELSE v1
    OBVIOUS
<1>9. w2 = v2
    <2>1. f \in BOOLEAN /\ g \in BOOLEAN
        BY <1>3 DEF Writes, MicroOp
    <2>2. CASE f /\ g
        <3>1. s.rd # t.rd
            BY <1>3, <2>2
        <3> QED BY <1>7, <1>8, <2>2, <3>1, WritesCommute
    <2>3. CASE ~(f /\ g)
        BY <1>7, <1>8, <2>1, <2>3
    <2> QED BY <2>2, <2>3
<1>10. OneMoreOp(ev, s) = [regw |-> w1, memb |-> b1, next |-> c]
    BY <1>3, <1>7, AfterIs DEF OneMoreOp, StepEvents
<1>11. OneMoreOp([regw |-> w1, memb |-> b1, next |-> c], t)
           = [regw |-> w2, memb |-> b1, next |-> IF t.last /\ t.ret THEN Target(w2, t) ELSE c]
    <2>1. OneMoreOp([regw |-> w1, memb |-> b1, next |-> c], t) = StepEvents(w1, b1, c, t)
        BY AfterIs, Zenon DEF OneMoreOp
    <2> QED BY <1>3, <1>7, <2>1 DEF StepEvents
<1>12. OneMoreOp(ev, u) = [regw |-> v1, memb |-> b, next |-> c]
    BY <1>1, <1>4, <1>8, AfterIs DEF OneMoreOp, StepEvents
<1>13. OneMoreOp([regw |-> v1, memb |-> b, next |-> c], v)
           = [regw |-> v2, memb |-> b1, next |-> IF v.last /\ v.ret THEN Target(v2, v) ELSE c]
    BY <1>2, <1>5, <1>6, <1>7, <1>8, AfterIs DEF OneMoreOp, StepEvents
<1>14. (IF v.last /\ v.ret THEN Target(v2, v) ELSE c)
           = (IF t.last /\ t.ret THEN Target(w2, t) ELSE c)
    BY <1>2, <1>9 DEF Target
<1> QED BY <1>9, <1>10, <1>11, <1>12, <1>13, <1>14

\* Two steps that are not both accesses to memory can be exchanged unseen.
LEMMA SwapUnseen ==
    ASSUME NEW q, NEW m, Telling(q, m), NEW k \in 1..(Len(q) - 1),
           ~(q[k].mem /\ q[k + 1].mem), NEW p, p = Zcmp!Broken(q, "swap", k)
    PROVE  Zcmp!Events(p) = Zcmp!Events(q)
<1>1. Shape(q, m) /\ q \in Seq(MicroOp)
    BY DEF Telling, Shape
<1>2. PICK n \in Nat : n = Len(q) /\ k \in 1..n /\ k + 1 \in 1..n /\ k # k + 1 /\ m \in 0..n
    BY <1>1 DEF Shape
<1>3. PICK s \in MicroOp, t \in MicroOp : s = q[k] /\ t = q[k + 1]
    BY <1>1, <1>2
<1>4. /\ p \in Seq(MicroOp) /\ Len(p) = n
      /\ p[k] = Zcmp!Placed(t, s) /\ p[k + 1] = Zcmp!Placed(s, t)
      /\ \A i \in 1..n : i # k /\ i # k + 1 => p[i] = q[i]
    <2>1. /\ p \in Seq(MicroOp) /\ Len(p) = Len(q)
          /\ p[k] = Zcmp!Placed(q[k + 1], q[k]) /\ p[k + 1] = Zcmp!Placed(q[k], q[k + 1])
          /\ \A i \in 1..Len(q) : i # k /\ i # k + 1 => p[i] = q[i]
        BY <1>1, SwapIs, Zenon
    <2> QED BY <1>2, <1>3, <2>1, Zenon
<1>5. ~t.mem
    <2>1. (q[k].mem <=> k <= m) /\ (q[k + 1].mem <=> k + 1 <= m)
        BY <1>1, <1>2 DEF Shape
    <2> QED BY <1>2, <1>3, <2>1
<1>6. ~s.ret /\ (s.we => ~t.ret)
    BY <1>2, <1>3 DEF Telling
<1>7. Writes(s) /\ Writes(t) => s.rd # t.rd
    BY <1>2, <1>3 DEF Telling
<1>8. PICK f : Run(f, q, n) /\ Zcmp!Events(q) = f[n]
    BY <1>2, EventsRun
<1>9. PICK g : Run(g, p, n) /\ Zcmp!Events(p) = g[n]
    BY <1>2, <1>4, EventsRun
<1>10. f[0] = Begin /\ g[0] = Begin
    BY <1>2, <1>8, <1>9 DEF Run
<1>11. \A i \in 1..n : f[i] = OneMoreOp(f[i - 1], q[i]) /\ g[i] = OneMoreOp(g[i - 1], p[i])
    <2>1. \A i \in 1..n : i \in 0..n /\ i # 0
        OBVIOUS
    <2> QED BY <1>8, <1>9, <2>1 DEF Run
<1>12. g[k - 1] = f[k - 1]
    <2>1. PICK S : S = {i \in Nat : i <= k - 1 => g[i] = f[i]}
        OBVIOUS
    <2>2. 0 \in S
        BY <1>10, <2>1
    <2>3. ASSUME NEW i \in Nat, i \in S PROVE i + 1 \in S
        <3>1. SUFFICES ASSUME i + 1 <= k - 1 PROVE g[i + 1] = f[i + 1]
            BY <2>1
        <3>2. i + 1 \in 1..n /\ i + 1 # k /\ i + 1 # k + 1 /\ (i + 1) - 1 = i /\ i <= k - 1
            BY <1>2, <3>1
        <3>3. g[i] = f[i] /\ p[i + 1] = q[i + 1]
            BY <1>4, <2>1, <2>3, <3>2
        <3> QED BY <1>11, <3>2, <3>3
    <2>4. Nat \subseteq S
        BY <2>2, <2>3, SetInduction
    <2>5. k - 1 \in Nat
        BY <1>2
    <2> QED BY <2>1, <2>4, <2>5
<1>13. g[k + 1] = f[k + 1]
    <2>1. PICK ev : ev = f[k - 1]
        OBVIOUS
    <2>2. Reached(ev, q, m, k - 1)
        <3>1. k - 1 \in 0..Len(q)
            BY <1>2
        <3> QED BY <1>1, <1>2, <1>8, <2>1, <3>1, RunReached
    <2>3. PICK w, b, c : ev = [regw |-> w, memb |-> b, next |-> c]
        BY <2>2 DEF Reached
    <2>4. OneMoreOp(OneMoreOp(ev, p[k]), p[k + 1]) = OneMoreOp(OneMoreOp(ev, s), t)
        BY <1>4, <1>5, <1>6, <1>7, <2>3, StepsCommute
    <2>5. (k + 1) - 1 = k
        BY <1>2
    <2>6. f[k + 1] = OneMoreOp(OneMoreOp(ev, s), t)
        BY <1>2, <1>3, <1>11, <2>1, <2>5
    <2>7. g[k + 1] = OneMoreOp(OneMoreOp(ev, p[k]), p[k + 1])
        BY <1>2, <1>11, <1>12, <2>1, <2>5
    <2> QED BY <2>4, <2>6, <2>7
<1>14. g[n] = f[n]
    <2>1. PICK S : S = {i \in Nat : k + 1 + i <= n => g[k + 1 + i] = f[k + 1 + i]}
        OBVIOUS
    <2>2. 0 \in S
        BY <1>2, <1>13, <2>1
    <2>3. ASSUME NEW i \in Nat, i \in S PROVE i + 1 \in S
        <3>1. PICK j \in Nat : j = k + 1 + i
            BY <1>2
        <3>2. k + 1 + (i + 1) = j + 1
            BY <1>2, <3>1
        <3>3. SUFFICES ASSUME j + 1 <= n PROVE g[j + 1] = f[j + 1]
            BY <2>1, <3>2
        <3>4. j + 1 \in 1..n /\ j + 1 # k /\ j + 1 # k + 1 /\ (j + 1) - 1 = j /\ j <= n
            BY <1>2, <3>1, <3>3
        <3>5. g[j] = f[j] /\ p[j + 1] = q[j + 1]
            BY <1>4, <2>1, <2>3, <3>1, <3>4
        <3> QED BY <1>11, <3>4, <3>5
    <2>4. Nat \subseteq S
        BY <2>2, <2>3, SetInduction
    <2>5. n - (k + 1) \in Nat /\ k + 1 + (n - (k + 1)) = n
        BY <1>2
    <2>6. k + 1 + (n - (k + 1)) <= n => g[k + 1 + (n - (k + 1))] = f[k + 1 + (n - (k + 1))]
        BY <2>1, <2>4, <2>5
    <2> QED BY <2>5, <2>6
<1> QED BY <1>8, <1>9, <1>14

\* Every defect of a step, where it makes another table, shows, but for an
\* exchange of steps that are not both accesses to memory.
LEMMA DefectTells ==
    ASSUME NEW q, NEW m, Telling(q, m), NEW k \in 1..Len(q),
           NEW kind \in Zcmp!StepDefects, Zcmp!Applies(q[k], kind),
           kind = "swap" => q[k].mem /\ q[k + 1].mem
    PROVE  Differ(Zcmp!Events(Zcmp!Broken(q, kind, k)), Zcmp!Events(q))
<1>1. PICK s : s = q[k]
    OBVIOUS
<1>2. PICK p : p = Zcmp!Broken(q, kind, k)
    OBVIOUS
<1>3. PICK n \in Nat : n = Len(q) /\ k \in 1..n /\ m \in 0..n
    BY DEF Telling, Shape
<1>4. s \in MicroOp /\ Zcmp!Applies(s, kind)
    BY <1>1, <1>3 DEF Telling, Shape
<1>5. /\ s.mem \in BOOLEAN /\ s.we \in BOOLEAN /\ s.wb \in BOOLEAN /\ s.azero \in BOOLEAN
      /\ s.last \in BOOLEAN /\ s.ret \in BOOLEAN /\ s.imm \in Int
    BY <1>4 DEF MicroOp
<1>6. /\ s.mem <=> k <= m
      /\ s.last <=> k = n
      /\ s.ret => s.last
      /\ m < n
      /\ regs[0] = 0 /\ regs[7] = 0 /\ regs[2] \in Int
    BY <1>1, <1>3 DEF Telling, Shape
<1>7. k <= m => /\ ~s.wb
                /\ IF s.we THEN regs[s.rs2] \in Nat \ {0} ELSE s.rd # 0 /\ s.rs2 = 0
    <2>1. k <= m => k \in 1..m
        BY <1>3
    <2> QED BY <1>1, <2>1 DEF Telling
<1>8. ~(k <= m) => /\ s.wb /\ ~s.we /\ s.rd # 0
                   /\ regs[s.rs1] \in Int \ {0}
                   /\ s.azero => s.imm = 0
    <2>1. ~(k <= m) => k \in (m + 1)..n
        BY <1>3
    <2> QED BY <1>1, <1>3, <2>1 DEF Telling
<1>9. \A t : p = [q EXCEPT ![k] = t] <=> Other(p, q, k, t)
    BY DEF Other
<1>10. CASE kind = "imm"
    <2>1. PICK t : t = [s EXCEPT !.imm = @ + 4]
        OBVIOUS
    <2>2. p = [q EXCEPT ![k] = t]
        BY <1>1, <1>2, <1>10, <2>1 DEF Zcmp!Broken
    <2>3. /\ t \in MicroOp /\ t.mem = s.mem /\ t.we = s.we /\ t.rs2 = s.rs2 /\ t.rs1 = s.rs1
          /\ t.wb = s.wb /\ t.rd = s.rd /\ t.azero = s.azero /\ t.last = s.last /\ t.ret = s.ret
          /\ t.imm = s.imm + 4
        BY <1>4, <2>1 DEF MicroOp
    <2>4. t.last /\ t.ret => k = Len(q)
        BY <1>3, <1>6, <2>3
    <2>5. CASE k <= m
        <3>1. Access(t).addr # Access(s).addr
            <4>1. Access(t).addr = regs[2] + (s.imm + 4) /\ Access(s).addr = regs[2] + s.imm
                BY <2>3 DEF Access
            <4> QED BY <1>5, <1>6, <4>1
        <3>2. Access(t) # Access(s) /\ t.mem /\ k \in 1..m
            BY <1>3, <1>6, <2>3, <2>5, <3>1
        <3>20. t.mem /\ Access(t) # Access(q[k]) /\ k \in 1..m /\ (t.last /\ t.ret => k = Len(q))
            BY <1>1, <2>3, <2>4, <3>2
        <3>21. Other(p, q, k, t) /\ t \in MicroOp
            BY <1>9, <2>2, <2>3
        <3> QED BY <1>2, <3>20, <3>21, AccessTells
    <2>6. CASE ~(k <= m)
        <3>1. Writes(s) /\ Writes(t)
            BY <1>6, <1>8, <2>3, <2>6 DEF Writes
        <3>2. CASE s.azero
            <4>1. StepValue(s) = s.imm /\ StepValue(t) = s.imm + 4
                BY <1>6, <2>3, <2>6, <3>2 DEF StepValue
            <4>2. StepValue(t) # StepValue(s)
                BY <1>5, <4>1
            <4>20. /\ t.mem = q[k].mem /\ t.rd = q[k].rd /\ (t.last /\ t.ret => k = Len(q))
                  /\ Writes(q[k]) /\ Writes(t) /\ StepValue(t) # StepValue(q[k])
                BY <1>1, <2>3, <2>4, <3>1, <4>2
            <4>21. Other(p, q, k, t) /\ t \in MicroOp
                BY <1>9, <2>2, <2>3
            <4> QED BY <1>2, <4>20, <4>21, ValueTells
        <3>3. CASE ~s.azero
            <4>1. StepValue(s) = regs[s.rs1] + s.imm /\ StepValue(t) = regs[s.rs1] + (s.imm + 4)
                BY <1>6, <2>3, <2>6, <3>3 DEF StepValue
            <4>2. StepValue(t) # StepValue(s)
                BY <1>5, <1>8, <2>6, <4>1
            <4>20. /\ t.mem = q[k].mem /\ t.rd = q[k].rd /\ (t.last /\ t.ret => k = Len(q))
                  /\ Writes(q[k]) /\ Writes(t) /\ StepValue(t) # StepValue(q[k])
                BY <1>1, <2>3, <2>4, <3>1, <4>2
            <4>21. Other(p, q, k, t) /\ t \in MicroOp
                BY <1>9, <2>2, <2>3
            <4> QED BY <1>2, <4>20, <4>21, ValueTells
        <3> QED BY <3>2, <3>3
    <2> QED BY <2>5, <2>6
<1>11. CASE kind = "rd"
    <2>1. PICK t : t = [s EXCEPT !.rd = 7]
        OBVIOUS
    <2>2. p = [q EXCEPT ![k] = t]
        BY <1>1, <1>2, <1>11, <2>1 DEF Zcmp!Broken, Zcmp!OTHER_REG
    <2>3. /\ t \in MicroOp /\ t.mem = s.mem /\ t.we = s.we /\ t.wb = s.wb /\ t.rd = 7
          /\ t.last = s.last /\ t.ret = s.ret
        BY <1>4, <2>1 DEF MicroOp
    <2>4. t.last /\ t.ret => k = Len(q)
        BY <1>3, <1>6, <2>3
    <2>5. ~s.we
        BY <1>4, <1>11 DEF Zcmp!Applies
    <2>6. Writes(t)
        BY <1>5, <1>6, <1>8, <2>3, <2>5 DEF Writes
    <2> QED BY <1>1, <1>2, <1>9, <2>2, <2>3, <2>4, <2>6, PlaceTells
<1>12. CASE kind = "rs1"
    <2>1. PICK t : t = [s EXCEPT !.rs1 = 7]
        OBVIOUS
    <2>2. p = [q EXCEPT ![k] = t]
        BY <1>1, <1>2, <1>12, <2>1 DEF Zcmp!Broken, Zcmp!OTHER_REG
    <2>3. /\ t \in MicroOp /\ t.mem = s.mem /\ t.we = s.we /\ t.wb = s.wb /\ t.rd = s.rd
          /\ t.last = s.last /\ t.ret = s.ret /\ t.azero = s.azero /\ t.imm = s.imm /\ t.rs1 = 7
        BY <1>4, <2>1 DEF MicroOp
    <2>4. t.last /\ t.ret => k = Len(q)
        BY <1>3, <1>6, <2>3
    <2>5. s.wb /\ ~s.azero
        BY <1>4, <1>12 DEF Zcmp!Applies
    <2>6. ~(k <= m)
        BY <1>7, <2>5
    <2>7. Writes(s) /\ Writes(t)
        BY <1>6, <1>8, <2>3, <2>6 DEF Writes
    <2>8. StepValue(s) = regs[s.rs1] + s.imm /\ StepValue(t) = 0 + s.imm
        BY <1>6, <2>3, <2>5, <2>6 DEF StepValue
    <2>9. StepValue(t) # StepValue(s)
        BY <1>5, <1>8, <2>6, <2>8
    <2>20. /\ t.mem = q[k].mem /\ t.rd = q[k].rd /\ (t.last /\ t.ret => k = Len(q))
          /\ Writes(q[k]) /\ Writes(t) /\ StepValue(t) # StepValue(q[k])
        BY <1>1, <2>3, <2>4, <2>7, <2>9
    <2>21. Other(p, q, k, t) /\ t \in MicroOp
        BY <1>9, <2>2, <2>3
    <2> QED BY <1>2, <2>20, <2>21, ValueTells
<1>13. CASE kind = "rs2"
    <2>1. PICK t : t = [s EXCEPT !.rs2 = 7]
        OBVIOUS
    <2>2. p = [q EXCEPT ![k] = t]
        BY <1>1, <1>2, <1>13, <2>1 DEF Zcmp!Broken, Zcmp!OTHER_REG
    <2>3. /\ t \in MicroOp /\ t.mem = s.mem /\ t.we = s.we /\ t.wb = s.wb /\ t.rd = s.rd
          /\ t.last = s.last /\ t.ret = s.ret /\ t.azero = s.azero /\ t.imm = s.imm
          /\ t.rs1 = s.rs1 /\ t.rs2 = 7
        BY <1>4, <2>1 DEF MicroOp
    <2>4. t.last /\ t.ret => k = Len(q)
        BY <1>3, <1>6, <2>3
    <2>5. s.we \/ s.ret
        BY <1>4, <1>13 DEF Zcmp!Applies
    <2>6. CASE s.we
        <3>1. k <= m
            BY <1>8, <2>6
        <3>2. Access(s).data = regs[s.rs2] /\ Access(t).data = 0
            BY <1>6, <2>3, <2>6 DEF Access
        <3>3. Access(t) # Access(s)
            BY <1>7, <2>6, <3>1, <3>2
        <3>4. t.mem /\ k \in 1..m
            BY <1>3, <1>6, <2>3, <3>1
        <3>20. t.mem /\ Access(t) # Access(q[k]) /\ k \in 1..m /\ (t.last /\ t.ret => k = Len(q))
            BY <1>1, <2>3, <2>4, <3>3, <3>4
        <3>21. Other(p, q, k, t) /\ t \in MicroOp
            BY <1>9, <2>2, <2>3
        <3> QED BY <1>2, <3>20, <3>21, AccessTells
    <2>7. CASE s.ret
        <3>1. k = Len(q) /\ t.last /\ t.ret
            BY <1>3, <1>6, <2>3, <2>7
        <3>2. Writes(t) = Writes(s) /\ StepValue(t) = StepValue(s)
            BY <2>3 DEF Writes, StepValue
        <3>3. Other(p, q, Len(q), t) /\ s = q[Len(q)]
            BY <1>1, <1>9, <2>2, <3>1
        <3> QED BY <1>2, <2>3, <2>7, <3>1, <3>2, <3>3, NextTells
    <2> QED BY <2>5, <2>6, <2>7
<1>14. CASE kind = "we"
    <2>1. PICK t : t = [s EXCEPT !.we = ~@]
        OBVIOUS
    <2>2. p = [q EXCEPT ![k] = t]
        BY <1>1, <1>2, <1>14, <2>1 DEF Zcmp!Broken
    <2>3. /\ t \in MicroOp /\ t.mem = s.mem /\ t.we = ~s.we /\ t.rs2 = s.rs2
          /\ t.last = s.last /\ t.ret = s.ret
        BY <1>4, <2>1 DEF MicroOp
    <2>4. t.last /\ t.ret => k = Len(q)
        BY <1>3, <1>6, <2>3
    <2>5. s.mem /\ k <= m
        BY <1>4, <1>6, <1>14 DEF Zcmp!Applies
    <2>6. Access(t).data # Access(s).data
        <3>1. CASE s.we
            <4>1. Access(s).data = regs[s.rs2] /\ Access(t).data = -1
                BY <2>3, <3>1 DEF Access
            <4> QED BY <1>7, <2>5, <3>1, <4>1
        <3>2. CASE ~s.we
            <4>1. Access(s).data = -1 /\ Access(t).data = regs[0]
                BY <1>7, <2>3, <2>5, <3>2 DEF Access
            <4> QED BY <1>6, <4>1
        <3> QED BY <3>1, <3>2
    <2>7. t.mem /\ k \in 1..m /\ Access(t) # Access(s)
        BY <1>3, <2>3, <2>5, <2>6
    <2>20. t.mem /\ Access(t) # Access(q[k]) /\ k \in 1..m /\ (t.last /\ t.ret => k = Len(q))
        BY <1>1, <2>3, <2>4, <2>7
    <2>21. Other(p, q, k, t) /\ t \in MicroOp
        BY <1>9, <2>2, <2>3
    <2> QED BY <1>2, <2>20, <2>21, AccessTells
<1>15. CASE kind = "azero"
    <2>1. PICK t : t = [s EXCEPT !.azero = ~@]
        OBVIOUS
    <2>2. p = [q EXCEPT ![k] = t]
        BY <1>1, <1>2, <1>15, <2>1 DEF Zcmp!Broken
    <2>3. /\ t \in MicroOp /\ t.mem = s.mem /\ t.we = s.we /\ t.wb = s.wb /\ t.rd = s.rd
          /\ t.last = s.last /\ t.ret = s.ret /\ t.azero = ~s.azero /\ t.imm = s.imm
          /\ t.rs1 = s.rs1
        BY <1>4, <2>1 DEF MicroOp
    <2>4. t.last /\ t.ret => k = Len(q)
        BY <1>3, <1>6, <2>3
    <2>5. s.wb
        BY <1>4, <1>15 DEF Zcmp!Applies
    <2>6. ~(k <= m)
        BY <1>7, <2>5
    <2>7. Writes(s) /\ Writes(t)
        BY <1>6, <1>8, <2>3, <2>6 DEF Writes
    <2>8. StepValue(t) # StepValue(s)
        <3>1. CASE s.azero
            <4>1. StepValue(s) = s.imm /\ StepValue(t) = regs[s.rs1] + s.imm
                BY <1>6, <2>3, <2>6, <3>1 DEF StepValue
            <4> QED BY <1>5, <1>8, <2>6, <4>1
        <3>2. CASE ~s.azero
            <4>1. StepValue(t) = s.imm /\ StepValue(s) = regs[s.rs1] + s.imm
                BY <1>6, <2>3, <2>6, <3>2 DEF StepValue
            <4> QED BY <1>5, <1>8, <2>6, <4>1
        <3> QED BY <3>1, <3>2
    <2>20. /\ t.mem = q[k].mem /\ t.rd = q[k].rd /\ (t.last /\ t.ret => k = Len(q))
          /\ Writes(q[k]) /\ Writes(t) /\ StepValue(t) # StepValue(q[k])
        BY <1>1, <2>3, <2>4, <2>7, <2>8
    <2>21. Other(p, q, k, t) /\ t \in MicroOp
        BY <1>9, <2>2, <2>3
    <2> QED BY <1>2, <2>20, <2>21, ValueTells
<1>16. CASE kind = "ret"
    <2>1. PICK t : t = [s EXCEPT !.ret = ~@]
        OBVIOUS
    <2>2. p = [q EXCEPT ![k] = t]
        BY <1>1, <1>2, <1>16, <2>1 DEF Zcmp!Broken
    <2>3. /\ t \in MicroOp /\ t.mem = s.mem /\ t.we = s.we /\ t.wb = s.wb /\ t.rd = s.rd
          /\ t.last = s.last /\ t.ret = ~s.ret /\ t.azero = s.azero /\ t.imm = s.imm
          /\ t.rs1 = s.rs1 /\ t.rs2 = s.rs2
        BY <1>4, <2>1 DEF MicroOp
    <2>4. s.last /\ k = Len(q)
        BY <1>3, <1>4, <1>6, <1>16 DEF Zcmp!Applies
    <2>5. Writes(t) = Writes(s) /\ StepValue(t) = StepValue(s)
        BY <2>3 DEF Writes, StepValue
    <2>6. Other(p, q, Len(q), t) /\ s = q[Len(q)] /\ t.last
        BY <1>1, <1>9, <2>2, <2>3, <2>4
    <2> QED BY <1>2, <2>3, <2>5, <2>6, NextTells
<1>17. CASE kind = "drop"
    <2>1. p = Without(q, k)
        BY <1>2, <1>17 DEF Zcmp!Broken, Without
    <2> QED BY <1>2, <2>1, DropTells
<1>18. CASE kind = "swap"
    <2>1. p = Zcmp!Broken(q, "swap", k)
        BY <1>2, <1>18
    <2>2. ~s.last
        BY <1>4, <1>18 DEF Zcmp!Applies
    <2>3. k \in 1..(Len(q) - 1)
        BY <1>3, <1>6, <2>2
    <2>4. q[k].mem /\ q[k + 1].mem
        BY <1>18
    <2> QED BY <1>2, <2>1, <2>3, <2>4, SwapTells
<1> QED BY <1>10, <1>11, <1>12, <1>13, <1>14, <1>15, <1>16, <1>17, <1>18 DEF Zcmp!StepDefects

\* The program has pushes and pops of lists of registers, and moves.
Kept == {Zcmp!SREGN[j] : j \in 2..9}
PushPop(e) ==
    /\ e.op \in {"cm.push", "cm.pop", "cm.popretz", "cm.popret"}
    /\ e.a \in 1..13 /\ e.b \in 0..3
TwoMoves(e) ==
    /\ e.op \in {"cm.mva01s", "cm.mvsa01"} /\ e.a \in Kept /\ e.b \in Kept
    /\ e.op = "cm.mvsa01" => e.a # e.b

LEMMA SregnIs ==
    /\ \A j \in 1..13 : Zcmp!SREGN[j] \in Nat /\ Zcmp!SREGN[j] \notin {0, 2, 5, 7, 10, 11}
    /\ Zcmp!SREGN[1] = 1
    /\ \A i, j \in 1..13 : Zcmp!SREGN[i] = Zcmp!SREGN[j] => i = j
<1>1. PICK f : f = [j \in 1..13 |-> Zcmp!SREGN[j]]
    OBVIOUS
<1>2. /\ f[1] = 1 /\ f[2] = 8 /\ f[3] = 9 /\ f[4] = 18 /\ f[5] = 19 /\ f[6] = 20 /\ f[7] = 21
      /\ f[8] = 22 /\ f[9] = 23 /\ f[10] = 24 /\ f[11] = 25 /\ f[12] = 26 /\ f[13] = 27
    BY <1>1 DEF Zcmp!SREGN, Zcmp!RA
<1>3. \A j \in 1..13 : \/ j = 1 \/ j = 2 \/ j = 3 \/ j = 4 \/ j = 5 \/ j = 6 \/ j = 7 \/ j = 8
                       \/ j = 9 \/ j = 10 \/ j = 11 \/ j = 12 \/ j = 13
    OBVIOUS
<1>4. \A j \in 1..13 : f[j] = IF j = 1 THEN 1 ELSE IF j <= 3 THEN j + 6 ELSE j + 14
    BY <1>2, <1>3
<1>5. \A j \in 1..13 : f[j] \in Nat /\ f[j] \notin {0, 2, 5, 7, 10, 11}
    BY <1>4
<1>6. \A i, j \in 1..13 : f[i] = f[j] => i = j
    BY <1>4
<1> QED BY <1>1, <1>2, <1>5, <1>6

LEMMA AdjustIs ==
    ASSUME NEW e, e.a \in 1..13, e.b \in 0..3
    PROVE  Zcmp!Adjust(e) \in 0..112
<1>1. PICK a \in 1..13, b \in 0..3 : a = e.a /\ b = e.b
    OBVIOUS
<1>2. (4 * a + 15) \div 16 \in 0..4
    <2>1. PICK d : d = (4 * a + 15) \div 16
        OBVIOUS
    <2>2. d \in Int /\ 16 * d <= 4 * a + 15
        BY <2>1
    <2>3. d >= 0
        BY <2>1
    <2> QED BY <2>1, <2>2, <2>3
<1> QED BY <1>1, <1>2 DEF Zcmp!Adjust, Zcmp!BaseBytes

\* The steps of a push or a pop, and those of the moves.
Pushes(e) == e.op = "cm.push"
BeatOf(e, k) ==
    [mem |-> TRUE, we |-> Pushes(e), rs1 |-> 2,
     rs2 |-> IF Pushes(e) THEN Zcmp!SREGN[e.a + 1 - k] ELSE 0,
     rd |-> IF Pushes(e) THEN 0 ELSE Zcmp!SREGN[e.a + 1 - k],
     imm |-> (IF Pushes(e) THEN 0 ELSE Zcmp!Adjust(e)) - 4 * k,
     azero |-> FALSE, wb |-> FALSE, last |-> FALSE, ret |-> FALSE]
ZeroOf ==
    [mem |-> FALSE, we |-> FALSE, rs1 |-> 2, rs2 |-> 0, rd |-> 10, imm |-> 0,
     azero |-> TRUE, wb |-> TRUE, last |-> FALSE, ret |-> FALSE]
SpOf(e) ==
    [mem |-> FALSE, we |-> FALSE, rs1 |-> 2, rs2 |-> IF Pushes(e) THEN 0 ELSE 1, rd |-> 2,
     imm |-> IF Pushes(e) THEN -Zcmp!Adjust(e) ELSE Zcmp!Adjust(e),
     azero |-> FALSE, wb |-> TRUE, last |-> TRUE, ret |-> Zcmp!Returns(e)]
MoveStep(to, from, final) ==
    [mem |-> FALSE, we |-> FALSE, rs1 |-> from, rs2 |-> 0, rd |-> to, imm |-> 0,
     azero |-> FALSE, wb |-> TRUE, last |-> final, ret |-> FALSE]
SizeOf(e) == IF e.op = "cm.popretz" THEN e.a + 2 ELSE e.a + 1

LEMMA SameStep ==
    ASSUME NEW s \in MicroOp, NEW t \in MicroOp,
           s.mem = t.mem, s.we = t.we, s.rs1 = t.rs1, s.rs2 = t.rs2, s.rd = t.rd,
           s.imm = t.imm, s.azero = t.azero, s.wb = t.wb, s.last = t.last, s.ret = t.ret
    PROVE  s = t
<1>1. /\ s = [mem |-> s.mem, we |-> s.we, rs1 |-> s.rs1, rs2 |-> s.rs2, rd |-> s.rd,
              imm |-> s.imm, azero |-> s.azero, wb |-> s.wb, last |-> s.last, ret |-> s.ret]
      /\ t = [mem |-> t.mem, we |-> t.we, rs1 |-> t.rs1, rs2 |-> t.rs2, rd |-> t.rd,
              imm |-> t.imm, azero |-> t.azero, wb |-> t.wb, last |-> t.last, ret |-> t.ret]
    BY DEF MicroOp
<1> QED BY <1>1, Zenon

LEMMA StepIs ==
    /\ Zcmp!Step \in MicroOp
    /\ Zcmp!Step.mem = FALSE /\ Zcmp!Step.we = FALSE /\ Zcmp!Step.rs1 = 2 /\ Zcmp!Step.rs2 = 0
    /\ Zcmp!Step.rd = 0 /\ Zcmp!Step.imm = 0 /\ Zcmp!Step.azero = FALSE /\ Zcmp!Step.wb = FALSE
    /\ Zcmp!Step.last = FALSE /\ Zcmp!Step.ret = FALSE
BY DEF Zcmp!Step, Zcmp!SP, Zcmp!ZERO, MicroOp

LEMMA BeatIs ==
    ASSUME NEW e, NEW k, BeatOf(e, k) \in MicroOp
    PROVE  [Zcmp!Step EXCEPT !.mem = TRUE,
                  !.we = (e.op = "cm.push"),
                  !.rs2 = IF e.op = "cm.push" THEN Zcmp!SREGN[e.a + 1 - k] ELSE Zcmp!ZERO,
                  !.rd = IF e.op = "cm.push" THEN Zcmp!ZERO ELSE Zcmp!SREGN[e.a + 1 - k],
                  !.imm = (IF e.op = "cm.push" THEN 0 ELSE Zcmp!Adjust(e)) - 4 * k]
               = BeatOf(e, k)
<1>1. PICK s, u : s = Zcmp!Step /\ u = BeatOf(e, k)
    OBVIOUS
<1>2. PICK g, x, y, z : /\ g = (e.op = "cm.push")
                        /\ x = IF e.op = "cm.push" THEN Zcmp!SREGN[e.a + 1 - k] ELSE 0
                        /\ y = IF e.op = "cm.push" THEN 0 ELSE Zcmp!SREGN[e.a + 1 - k]
                        /\ z = (IF e.op = "cm.push" THEN 0 ELSE Zcmp!Adjust(e)) - 4 * k
    OBVIOUS
<1>3. u = [mem |-> TRUE, we |-> g, rs1 |-> 2, rs2 |-> x, rd |-> y, imm |-> z,
           azero |-> FALSE, wb |-> FALSE, last |-> FALSE, ret |-> FALSE]
    BY <1>1, <1>2, Zenon DEF BeatOf, Pushes
<1>4. g \in BOOLEAN /\ x \in Int /\ y \in Int /\ z \in Int
    BY <1>1, <1>3 DEF MicroOp
<1>5. PICK t : t = [s EXCEPT !.mem = TRUE, !.we = g, !.rs2 = x, !.rd = y, !.imm = z]
    OBVIOUS
<1>6. t \in MicroOp
    BY <1>1, <1>4, <1>5, StepIs DEF MicroOp
<1>7. /\ t.mem = TRUE /\ t.we = g /\ t.rs1 = s.rs1 /\ t.rs2 = x /\ t.rd = y /\ t.imm = z
      /\ t.azero = s.azero /\ t.wb = s.wb /\ t.last = s.last /\ t.ret = s.ret
    BY <1>1, <1>5, StepIs DEF MicroOp
<1>8. /\ t.mem = u.mem /\ t.we = u.we /\ t.rs1 = u.rs1 /\ t.rs2 = u.rs2 /\ t.rd = u.rd
      /\ t.imm = u.imm /\ t.azero = u.azero /\ t.wb = u.wb /\ t.last = u.last /\ t.ret = u.ret
    <2>1. /\ s.rs1 = 2 /\ s.azero = FALSE /\ s.wb = FALSE /\ s.last = FALSE /\ s.ret = FALSE
        BY <1>1, StepIs
    <2>2. /\ u.mem = TRUE /\ u.we = g /\ u.rs1 = 2 /\ u.rs2 = x /\ u.rd = y /\ u.imm = z
          /\ u.azero = FALSE /\ u.wb = FALSE /\ u.last = FALSE /\ u.ret = FALSE
        BY <1>3
    <2> QED BY <1>7, <2>1, <2>2, Zenon
<1>9. t = u
    BY <1>1, <1>6, <1>8, SameStep
<1> QED BY <1>1, <1>2, <1>5, <1>9, Zenon DEF Zcmp!ZERO

LEMMA ZeroIs == [Zcmp!Step EXCEPT !.wb = TRUE, !.azero = TRUE, !.rd = Zcmp!A0] = ZeroOf
<1>1. PICK s, u : s = Zcmp!Step /\ u = ZeroOf
    OBVIOUS
<1>2. PICK t : t = [s EXCEPT !.wb = TRUE, !.azero = TRUE, !.rd = 10]
    OBVIOUS
<1>3. t \in MicroOp /\ u \in MicroOp
    <2>1. t \in MicroOp
        <3>1. s \in MicroOp /\ 10 \in Int
            BY <1>1, StepIs
        <3>2. PICK r \in Int : t = [s EXCEPT !.wb = TRUE, !.azero = TRUE, !.rd = r]
            BY <1>2, <3>1
        <3> QED BY <3>1, <3>2 DEF MicroOp
    <2>2. u \in MicroOp
        BY <1>1 DEF MicroOp, ZeroOf
    <2> QED BY <2>1, <2>2
<1>4. /\ t.mem = s.mem /\ t.we = s.we /\ t.rs1 = s.rs1 /\ t.rs2 = s.rs2 /\ t.rd = 10
      /\ t.imm = s.imm /\ t.azero = TRUE /\ t.wb = TRUE /\ t.last = s.last /\ t.ret = s.ret
    BY <1>1, <1>2, StepIs DEF MicroOp
<1>5. /\ t.mem = u.mem /\ t.we = u.we /\ t.rs1 = u.rs1 /\ t.rs2 = u.rs2 /\ t.rd = u.rd
      /\ t.imm = u.imm /\ t.azero = u.azero /\ t.wb = u.wb /\ t.last = u.last /\ t.ret = u.ret
    BY <1>1, <1>4, StepIs DEF ZeroOf
<1>6. t = u
    BY <1>3, <1>5, SameStep
<1> QED BY <1>1, <1>2, <1>6, Zenon DEF Zcmp!A0

LEMMA SpIs ==
    ASSUME NEW e, SpOf(e) \in MicroOp
    PROVE  [Zcmp!Step EXCEPT !.wb = TRUE, !.last = TRUE, !.rd = Zcmp!SP,
                  !.imm = IF e.op = "cm.push" THEN -Zcmp!Adjust(e) ELSE Zcmp!Adjust(e),
                  !.ret = Zcmp!Returns(e),
                  !.rs2 = IF e.op = "cm.push" THEN Zcmp!ZERO ELSE Zcmp!RA] = SpOf(e)
<1>1. PICK s, u : s = Zcmp!Step /\ u = SpOf(e)
    OBVIOUS
<1>2. PICK x, z, g : /\ x = IF e.op = "cm.push" THEN 0 ELSE 1
                     /\ z = IF e.op = "cm.push" THEN -Zcmp!Adjust(e) ELSE Zcmp!Adjust(e)
                     /\ g = Zcmp!Returns(e)
    OBVIOUS
<1>3. u = [mem |-> FALSE, we |-> FALSE, rs1 |-> 2, rs2 |-> x, rd |-> 2, imm |-> z,
           azero |-> FALSE, wb |-> TRUE, last |-> TRUE, ret |-> g]
    BY <1>1, <1>2, Zenon DEF SpOf, Pushes
<1>4. x \in Int /\ z \in Int /\ g \in BOOLEAN
    BY <1>1, <1>3 DEF MicroOp
<1>5. PICK t : t = [s EXCEPT !.wb = TRUE, !.last = TRUE, !.rd = 2, !.imm = z, !.ret = g,
                             !.rs2 = x]
    OBVIOUS
<1>6. t \in MicroOp
    BY <1>1, <1>4, <1>5, StepIs DEF MicroOp
<1>7. /\ t.mem = s.mem /\ t.we = s.we /\ t.rs1 = s.rs1 /\ t.rs2 = x /\ t.rd = 2 /\ t.imm = z
      /\ t.azero = s.azero /\ t.wb = TRUE /\ t.last = TRUE /\ t.ret = g
    BY <1>1, <1>5, StepIs DEF MicroOp
<1>8. /\ t.mem = u.mem /\ t.we = u.we /\ t.rs1 = u.rs1 /\ t.rs2 = u.rs2 /\ t.rd = u.rd
      /\ t.imm = u.imm /\ t.azero = u.azero /\ t.wb = u.wb /\ t.last = u.last /\ t.ret = u.ret
    <2>1. s.mem = FALSE /\ s.we = FALSE /\ s.rs1 = 2 /\ s.azero = FALSE
        BY <1>1, StepIs
    <2>2. /\ u.mem = FALSE /\ u.we = FALSE /\ u.rs1 = 2 /\ u.rs2 = x /\ u.rd = 2 /\ u.imm = z
          /\ u.azero = FALSE /\ u.wb = TRUE /\ u.last = TRUE /\ u.ret = g
        BY <1>3
    <2> QED BY <1>7, <2>1, <2>2, Zenon
<1>9. t = u
    BY <1>1, <1>6, <1>8, SameStep
<1> QED BY <1>1, <1>2, <1>5, <1>9, Zenon DEF Zcmp!SP, Zcmp!ZERO, Zcmp!RA

LEMMA MoveIs ==
    ASSUME NEW to \in Int, NEW from \in Int, NEW final \in BOOLEAN
    PROVE  /\ Zcmp!Move(to, from, final) = MoveStep(to, from, final)
           /\ MoveStep(to, from, final) \in MicroOp
<1>1. PICK s, u : s = Zcmp!Step /\ u = MoveStep(to, from, final)
    OBVIOUS
<1>2. PICK t : t = [s EXCEPT !.rd = to, !.rs1 = from, !.wb = TRUE, !.last = final]
    OBVIOUS
<1>3. t \in MicroOp /\ u \in MicroOp
    BY <1>1, <1>2, StepIs DEF MicroOp, MoveStep
<1>4. /\ t.mem = s.mem /\ t.we = s.we /\ t.rs1 = from /\ t.rs2 = s.rs2 /\ t.rd = to
      /\ t.imm = s.imm /\ t.azero = s.azero /\ t.wb = TRUE /\ t.last = final /\ t.ret = s.ret
    BY <1>1, <1>2, StepIs DEF MicroOp
<1>5. /\ t.mem = u.mem /\ t.we = u.we /\ t.rs1 = u.rs1 /\ t.rs2 = u.rs2 /\ t.rd = u.rd
      /\ t.imm = u.imm /\ t.azero = u.azero /\ t.wb = u.wb /\ t.last = u.last /\ t.ret = u.ret
    BY <1>1, <1>4, StepIs DEF MoveStep
<1>6. t = u
    BY <1>3, <1>5, SameStep
<1> QED BY <1>1, <1>2, <1>3, <1>6, Zenon DEF Zcmp!Move

LEMMA PushPopSteps ==
    ASSUME NEW e, PushPop(e), NEW q, q = Zcmp!Sequencer(e)
    PROVE  /\ q \in Seq(MicroOp) /\ Len(q) = SizeOf(e)
           /\ \A k \in 1..e.a : q[k] = BeatOf(e, k)
           /\ e.op = "cm.popretz" => q[e.a + 1] = ZeroOf
           /\ q[SizeOf(e)] = SpOf(e)
<1>1. PICK n \in 1..13 : n = e.a
    BY DEF PushPop
<1>2. PICK N \in Nat : N = SizeOf(e) /\ N = IF e.op = "cm.popretz" THEN n + 2 ELSE n + 1
    BY <1>1 DEF SizeOf
<1>3. \A k \in 1..n : BeatOf(e, k) \in MicroOp
    <2>1. \A k \in 1..n : n + 1 - k \in 1..13
        OBVIOUS
    <2>2. \A k \in 1..n : Zcmp!SREGN[n + 1 - k] \in Int
        BY <2>1, SregnIs
    <2>3. Zcmp!Adjust(e) \in Int
        BY AdjustIs DEF PushPop
    <2>4. SUFFICES ASSUME NEW k \in 1..n PROVE BeatOf(e, k) \in MicroOp
        OBVIOUS
    <2>5. PICK x, y, z \in Int :
              /\ x = IF Pushes(e) THEN Zcmp!SREGN[n + 1 - k] ELSE 0
              /\ y = IF Pushes(e) THEN 0 ELSE Zcmp!SREGN[n + 1 - k]
              /\ z = (IF Pushes(e) THEN 0 ELSE Zcmp!Adjust(e)) - 4 * k
        BY <2>2, <2>3
    <2>6. Pushes(e) \in BOOLEAN
        BY DEF Pushes
    <2> QED BY <1>1, <2>5, <2>6 DEF BeatOf, MicroOp
<1>4. ZeroOf \in MicroOp
    BY DEF ZeroOf, MicroOp
<1>5. SpOf(e) \in MicroOp
    <2>1. Zcmp!Adjust(e) \in Int
        BY AdjustIs DEF PushPop
    <2>2. Zcmp!Returns(e) \in BOOLEAN
        BY DEF Zcmp!Returns
    <2> QED BY <2>1, <2>2 DEF SpOf, MicroOp
<1>6. q = [k \in 1..N |-> IF k <= n THEN BeatOf(e, k)
                           ELSE IF k = n + 1 /\ e.op = "cm.popretz" THEN ZeroOf
                           ELSE SpOf(e)]
    <2>1. PICK f : f = [k \in 1..N |->
              IF k <= n
              THEN [Zcmp!Step EXCEPT !.mem = TRUE,
                        !.we = (e.op = "cm.push"),
                        !.rs2 = IF e.op = "cm.push" THEN Zcmp!SREGN[n + 1 - k] ELSE Zcmp!ZERO,
                        !.rd = IF e.op = "cm.push" THEN Zcmp!ZERO ELSE Zcmp!SREGN[n + 1 - k],
                        !.imm = (IF e.op = "cm.push" THEN 0 ELSE Zcmp!Adjust(e)) - 4 * k]
              ELSE IF k = n + 1 /\ e.op = "cm.popretz"
              THEN [Zcmp!Step EXCEPT !.wb = TRUE, !.azero = TRUE, !.rd = Zcmp!A0]
              ELSE [Zcmp!Step EXCEPT !.wb = TRUE, !.last = TRUE, !.rd = Zcmp!SP,
                        !.imm = IF e.op = "cm.push" THEN -Zcmp!Adjust(e) ELSE Zcmp!Adjust(e),
                        !.ret = Zcmp!Returns(e),
                        !.rs2 = IF e.op = "cm.push" THEN Zcmp!ZERO ELSE Zcmp!RA]]
        OBVIOUS
    <2>2. e.op # "cm.mva01s" /\ e.op # "cm.mvsa01"
        BY DEF PushPop
    <2>3. q = f
        BY <1>1, <1>2, <2>1, <2>2, Zenon DEF Zcmp!Sequencer
    <2>4. \A k \in 1..n : [Zcmp!Step EXCEPT !.mem = TRUE,
                        !.we = (e.op = "cm.push"),
                        !.rs2 = IF e.op = "cm.push" THEN Zcmp!SREGN[n + 1 - k] ELSE Zcmp!ZERO,
                        !.rd = IF e.op = "cm.push" THEN Zcmp!ZERO ELSE Zcmp!SREGN[n + 1 - k],
                        !.imm = (IF e.op = "cm.push" THEN 0 ELSE Zcmp!Adjust(e)) - 4 * k]
                 = BeatOf(e, k)
        BY <1>1, <1>3, BeatIs, ZenonT(60)
    <2>5. \A k \in 1..N : k <= n => k \in 1..n
        BY <1>2
    <2> QED BY <1>5, <2>1, <2>3, <2>4, <2>5, ZeroIs, SpIs, ZenonT(60)
<1>7. \A k \in 1..N : q[k] \in MicroOp
    BY <1>2, <1>3, <1>4, <1>5, <1>6
<1>8. q = [k \in 1..N |-> q[k]]
    BY <1>6
<1>9. q \in Seq(MicroOp) /\ Len(q) = N
    BY <1>7, <1>8
<1> QED BY <1>1, <1>2, <1>6, <1>9

LEMMA MoveSteps ==
    ASSUME NEW e, TwoMoves(e), NEW q, q = Zcmp!Sequencer(e)
    PROVE  /\ q \in Seq(MicroOp) /\ Len(q) = 2
           /\ q[1] = IF e.op = "cm.mva01s" THEN MoveStep(10, e.a, FALSE)
                                           ELSE MoveStep(e.a, 10, FALSE)
           /\ q[2] = IF e.op = "cm.mva01s" THEN MoveStep(11, e.b, TRUE)
                                           ELSE MoveStep(e.b, 11, TRUE)
<1>1. PICK a \in Int, b \in Int : a = e.a /\ b = e.b
    BY SregnIs DEF TwoMoves, Kept
<1>2. PICK s, t : /\ s = IF e.op = "cm.mva01s" THEN MoveStep(10, a, FALSE)
                                               ELSE MoveStep(a, 10, FALSE)
                  /\ t = IF e.op = "cm.mva01s" THEN MoveStep(11, b, TRUE)
                                               ELSE MoveStep(b, 11, TRUE)
    OBVIOUS
<1>3. \A final \in {FALSE, TRUE}, c \in {10, 11}, r \in {a, b} :
          /\ Zcmp!Move(c, r, final) = MoveStep(c, r, final)
          /\ Zcmp!Move(r, c, final) = MoveStep(r, c, final)
          /\ MoveStep(c, r, final) \in MicroOp /\ MoveStep(r, c, final) \in MicroOp
    <2>1. SUFFICES ASSUME NEW final \in {FALSE, TRUE}, NEW c \in {10, 11}, NEW r \in {a, b}
                   PROVE  /\ Zcmp!Move(c, r, final) = MoveStep(c, r, final)
                          /\ Zcmp!Move(r, c, final) = MoveStep(r, c, final)
                          /\ MoveStep(c, r, final) \in MicroOp
                          /\ MoveStep(r, c, final) \in MicroOp
        OBVIOUS
    <2>2. c \in Int /\ r \in Int
        BY <1>1
    <2>3. final \in BOOLEAN
        BY Zenon
    <2> QED BY <2>2, <2>3, MoveIs, Zenon
<1>4. s \in MicroOp /\ t \in MicroOp
    BY <1>2, <1>3, Zenon
<1>5. q = <<s, t>>
    <2>1. CASE e.op = "cm.mva01s"
        <3>1. q = <<Zcmp!Move(10, a, FALSE), Zcmp!Move(11, b, TRUE)>>
            BY <1>1, <2>1, Zenon DEF Zcmp!Sequencer, Zcmp!A0, Zcmp!A1
        <3> QED BY <1>2, <1>3, <2>1, <3>1, Zenon
    <2>2. CASE e.op = "cm.mvsa01"
        <3>1. q = <<Zcmp!Move(a, 10, FALSE), Zcmp!Move(b, 11, TRUE)>>
            BY <1>1, <2>2 DEF Zcmp!Sequencer, Zcmp!A0, Zcmp!A1
        <3>2. e.op # "cm.mva01s"
            BY <2>2
        <3> QED BY <1>2, <1>3, <3>1, <3>2, Zenon
    <2> QED BY <2>1, <2>2 DEF TwoMoves
<1>6. q \in Seq(MicroOp) /\ Len(q) = 2 /\ q[1] = s /\ q[2] = t
    BY <1>4, <1>5
<1> QED BY <1>1, <1>2, <1>6

\* What the instructions in front of a case set up for it.
Pops(e) == e.op \in {"cm.pop", "cm.popretz", "cm.popret"}
SetUpFor(e) ==
    /\ case \in Nat \ {0}
    /\ regs \in [Zcmp!Registers -> Int] /\ memm \in [Zcmp!Stack -> Int]
    /\ regs[0] = 0 /\ regs[7] = 0
    /\ Pushes(e) => /\ regs[2] = 256
                    /\ \A j \in 1..e.a : regs[Zcmp!SREGN[j]] \in Nat \ {0}
    /\ Pops(e) => /\ regs[2] = 256 - Zcmp!Adjust(e)
                  /\ memm[256 - 4 * e.a] = IF Zcmp!Returns(e) THEN Zcmp!Label77(case)
                                           ELSE Zcmp!SlotValue(case, e.a)
    /\ ~Pushes(e) /\ ~Pops(e) => regs[10] \in Int \ {0} /\ regs[11] \in Int \ {0}
    /\ e.op = "cm.mva01s" => regs[e.a] \in Int \ {0} /\ regs[e.b] \in Int \ {0}

\* The steps of a push or a pop by number.
SizeIs(q, e, n) ==
    /\ q \in Seq(MicroOp) /\ n \in 1..13 /\ Len(q) = SizeOf(e)
    /\ Len(q) = IF e.op = "cm.popretz" THEN n + 2 ELSE n + 1
BeatFields(q, e, n) ==
    \A i \in 1..n :
        /\ q[i].mem = TRUE /\ q[i].we = Pushes(e) /\ q[i].wb = FALSE
        /\ q[i].rs2 = IF Pushes(e) THEN Zcmp!SREGN[n + 1 - i] ELSE 0
        /\ q[i].rd = IF Pushes(e) THEN 0 ELSE Zcmp!SREGN[n + 1 - i]
        /\ q[i].imm = (IF Pushes(e) THEN 0 ELSE Zcmp!Adjust(e)) - 4 * i
        /\ q[i].last = FALSE /\ q[i].ret = FALSE
ZeroFields(q, e, n) ==
    \A i \in 1..Len(q) : ~(i <= n) /\ i # Len(q) =>
        /\ e.op = "cm.popretz" /\ i = n + 1
        /\ q[i].mem = FALSE /\ q[i].we = FALSE /\ q[i].wb = TRUE /\ q[i].rs1 = 2
        /\ q[i].rd = 10 /\ q[i].imm = 0 /\ q[i].azero = TRUE
        /\ q[i].last = FALSE /\ q[i].ret = FALSE
SpFields(s, e) ==
    /\ s.mem = FALSE /\ s.we = FALSE /\ s.wb = TRUE /\ s.rs1 = 2
    /\ s.rs2 = IF Pushes(e) THEN 0 ELSE 1
    /\ s.rd = 2 /\ s.azero = FALSE /\ s.last = TRUE /\ s.ret = Zcmp!Returns(e)
    /\ s.imm = IF Pushes(e) THEN -Zcmp!Adjust(e) ELSE Zcmp!Adjust(e)
Numbered(q, e, n) ==
    SizeIs(q, e, n) /\ BeatFields(q, e, n) /\ ZeroFields(q, e, n) /\ SpFields(q[Len(q)], e)

LEMMA StepsByNumber ==
    ASSUME NEW e, PushPop(e) PROVE Numbered(Zcmp!Sequencer(e), e, e.a)
<1> PICK q, n : q = Zcmp!Sequencer(e) /\ n = e.a
    OBVIOUS
<1>1. n \in 1..13
    BY DEF PushPop
<1>2. PICK N \in Nat : N = SizeOf(e) /\ N = IF e.op = "cm.popretz" THEN n + 2 ELSE n + 1
    BY <1>1 DEF SizeOf
<1>3. /\ q \in Seq(MicroOp) /\ Len(q) = N
      /\ \A i \in 1..n : q[i] = BeatOf(e, i)
      /\ e.op = "cm.popretz" => q[n + 1] = ZeroOf
      /\ q[N] = SpOf(e)
    BY <1>2, PushPopSteps
<1>4. ASSUME NEW i \in 1..n
      PROVE  /\ q[i].mem = TRUE /\ q[i].we = Pushes(e) /\ q[i].wb = FALSE
             /\ q[i].rs2 = IF Pushes(e) THEN Zcmp!SREGN[n + 1 - i] ELSE 0
             /\ q[i].rd = IF Pushes(e) THEN 0 ELSE Zcmp!SREGN[n + 1 - i]
             /\ q[i].imm = (IF Pushes(e) THEN 0 ELSE Zcmp!Adjust(e)) - 4 * i
             /\ q[i].last = FALSE /\ q[i].ret = FALSE
    <2>1. q[i] = BeatOf(e, i)
        BY <1>3
    <2>2. Pushes(e) \in BOOLEAN
        BY DEF Pushes
    <2> QED BY <2>1, <2>2 DEF BeatOf
<1>5. ASSUME NEW i \in 1..N, ~(i <= n), i # N
      PROVE  /\ e.op = "cm.popretz" /\ i = n + 1
             /\ q[i].mem = FALSE /\ q[i].we = FALSE /\ q[i].wb = TRUE /\ q[i].rs1 = 2
             /\ q[i].rd = 10 /\ q[i].imm = 0 /\ q[i].azero = TRUE
             /\ q[i].last = FALSE /\ q[i].ret = FALSE
    <2>1. e.op = "cm.popretz" /\ i = n + 1
        BY <1>1, <1>2, <1>5
    <2>2. q[i] = ZeroOf
        BY <1>3, <2>1
    <2> QED BY <2>1, <2>2 DEF ZeroOf
<1>6. PICK s : s = q[N]
    OBVIOUS
<1>7. /\ s.mem = FALSE /\ s.we = FALSE /\ s.wb = TRUE /\ s.rs1 = 2
      /\ s.rs2 = IF Pushes(e) THEN 0 ELSE 1
      /\ s.rd = 2 /\ s.azero = FALSE /\ s.last = TRUE /\ s.ret = Zcmp!Returns(e)
      /\ s.imm = IF Pushes(e) THEN -Zcmp!Adjust(e) ELSE Zcmp!Adjust(e)
    <2>1. s = SpOf(e)
        BY <1>3, <1>6
    <2>2. Zcmp!Returns(e) \in BOOLEAN
        BY DEF Zcmp!Returns
    <2> QED BY <2>1, <2>2 DEF SpOf
<1>8. Len(q) = N
    BY <1>3
<1>9. SizeIs(q, e, n)
    BY <1>1, <1>2, <1>3 DEF SizeIs
<1>10. BeatFields(q, e, n)
    BY <1>4 DEF BeatFields
<1>11. ZeroFields(q, e, n)
    BY <1>5, <1>8 DEF ZeroFields
<1>12. SpFields(q[Len(q)], e)
    BY <1>6, <1>7, <1>8 DEF SpFields
<1> QED BY <1>9, <1>10, <1>11, <1>12 DEF Numbered

\* Which step writes which register.
Writers(q, e, n) ==
    \A i \in 1..Len(q) :
        /\ Writes(q[i]) <=> ~(i <= n) \/ ~Pushes(e)
        /\ q[i].rd = IF i = Len(q) THEN 2 ELSE IF ~(i <= n) THEN 10
                     ELSE IF Pushes(e) THEN 0 ELSE Zcmp!SREGN[n + 1 - i]
        /\ Writes(q[i]) =>
               /\ q[i].rd # 7 /\ q[i].rd # 0
               /\ \A k \in 1..Len(q) : Writes(q[k]) /\ q[k].rd = q[i].rd => k = i

LEMMA WritersAre ==
    ASSUME NEW q, NEW e, NEW n, Numbered(q, e, n) PROVE Writers(q, e, n)
<1>1. PICK N \in Nat : N = Len(q) /\ n \in 1..13 /\ N \in {n + 1, n + 2}
    BY DEF Numbered, SizeIs
<1>2. \A i \in 1..n : /\ q[i].mem = TRUE /\ q[i].we = Pushes(e)
                      /\ q[i].rd = IF Pushes(e) THEN 0 ELSE Zcmp!SREGN[n + 1 - i]
    BY DEF Numbered, BeatFields
<1>3. \A i \in 1..N : ~(i <= n) /\ i # N => /\ i = n + 1 /\ q[i].mem = FALSE /\ q[i].wb = TRUE
                                            /\ q[i].rd = 10
    BY <1>1 DEF Numbered, ZeroFields
<1>4. q[N].mem = FALSE /\ q[N].wb = TRUE /\ q[N].rd = 2
    BY <1>1 DEF Numbered, SpFields
<1>5. PICK g : g = [i \in 1..n |-> Zcmp!SREGN[n + 1 - i]]
    OBVIOUS
<1>6. \A i \in 1..n : n + 1 - i \in 1..13 /\ g[i] = Zcmp!SREGN[n + 1 - i]
    <2>1. \A i \in 1..n : n + 1 - i \in 1..13
        BY <1>1
    <2> QED BY <1>5, <2>1
<1>7. \A i \in 1..n : g[i] \in Nat /\ g[i] \notin {0, 2, 5, 7, 10, 11}
    BY <1>6, SregnIs
<1>8. \A i, k \in 1..n : g[i] = g[k] => i = k
    <2>1. SUFFICES ASSUME NEW i \in 1..n, NEW k \in 1..n, g[i] = g[k] PROVE i = k
        OBVIOUS
    <2>2. Zcmp!SREGN[n + 1 - i] = Zcmp!SREGN[n + 1 - k]
        BY <1>6, <2>1
    <2>3. n + 1 - i = n + 1 - k
        <3>1. n + 1 - i \in 1..13 /\ n + 1 - k \in 1..13
            BY <1>6
        <3> QED BY <2>2, <3>1, SregnIs
    <2> QED BY <1>1, <2>3
<1>9. \A i \in 1..N : i <= n <=> i \in 1..n
    BY <1>1
<1>10. \A i \in 1..N :
          /\ Writes(q[i]) <=> ~(i <= n) \/ ~Pushes(e)
          /\ q[i].rd = IF i = N THEN 2 ELSE IF ~(i <= n) THEN 10
                       ELSE IF Pushes(e) THEN 0 ELSE g[i]
    <2>1. SUFFICES ASSUME NEW i \in 1..N
                   PROVE  /\ Writes(q[i]) <=> ~(i <= n) \/ ~Pushes(e)
                          /\ q[i].rd = IF i = N THEN 2 ELSE IF ~(i <= n) THEN 10
                                       ELSE IF Pushes(e) THEN 0 ELSE g[i]
        OBVIOUS
    <2>2. CASE i \in 1..n
        <3>1. i # N /\ i <= n
            BY <1>1, <2>2
        <3>2. q[i].rd = IF Pushes(e) THEN 0 ELSE g[i]
            BY <1>2, <1>6, <2>2
        <3>3. g[i] # 0
            BY <1>7, <2>2
        <3>4. Writes(q[i]) <=> ~Pushes(e)
            BY <1>2, <2>2, <3>2, <3>3 DEF Writes
        <3> QED BY <3>1, <3>2, <3>4
    <2>3. CASE i \notin 1..n /\ i # N
        BY <1>3, <1>9, <2>3 DEF Writes
    <2>4. CASE i \notin 1..n /\ i = N
        BY <1>4, <1>9, <2>4 DEF Writes
    <2> QED BY <1>1, <2>2, <2>3, <2>4
<1>11. \A i \in 1..N : Writes(q[i]) =>
           /\ q[i].rd # 7 /\ q[i].rd # 0
           /\ \A k \in 1..N : Writes(q[k]) /\ q[k].rd = q[i].rd => k = i
    <2>1. SUFFICES ASSUME NEW i \in 1..N, Writes(q[i])
                   PROVE  /\ q[i].rd # 7 /\ q[i].rd # 0
                          /\ \A k \in 1..N : Writes(q[k]) /\ q[k].rd = q[i].rd => k = i
        OBVIOUS
    <2>2. \A k \in 1..N : Writes(q[k]) =>
              \/ k = N /\ q[k].rd = 2
              \/ k = n + 1 /\ q[k].rd = 10
              \/ k \in 1..n /\ q[k].rd = g[k]
        BY <1>1, <1>3, <1>9, <1>10
    <2> QED BY <1>7, <1>8, <2>1, <2>2
<1> QED BY <1>1, <1>6, <1>9, <1>10, <1>11 DEF Writers

LEMMA LabelsDiffer ==
    ASSUME NEW c \in Nat \ {0}, NEW n \in 1..13
    PROVE  /\ Zcmp!CmPc(c) + 2 # 0
           /\ Zcmp!Label77(c) # 0 /\ Zcmp!Label77(c) # Zcmp!CmPc(c) + 2
           /\ Zcmp!SlotValue(c, n) # 0 /\ Zcmp!SlotValue(c, n) # Zcmp!CmPc(c) + 2
BY DEF Zcmp!CmPc, Zcmp!Label77, Zcmp!SlotValue

LEMMA SlotsExist ==
    \A k \in 1..13 : 256 - 4 * k \in Zcmp!Stack
<1>1. SUFFICES ASSUME NEW k \in 1..13 PROVE 256 - 4 * k \in Zcmp!Stack
    OBVIOUS
<1>2. -k \in -16..2 /\ 256 + 4 * (-k) = 256 - 4 * k
    OBVIOUS
<1> QED BY <1>2 DEF Zcmp!Stack, Zcmp!SP0

\* What a pop loads from its slot k.
LEMMA BeatLoads ==
    ASSUME NEW e, PushPop(e), ~Pushes(e), SetUpFor(e), NEW q, Numbered(q, e, e.a),
           NEW i \in 1..e.a
    PROVE  StepValue(q[i]) = memm[256 - 4 * i]
<1>1. PICK n \in 1..13 : n = e.a
    BY DEF PushPop
<1>2. q[i].mem = TRUE /\ q[i].imm = Zcmp!Adjust(e) - 4 * i
    BY DEF Numbered, BeatFields
<1>3. regs[2] = 256 - Zcmp!Adjust(e)
    BY DEF SetUpFor, Pops, Pushes, PushPop
<1>4. Zcmp!Adjust(e) \in Int
    BY AdjustIs DEF PushPop
<1>5. regs[2] + q[i].imm = 256 - 4 * i
    BY <1>1, <1>2, <1>3, <1>4
<1>6. 256 - 4 * i \in DOMAIN memm
    <2>1. i \in 1..13
        BY <1>1
    <2>2. 256 - 4 * i \in Zcmp!Stack
        BY <2>1, SlotsExist
    <2> QED BY <2>2 DEF SetUpFor
<1> QED BY <1>2, <1>5, <1>6 DEF StepValue, Zcmp!MemGet

LEMMA PushPopTells ==
    ASSUME NEW e, PushPop(e), SetUpFor(e), NEW q, q = Zcmp!Sequencer(e)
    PROVE  Telling(q, e.a)
<1>1. PICK n \in 1..13 : n = e.a
    BY DEF PushPop
<1>2. Numbered(q, e, n)
    BY <1>1, StepsByNumber
<1>3. PICK N \in Nat : N = Len(q) /\ N \in {n + 1, n + 2}
    BY <1>2 DEF Numbered, SizeIs
<1>4. q \in Seq(MicroOp)
    BY <1>2 DEF Numbered, SizeIs
<1>5. \A i \in 1..N : i <= n <=> i \in 1..n
    BY <1>1
<1>6. \A i \in 1..N : /\ q[i].mem <=> i <= n
                      /\ q[i].last <=> i = N
                      /\ q[i].ret => q[i].last
                      /\ ~(i <= n) => /\ q[i].wb /\ ~q[i].we /\ q[i].rs1 = 2
                                      /\ q[i].azero => q[i].imm = 0
    <2>1. SUFFICES ASSUME NEW i \in 1..N
                   PROVE  /\ q[i].mem <=> i <= n
                          /\ q[i].last <=> i = N
                          /\ q[i].ret => q[i].last
                          /\ ~(i <= n) => /\ q[i].wb /\ ~q[i].we /\ q[i].rs1 = 2
                                          /\ q[i].azero => q[i].imm = 0
        OBVIOUS
    <2>2. CASE i <= n
        <3>1. i \in 1..n /\ i # N
            BY <1>3, <1>5, <2>2
        <3> QED BY <1>2, <2>2, <3>1 DEF Numbered, BeatFields
    <2>3. CASE ~(i <= n) /\ i # N
        <3>1. /\ q[i].mem = FALSE /\ q[i].we = FALSE /\ q[i].wb = TRUE /\ q[i].rs1 = 2
              /\ q[i].imm = 0 /\ q[i].last = FALSE /\ q[i].ret = FALSE
            BY <1>2, <1>3, <2>3 DEF Numbered, ZeroFields
        <3> QED BY <2>3, <3>1
    <2>4. CASE i = N
        <3>1. ~(i <= n)
            BY <1>3, <2>4
        <3>2. SpFields(q[i], e)
            BY <1>2, <1>3, <2>4 DEF Numbered
        <3>3. /\ q[i].mem = FALSE /\ q[i].we = FALSE /\ q[i].wb = TRUE /\ q[i].rs1 = 2
              /\ q[i].azero = FALSE /\ q[i].last = TRUE
            BY <3>2 DEF SpFields
        <3> QED BY <2>4, <3>1, <3>3
    <2> QED BY <2>2, <2>3, <2>4
<1>7. \A i \in 1..n : /\ ~q[i].wb
                      /\ IF q[i].we THEN regs[q[i].rs2] \in Nat \ {0}
                         ELSE q[i].rd # 0 /\ q[i].rs2 = 0
    <2>1. SUFFICES ASSUME NEW i \in 1..n
                   PROVE  /\ ~q[i].wb
                          /\ IF q[i].we THEN regs[q[i].rs2] \in Nat \ {0}
                             ELSE q[i].rd # 0 /\ q[i].rs2 = 0
        OBVIOUS
    <2>2. /\ q[i].we = Pushes(e) /\ q[i].wb = FALSE
          /\ q[i].rs2 = IF Pushes(e) THEN Zcmp!SREGN[n + 1 - i] ELSE 0
          /\ q[i].rd = IF Pushes(e) THEN 0 ELSE Zcmp!SREGN[n + 1 - i]
        BY <1>2 DEF Numbered, BeatFields
    <2>3. n + 1 - i \in 1..n /\ n + 1 - i \in 1..13
        BY <1>1
    <2>4. CASE Pushes(e)
        <3>1. regs[Zcmp!SREGN[n + 1 - i]] \in Nat \ {0}
            BY <1>1, <2>3, <2>4 DEF SetUpFor
        <3> QED BY <2>2, <2>4, <3>1
    <2>5. CASE ~Pushes(e)
        <3>1. Zcmp!SREGN[n + 1 - i] # 0
            BY <2>3, SregnIs
        <3> QED BY <2>2, <2>5, <3>1
    <2> QED BY <2>4, <2>5
<1>8. regs[2] \in Int \ {0}
    <2>1. Zcmp!Adjust(e) \in 0..112
        BY AdjustIs DEF PushPop
    <2>2. regs[2] = 256 \/ regs[2] = 256 - Zcmp!Adjust(e)
        BY DEF SetUpFor, Pushes, Pops, PushPop
    <2> QED BY <2>1, <2>2
<1>9. \A i \in 1..N :
          /\ Writes(q[i]) <=> ~(i <= n) \/ ~Pushes(e)
          /\ q[i].rd = IF i = N THEN 2 ELSE IF ~(i <= n) THEN 10
                       ELSE IF Pushes(e) THEN 0 ELSE Zcmp!SREGN[n + 1 - i]
          /\ Writes(q[i]) =>
                 /\ q[i].rd # 7 /\ q[i].rd # 0
                 /\ \A k \in 1..N : Writes(q[k]) /\ q[k].rd = q[i].rd => k = i
    BY <1>2, <1>3, WritersAre DEF Writers
<1>10. SpFields(q[N], e)
    BY <1>2, <1>3 DEF Numbered
<1>11. case \in Nat \ {0} /\ regs[0] = 0 /\ regs[7] = 0
    BY DEF SetUpFor
<1>12. ASSUME NEW w, Wrote(w, q, N)
       PROVE  /\ Target(w, q[N]) # Zcmp!CmPc(case) + 2
              /\ q[N].ret => Target(w, q[N]) # 0
    <2>1. CASE Pushes(e)
        <3>1. q[N].rs2 = 0
            BY <1>10, <2>1 DEF SpFields
        <3>2. 0 \notin DOMAIN w
            <4>1. SUFFICES ASSUME 0 \in DOMAIN w PROVE FALSE
                OBVIOUS
            <4>2. PICK i \in 1..N : Writes(q[i]) /\ q[i].rd = 0
                BY <1>12, <4>1 DEF Wrote
            <4> QED BY <1>9, <4>2
        <3>3. Target(w, q[N]) = 0
            BY <1>11, <3>1, <3>2 DEF Target
        <3>4. ~Zcmp!Returns(e)
            BY <2>1 DEF Pushes, Zcmp!Returns
        <3>5. ~q[N].ret
            BY <1>10, <3>4 DEF SpFields
        <3>6. Zcmp!CmPc(case) + 2 # 0
            BY <1>1, <1>11, LabelsDiffer
        <3> QED BY <3>3, <3>5, <3>6
    <2>2. CASE ~Pushes(e)
        <3>1. q[N].rs2 = 1
            BY <1>10, <2>2 DEF SpFields
        <3>2. n \in 1..N /\ n <= n /\ n # N /\ n + 1 - n = 1
            <4>1. N = n + 1 \/ N = n + 2
                BY <1>3
            <4>2. n \in 1..N
                BY <1>3, <4>1
            <4> QED BY <4>1, <4>2
        <3>3. Writes(q[n]) /\ q[n].rd = 1
            BY <1>9, <2>2, <3>2, SregnIs
        <3>4. \A k \in 1..N : Writes(q[k]) /\ q[k].rd = q[n].rd => k = n
            BY <1>9, <3>2, <3>3
        <3>5. 1 \in DOMAIN w /\ w[1] = StepValue(q[n])
            BY <1>12, <3>2, <3>3, <3>4, WrittenOnce
        <3>6. StepValue(q[n]) = memm[256 - 4 * n]
            BY <1>1, <1>2, <2>2, BeatLoads
        <3>7. memm[256 - 4 * n] = IF Zcmp!Returns(e) THEN Zcmp!Label77(case)
                                  ELSE Zcmp!SlotValue(case, n)
            BY <1>1, <2>2 DEF SetUpFor, Pushes, Pops, PushPop
        <3>8. Target(w, q[N]) = memm[256 - 4 * n]
            BY <3>1, <3>5, <3>6 DEF Target
        <3> QED BY <1>11, <3>7, <3>8, LabelsDiffer
    <2> QED BY <2>1, <2>2
<1>13. Shape(q, n)
    BY <1>3, <1>4, <1>6 DEF Shape
<1>14. \A i \in (n + 1)..N : /\ q[i].wb /\ ~q[i].we /\ q[i].rd # 0
                             /\ regs[q[i].rs1] \in Int \ {0}
                             /\ q[i].azero => q[i].imm = 0
    <2>1. SUFFICES ASSUME NEW i \in (n + 1)..N
                   PROVE  /\ q[i].wb /\ ~q[i].we /\ q[i].rd # 0
                          /\ regs[q[i].rs1] \in Int \ {0}
                          /\ q[i].azero => q[i].imm = 0
        OBVIOUS
    <2>2. i \in 1..N /\ ~(i <= n)
        BY <1>1
    <2>3. q[i].rd # 0
        BY <1>9, <2>2
    <2> QED BY <1>6, <1>8, <2>2, <2>3
<1>15. n < N
    BY <1>3
<1>16. \A i, j \in 1..n : q[i].imm = q[j].imm => i = j
    <2>1. PICK c \in Int : c = IF Pushes(e) THEN 0 ELSE Zcmp!Adjust(e)
        BY AdjustIs DEF PushPop
    <2>2. \A i \in 1..n : q[i].imm = c - 4 * i
        BY <1>2, <2>1 DEF Numbered, BeatFields
    <2> QED BY <1>1, <2>1, <2>2
<1>17. \A i, j \in 1..N : q[i].we => ~q[j].ret
    <2>1. SUFFICES ASSUME NEW i \in 1..N, NEW j \in 1..N, q[i].we, q[j].ret PROVE FALSE
        OBVIOUS
    <2>2. i \in 1..n /\ j = N
        BY <1>5, <1>6, <2>1
    <2>3. Pushes(e) /\ Zcmp!Returns(e)
        BY <1>2, <1>10, <2>1, <2>2 DEF Numbered, BeatFields, SpFields
    <2> QED BY <2>3 DEF Pushes, Zcmp!Returns
<1> QED BY <1>1, <1>3, <1>6, <1>7, <1>8, <1>9, <1>11, <1>12, <1>13, <1>14, <1>15, <1>16, <1>17
        DEF Telling

MoveFields(q, e) ==
    /\ q \in Seq(MicroOp) /\ Len(q) = 2
    /\ \A i \in {1, 2} :
           /\ q[i].mem = FALSE /\ q[i].we = FALSE /\ q[i].wb = TRUE
           /\ q[i].rs2 = 0 /\ q[i].imm = 0 /\ q[i].azero = FALSE
           /\ q[i].last = (i = 2) /\ q[i].ret = FALSE
    /\ q[1].rd = (IF e.op = "cm.mva01s" THEN 10 ELSE e.a)
    /\ q[1].rs1 = (IF e.op = "cm.mva01s" THEN e.a ELSE 10)
    /\ q[2].rd = (IF e.op = "cm.mva01s" THEN 11 ELSE e.b)
    /\ q[2].rs1 = (IF e.op = "cm.mva01s" THEN e.b ELSE 11)

LEMMA MovesByNumber ==
    ASSUME NEW e, TwoMoves(e) PROVE MoveFields(Zcmp!Sequencer(e), e)
<1> PICK q : q = Zcmp!Sequencer(e)
    OBVIOUS
<1>1. q \in Seq(MicroOp) /\ Len(q) = 2
    BY MoveSteps
<1>2. PICK a, b, c, d : /\ a = (IF e.op = "cm.mva01s" THEN 10 ELSE e.a)
                        /\ b = (IF e.op = "cm.mva01s" THEN e.a ELSE 10)
                        /\ c = (IF e.op = "cm.mva01s" THEN 11 ELSE e.b)
                        /\ d = (IF e.op = "cm.mva01s" THEN e.b ELSE 11)
    OBVIOUS
<1>3. q[1] = MoveStep(a, b, FALSE) /\ q[2] = MoveStep(c, d, TRUE)
    <2>1. /\ q[1] = IF e.op = "cm.mva01s" THEN MoveStep(10, e.a, FALSE)
                                          ELSE MoveStep(e.a, 10, FALSE)
          /\ q[2] = IF e.op = "cm.mva01s" THEN MoveStep(11, e.b, TRUE)
                                          ELSE MoveStep(e.b, 11, TRUE)
        BY MoveSteps
    <2> QED BY <1>2, <2>1
<1>4. /\ q[1].mem = FALSE /\ q[1].we = FALSE /\ q[1].wb = TRUE /\ q[1].rs2 = 0 /\ q[1].imm = 0
      /\ q[1].azero = FALSE /\ q[1].last = FALSE /\ q[1].ret = FALSE /\ q[1].rd = a /\ q[1].rs1 = b
    BY <1>3 DEF MoveStep
<1>5. /\ q[2].mem = FALSE /\ q[2].we = FALSE /\ q[2].wb = TRUE /\ q[2].rs2 = 0 /\ q[2].imm = 0
      /\ q[2].azero = FALSE /\ q[2].last = TRUE /\ q[2].ret = FALSE /\ q[2].rd = c /\ q[2].rs1 = d
    BY <1>3 DEF MoveStep
<1>6. \A i \in {1, 2} :
          /\ q[i].mem = FALSE /\ q[i].we = FALSE /\ q[i].wb = TRUE
          /\ q[i].rs2 = 0 /\ q[i].imm = 0 /\ q[i].azero = FALSE
          /\ q[i].last = (i = 2) /\ q[i].ret = FALSE
    BY <1>4, <1>5
<1> QED BY <1>1, <1>2, <1>4, <1>5, <1>6 DEF MoveFields

\* Which registers the moves write, and from which.
LEMMA MoveRegs ==
    ASSUME NEW e, TwoMoves(e), SetUpFor(e), NEW q, q = Zcmp!Sequencer(e)
    PROVE  /\ q[1].rd \notin {0, 7} /\ q[2].rd \notin {0, 7} /\ q[1].rd # q[2].rd
           /\ regs[q[1].rs1] \in Int \ {0} /\ regs[q[2].rs1] \in Int \ {0}
<1>1. e.a \notin {0, 7} /\ e.b \notin {0, 7}
    BY SregnIs DEF TwoMoves, Kept
<1>2. /\ q[1].rd = (IF e.op = "cm.mva01s" THEN 10 ELSE e.a)
      /\ q[1].rs1 = (IF e.op = "cm.mva01s" THEN e.a ELSE 10)
      /\ q[2].rd = (IF e.op = "cm.mva01s" THEN 11 ELSE e.b)
      /\ q[2].rs1 = (IF e.op = "cm.mva01s" THEN e.b ELSE 11)
    BY MovesByNumber DEF MoveFields
<1>3. CASE e.op = "cm.mva01s"
    <2>1. regs[e.a] \in Int \ {0} /\ regs[e.b] \in Int \ {0}
        BY <1>3 DEF SetUpFor
    <2> QED BY <1>2, <1>3, <2>1
<1>4. CASE e.op = "cm.mvsa01"
    <2>1. regs[10] \in Int \ {0} /\ regs[11] \in Int \ {0} /\ e.a # e.b
        BY <1>4 DEF SetUpFor, Pushes, Pops, TwoMoves
    <2>2. e.op # "cm.mva01s"
        BY <1>4
    <2> QED BY <1>1, <1>2, <2>1, <2>2
<1> QED BY <1>3, <1>4 DEF TwoMoves

LEMMA MovesTell ==
    ASSUME NEW e, TwoMoves(e), SetUpFor(e), NEW q, q = Zcmp!Sequencer(e)
    PROVE  Telling(q, 0)
<1>1. q \in Seq(MicroOp) /\ Len(q) = 2
    BY MovesByNumber DEF MoveFields
<1>2. \A i \in {1, 2} :
          /\ q[i].mem = FALSE /\ q[i].we = FALSE /\ q[i].wb = TRUE
          /\ q[i].rs2 = 0 /\ q[i].imm = 0 /\ q[i].azero = FALSE
          /\ q[i].last = (i = 2) /\ q[i].ret = FALSE
    BY MovesByNumber, Zenon DEF MoveFields
<1>3. /\ q[1].rd \notin {0, 7} /\ q[2].rd \notin {0, 7} /\ q[1].rd # q[2].rd
      /\ regs[q[1].rs1] \in Int \ {0} /\ regs[q[2].rs1] \in Int \ {0}
    BY MoveRegs
<1>4. \A i : i \in 1..2 <=> i \in {1, 2}
    OBVIOUS
<1>5. case \in Nat \ {0} /\ regs[0] = 0 /\ regs[7] = 0
    BY DEF SetUpFor
<1>6. regs[2] \in Int
    <2>1. 2 \in Zcmp!Registers
        BY DEF Zcmp!Registers, Zcmp!SP
    <2> QED BY <2>1 DEF SetUpFor
<1>7. Shape(q, 0)
    <2>1. \A i \in 1..2 : ~q[i].mem /\ ~(i <= 0) /\ ~q[i].ret
        BY <1>2, <1>4
    <2> QED BY <1>1, <2>1 DEF Shape
<1>8. \A i \in 1..2 : Writes(q[i])
    BY <1>2, <1>3, <1>4 DEF Writes
<1>9. ASSUME NEW w, Wrote(w, q, 2)
      PROVE  /\ Target(w, q[2]) # Zcmp!CmPc(case) + 2
             /\ q[2].ret => Target(w, q[2]) # 0
    <2>1. 0 \notin DOMAIN w
        <3>1. SUFFICES ASSUME 0 \in DOMAIN w PROVE FALSE
            OBVIOUS
        <3>2. PICK i \in 1..2 : q[i].rd = 0
            BY <1>9, <3>1 DEF Wrote
        <3> QED BY <1>3, <1>4, <3>2
    <2>2. Target(w, q[2]) = 0 /\ ~q[2].ret
        BY <1>2, <1>5, <2>1 DEF Target
    <2>3. 1 \in 1..13
        OBVIOUS
    <2>4. Zcmp!CmPc(case) + 2 # 0
        BY <1>5, <2>3, LabelsDiffer
    <2> QED BY <2>2, <2>4
<1>10. \A i \in 1..2 : (q[i].last <=> i = 2) /\ ~q[i].ret
    BY <1>2, <1>4
<1>11. \A i \in 1..2 : /\ q[i].wb /\ ~q[i].we /\ q[i].rd # 0
                       /\ regs[q[i].rs1] \in Int \ {0}
                       /\ ~q[i].azero
    BY <1>2, <1>3, <1>4
<1>12. \A i \in 1..2 : /\ q[i].rd # 7
                       /\ \A k \in 1..2 : Writes(q[k]) /\ q[k].rd = q[i].rd => k = i
    BY <1>3, <1>4
<1>13. \A i : i \in (0 + 1)..2 <=> i \in 1..2
    OBVIOUS
<1>14. 0 < 2 /\ \A i \in 1..0 : FALSE
    OBVIOUS
<1> QED BY <1>1, <1>5, <1>6, <1>7, <1>9, <1>10, <1>11, <1>12, <1>13, <1>14 DEF Telling

\* The writes of a sequence are those of a function that has each of them.
LEMMA WroteIs ==
    ASSUME NEW q, NEW n \in Nat, NEW w, Wrote(w, q, n), NEW v, v = [r \in DOMAIN v |-> v[r]],
           \A r \in DOMAIN v : \E i \in 1..n : Writes(q[i]) /\ q[i].rd = r,
           \A i \in 1..n : Writes(q[i]) => q[i].rd \in DOMAIN v /\ v[q[i].rd] = StepValue(q[i])
    PROVE  w = v
<1>1. DOMAIN w = DOMAIN v
    BY DEF Wrote
<1>2. ASSUME NEW r \in DOMAIN w PROVE w[r] = v[r]
    <2>1. PICK i \in 1..n : Writes(q[i]) /\ q[i].rd = r /\ w[r] = StepValue(q[i])
        BY DEF Wrote
    <2> QED BY <2>1
<1>3. w = [r \in DOMAIN w |-> w[r]]
    BY DEF Wrote
<1> QED BY <1>1, <1>2, <1>3

\* What a pop writes.
PopWrote(v, e) ==
    /\ v = [r \in DOMAIN v |-> v[r]]
    /\ DOMAIN v = {2} \cup Zcmp!Saved(e.a) \cup (IF e.op = "cm.popretz" THEN {10} ELSE {})
    /\ v[2] = Zcmp!SpikeSp(e)
    /\ 10 \in DOMAIN v => v[10] = 0
    /\ \A r \in DOMAIN v \ {2, 10} :
           v[r] = memm[Zcmp!Slot(e, CHOOSE k \in 1..e.a : Zcmp!SREGN[e.a + 1 - k] = r)]

LEMMA PopWritesAre ==
    ASSUME NEW e, PushPop(e), ~Pushes(e) PROVE PopWrote(Zcmp!SpikeWrites(e), e)
<1>1. e.op # "cm.push" /\ e.op # "cm.mva01s" /\ e.op # "cm.mvsa01"
    BY DEF Pushes, PushPop
<1>2. PICK D : D = {2} \cup Zcmp!Saved(e.a) \cup (IF e.op = "cm.popretz" THEN {10} ELSE {})
    OBVIOUS
<1>3. Zcmp!SpikeWrites(e)
          = [r \in {2} \cup Zcmp!Saved(e.a) \cup (IF e.op = "cm.popretz" THEN {10} ELSE {}) |->
                      IF r = 2 THEN Zcmp!SpikeSp(e)
                      ELSE IF r = 10 THEN 0
                      ELSE memm[Zcmp!Slot(e, CHOOSE k \in 1..e.a : Zcmp!SREGN[e.a + 1 - k] = r)]]
    BY <1>1, ZenonT(30) DEF Zcmp!SpikeWrites, Zcmp!SP, Zcmp!A0
<1>4. PICK v : v = Zcmp!SpikeWrites(e)
    OBVIOUS
<1>5. v = [r \in D |-> IF r = 2 THEN Zcmp!SpikeSp(e)
                      ELSE IF r = 10 THEN 0
                      ELSE memm[Zcmp!Slot(e, CHOOSE k \in 1..e.a : Zcmp!SREGN[e.a + 1 - k] = r)]]
    BY <1>2, <1>3, <1>4
<1>6. DOMAIN v = D /\ v = [r \in D |-> v[r]]
    BY <1>5
<1>7. v[2] = Zcmp!SpikeSp(e) /\ (10 \in D => v[10] = 0)
    BY <1>2, <1>5
<1>8. \A r \in D \ {2, 10} :
          v[r] = memm[Zcmp!Slot(e, CHOOSE k \in 1..e.a : Zcmp!SREGN[e.a + 1 - k] = r)]
    BY <1>5
<1> QED BY <1>2, <1>4, <1>6, <1>7, <1>8 DEF PopWrote

LEMMA PushPopWrites ==
    ASSUME NEW e, PushPop(e), SetUpFor(e), NEW q, Numbered(q, e, e.a),
           NEW w, Wrote(w, q, Len(q))
    PROVE  w = Zcmp!SpikeWrites(e)
<1>1. PICK n \in 1..13 : n = e.a
    BY DEF PushPop
<1>2. PICK N \in Nat : N = Len(q) /\ N = IF e.op = "cm.popretz" THEN n + 2 ELSE n + 1
    BY <1>1 DEF Numbered, SizeIs
<1>3. PICK v : v = Zcmp!SpikeWrites(e)
    OBVIOUS
<1>4. \A i \in 1..N :
          /\ Writes(q[i]) <=> ~(i <= n) \/ ~Pushes(e)
          /\ q[i].rd = IF i = N THEN 2 ELSE IF ~(i <= n) THEN 10
                       ELSE IF Pushes(e) THEN 0 ELSE Zcmp!SREGN[n + 1 - i]
    <2>1. Writers(q, e, e.a)
        BY WritersAre
    <2> QED BY <1>1, <1>2, <2>1 DEF Writers
<1>5. PICK d \in 0..112 : d = Zcmp!Adjust(e)
    BY AdjustIs DEF PushPop
<1>6. regs[2] \in Int
    BY <1>5 DEF SetUpFor, Pushes, Pops, PushPop
<1>7. StepValue(q[N]) = IF Pushes(e) THEN regs[2] - d ELSE regs[2] + d
    <2>1. /\ q[N].mem = FALSE /\ q[N].rs1 = 2 /\ q[N].azero = FALSE
          /\ q[N].imm = IF Pushes(e) THEN -d ELSE d
        BY <1>2, <1>5 DEF Numbered, SpFields
    <2>2. StepValue(q[N]) = regs[2] + q[N].imm
        BY <2>1 DEF StepValue
    <2> QED BY <1>6, <2>1, <2>2
<1>8. Zcmp!SpikeSp(e) = StepValue(q[N])
    BY <1>5, <1>7 DEF Zcmp!SpikeSp, Zcmp!SP, Pushes
<1>9. CASE Pushes(e)
    <2>1. v = [r \in {2} |-> Zcmp!SpikeSp(e)]
        BY <1>3, <1>9, Zenon DEF Pushes, Zcmp!SpikeWrites, Zcmp!SP
    <2>2. N \in 1..N /\ ~(N <= n) /\ \A i \in 1..N : ~(i <= n) => i = N
        <3>1. e.op # "cm.popretz"
            BY <1>9 DEF Pushes
        <3> QED BY <1>2, <3>1
    <2>3. DOMAIN v = {2} /\ v[2] = StepValue(q[N]) /\ v = [r \in DOMAIN v |-> v[r]]
        BY <1>8, <2>1
    <2>4. \A i \in 1..N : Writes(q[i]) => q[i].rd \in DOMAIN v /\ v[q[i].rd] = StepValue(q[i])
        BY <1>4, <1>9, <2>2, <2>3
    <2>5. \A r \in DOMAIN v : \E i \in 1..N : Writes(q[i]) /\ q[i].rd = r
        BY <1>4, <2>2, <2>3
    <2> QED BY <1>2, <1>3, <2>3, <2>4, <2>5, WroteIs
<1>10. CASE ~Pushes(e)
    <2>1. PICK D : D = {2} \cup Zcmp!Saved(n) \cup (IF e.op = "cm.popretz" THEN {10} ELSE {})
        OBVIOUS
    <2>2. PopWrote(v, e)
        BY <1>3, <1>10, PopWritesAre
    <2>3. DOMAIN v = D
        BY <1>1, <2>1, <2>2 DEF PopWrote
    <2>4. \A i \in 1..n : n + 1 - i \in 1..n /\ n + 1 - i \in 1..13
        <3>1. \A i \in 1..n : n + 1 - i \in 1..n
            OBVIOUS
        <3>2. \A i \in 1..n : i \in 1..13
            OBVIOUS
        <3> QED BY <3>1, <3>2
    <2>5. ASSUME NEW i \in 1..n
          PROVE  LET r == Zcmp!SREGN[n + 1 - i] IN r \in D /\ v[r] = StepValue(q[i])
        <3>1. PICK r : r = Zcmp!SREGN[n + 1 - i]
            OBVIOUS
        <3>2. r \notin {2, 10}
            BY <2>4, <3>1, SregnIs
        <3>3. r \in D
            BY <2>1, <2>4, <3>1 DEF Zcmp!Saved
        <3>4. \A k \in 1..n : Zcmp!SREGN[n + 1 - k] = r <=> k = i
            <4>1. SUFFICES ASSUME NEW k \in 1..n, Zcmp!SREGN[n + 1 - k] = r PROVE k = i
                BY <3>1
            <4>2. n + 1 - k \in 1..13 /\ n + 1 - i \in 1..13
                BY <2>4
            <4>3. n + 1 - k = n + 1 - i
                BY <3>1, <4>1, <4>2, SregnIs
            <4> QED BY <1>1, <4>3
        <3>5. (CHOOSE k \in 1..e.a : Zcmp!SREGN[e.a + 1 - k] = r) = i
            BY <1>1, <3>4
        <3>6. v[r] = memm[Zcmp!Slot(e, i)]
            BY <2>2, <2>3, <3>2, <3>3, <3>5 DEF PopWrote
        <3>7. Zcmp!Slot(e, i) = 256 - 4 * i
            <4>1. regs[2] = 256 - d
                BY <1>5, <1>10 DEF SetUpFor, Pushes, Pops, PushPop
            <4>2. Zcmp!Slot(e, i) = regs[2] - 4 * i + d
                BY <1>5, <1>10 DEF Zcmp!Slot, Zcmp!SP, Pushes
            <4> QED BY <1>5, <4>1, <4>2
        <3>8. StepValue(q[i]) = memm[256 - 4 * i]
            BY <1>1, <1>10, BeatLoads
        <3> QED BY <3>1, <3>3, <3>6, <3>7, <3>8
    <2>6. 2 \in D /\ v[2] = StepValue(q[N])
        BY <1>8, <2>1, <2>2 DEF PopWrote
    <2>7. ASSUME NEW i \in 1..N, ~(i <= n), i # N
          PROVE  10 \in D /\ v[10] = StepValue(q[i])
        <3>1. /\ e.op = "cm.popretz"
              /\ q[i].mem = FALSE /\ q[i].imm = 0 /\ q[i].azero = TRUE
            BY <1>1, <1>2, <2>7 DEF Numbered, ZeroFields
        <3>2. StepValue(q[i]) = 0
            BY <3>1 DEF StepValue
        <3>3. 10 \in D
            BY <2>1, <3>1
        <3> QED BY <2>2, <2>3, <3>2, <3>3 DEF PopWrote
    <2>8. \A i \in 1..N : i <= n => i \in 1..n /\ i # N
        BY <1>2
    <2>9. \A i \in 1..N : Writes(q[i]) => q[i].rd \in DOMAIN v /\ v[q[i].rd] = StepValue(q[i])
        BY <1>4, <1>10, <2>3, <2>5, <2>6, <2>7, <2>8
    <2>10. ASSUME NEW r \in DOMAIN v PROVE \E i \in 1..N : Writes(q[i]) /\ q[i].rd = r
        <3>1. CASE r = 2
            <4>1. N \in 1..N
                BY <1>2
            <4> QED BY <1>4, <1>10, <3>1, <4>1
        <3>2. CASE r \in Zcmp!Saved(n)
            <4>1. PICK j \in 1..n : r = Zcmp!SREGN[j]
                BY <3>2 DEF Zcmp!Saved
            <4>2. PICK i \in 1..n : i = n + 1 - j
                OBVIOUS
            <4>3. i \in 1..N /\ i <= n /\ i # N /\ n + 1 - i = j
                BY <1>2, <4>2
            <4> QED BY <1>4, <1>10, <4>1, <4>3
        <3>3. CASE e.op = "cm.popretz" /\ r = 10
            <4>1. N = n + 2
                BY <1>2, <3>3
            <4>2. n + 1 \in 1..N /\ n + 1 # N /\ ~(n + 1 <= n)
                BY <4>1
            <4> QED BY <1>4, <3>3, <4>2
        <3> QED BY <2>1, <2>3, <3>1, <3>2, <3>3
    <2>11. v = [r \in DOMAIN v |-> v[r]]
        BY <2>2 DEF PopWrote
    <2> QED BY <1>2, <1>3, <2>9, <2>10, <2>11, WroteIs
<1> QED BY <1>9, <1>10

LEMMA PushPopAccesses ==
    ASSUME NEW e, PushPop(e), SetUpFor(e), NEW q, Numbered(q, e, e.a)
    PROVE  Beats(q, e.a) = Zcmp!SpikeMem(e)
<1>1. PICK n \in 1..13 : n = e.a
    BY DEF PushPop
<1>2. ~Zcmp!Moves(e)
    BY DEF Zcmp!Moves, PushPop
<1>3. Zcmp!SpikeMem(e)
          = [k \in 1..n |-> [addr |-> Zcmp!Slot(e, k),
                             data |-> IF e.op = "cm.push" THEN regs[Zcmp!SREGN[n + 1 - k]] ELSE -1]]
    BY <1>1, <1>2, Zenon DEF Zcmp!SpikeMem, Zcmp!None
<1>4. PICK d \in 0..112 : d = Zcmp!Adjust(e)
    BY AdjustIs DEF PushPop
<1>5. regs[2] \in Int
    BY <1>4 DEF SetUpFor, Pushes, Pops, PushPop
<1>6. ASSUME NEW k \in 1..n
      PROVE  Access(q[k]) = [addr |-> Zcmp!Slot(e, k),
                             data |-> IF e.op = "cm.push" THEN regs[Zcmp!SREGN[n + 1 - k]] ELSE -1]
    <2>1. /\ q[k].we = Pushes(e)
          /\ q[k].rs2 = IF Pushes(e) THEN Zcmp!SREGN[n + 1 - k] ELSE 0
          /\ q[k].imm = (IF Pushes(e) THEN 0 ELSE d) - 4 * k
        BY <1>1, <1>4 DEF Numbered, BeatFields
    <2>2. Zcmp!Slot(e, k) = regs[2] - 4 * k + (IF Pushes(e) THEN 0 ELSE d)
        BY <1>4 DEF Zcmp!Slot, Zcmp!SP, Pushes
    <2>3. regs[2] + q[k].imm = Zcmp!Slot(e, k)
        BY <1>4, <1>5, <2>1, <2>2
    <2>4. (IF q[k].we THEN regs[q[k].rs2] ELSE -1)
              = IF e.op = "cm.push" THEN regs[Zcmp!SREGN[n + 1 - k]] ELSE -1
        BY <2>1 DEF Pushes
    <2> QED BY <2>3, <2>4, Zenon DEF Access
<1> QED BY <1>1, <1>3, <1>6, Zenon DEF Beats

LEMMA MoveWrites ==
    ASSUME NEW e, TwoMoves(e), SetUpFor(e), NEW q, MoveFields(q, e), NEW w, Wrote(w, q, 2)
    PROVE  w = Zcmp!SpikeWrites(e)
<1>1. \A i : i \in 1..2 <=> i = 1 \/ i = 2
    OBVIOUS
<1>2. PICK v : v = Zcmp!SpikeWrites(e)
    OBVIOUS
<1>3. e.a \notin {0, 7, 10, 11} /\ e.b \notin {0, 7, 10, 11}
    BY SregnIs DEF TwoMoves, Kept
<1>4. /\ q[1].mem = FALSE /\ q[1].wb = TRUE /\ q[1].imm = 0 /\ q[1].azero = FALSE
      /\ q[2].mem = FALSE /\ q[2].wb = TRUE /\ q[2].imm = 0 /\ q[2].azero = FALSE
    BY DEF MoveFields
<1>5. CASE e.op = "cm.mva01s"
    <2>1. q[1].rd = 10 /\ q[1].rs1 = e.a /\ q[2].rd = 11 /\ q[2].rs1 = e.b
        BY <1>5 DEF MoveFields
    <2>2. v = [r \in {10, 11} |-> regs[IF r = 10 THEN e.a ELSE e.b]]
        <3>1. e.op # "cm.push"
            BY <1>5
        <3> QED BY <1>2, <1>5, <3>1, Zenon DEF Zcmp!SpikeWrites, Zcmp!A0, Zcmp!A1
    <2>3. /\ DOMAIN v = {10, 11} /\ v[10] = regs[e.a] /\ v[11] = regs[e.b]
          /\ v = [r \in DOMAIN v |-> v[r]]
        BY <2>2
    <2>4. regs[e.a] \in Int /\ regs[e.b] \in Int
        BY <1>5 DEF SetUpFor
    <2>5. /\ Writes(q[1]) /\ StepValue(q[1]) = regs[e.a]
          /\ Writes(q[2]) /\ StepValue(q[2]) = regs[e.b]
        BY <1>4, <2>1, <2>4 DEF Writes, StepValue
    <2>6. \A r \in DOMAIN v : \E i \in 1..2 : Writes(q[i]) /\ q[i].rd = r
        BY <1>1, <2>1, <2>3, <2>5
    <2>7. \A i \in 1..2 : Writes(q[i]) => q[i].rd \in DOMAIN v /\ v[q[i].rd] = StepValue(q[i])
        BY <1>1, <2>1, <2>3, <2>5
    <2> QED BY <1>2, <2>3, <2>6, <2>7, WroteIs
<1>6. CASE e.op = "cm.mvsa01"
    <2>1. q[1].rd = e.a /\ q[1].rs1 = 10 /\ q[2].rd = e.b /\ q[2].rs1 = 11
        BY <1>6 DEF MoveFields
    <2>2. v = [r \in {e.a, e.b} |-> regs[IF r = e.a THEN 10 ELSE 11]]
        <3>1. e.op # "cm.push" /\ e.op # "cm.mva01s"
            BY <1>6
        <3> QED BY <1>2, <1>6, <3>1, Zenon DEF Zcmp!SpikeWrites, Zcmp!A0, Zcmp!A1
    <2>3. e.a # e.b
        BY <1>6 DEF TwoMoves
    <2>4. /\ DOMAIN v = {e.a, e.b} /\ v[e.a] = regs[10] /\ v[e.b] = regs[11]
          /\ v = [r \in DOMAIN v |-> v[r]]
        BY <2>2, <2>3
    <2>5. regs[10] \in Int /\ regs[11] \in Int
        BY <1>6 DEF SetUpFor, Pushes, Pops
    <2>6. /\ Writes(q[1]) /\ StepValue(q[1]) = regs[10]
          /\ Writes(q[2]) /\ StepValue(q[2]) = regs[11]
        BY <1>3, <1>4, <2>1, <2>5 DEF Writes, StepValue
    <2>7. \A r \in DOMAIN v : \E i \in 1..2 : Writes(q[i]) /\ q[i].rd = r
        BY <1>1, <2>1, <2>4, <2>6
    <2>8. \A i \in 1..2 : Writes(q[i]) => q[i].rd \in DOMAIN v /\ v[q[i].rd] = StepValue(q[i])
        BY <1>1, <2>1, <2>4, <2>6
    <2> QED BY <1>2, <2>4, <2>7, <2>8, WroteIs
<1> QED BY <1>5, <1>6 DEF TwoMoves

\* The events of the sequencer are the program's.
Seen(e) == [regw |-> Zcmp!SpikeWrites(e), memb |-> Zcmp!SpikeMem(e), next |-> Zcmp!SpikeNext(e)]

LEMMA SequencerIsRight ==
    ASSUME NEW e, PushPop(e) \/ TwoMoves(e), SetUpFor(e)
    PROVE  /\ Zcmp!Events(Zcmp!Sequencer(e)) = Seen(e)
           /\ \E m : Telling(Zcmp!Sequencer(e), m)
<1>1. PICK q : q = Zcmp!Sequencer(e)
    OBVIOUS
<1>2. CASE PushPop(e)
    <2>1. Numbered(q, e, e.a) /\ Telling(q, e.a)
        BY <1>1, <1>2, StepsByNumber, PushPopTells
    <2>2. PICK w : /\ Zcmp!Events(q) = [regw |-> w, memb |-> Beats(q, e.a), next |-> Leaves(w, q)]
                   /\ Wrote(w, q, Len(q))
        BY <2>1, EventsAre DEF Telling
    <2>3. w = Zcmp!SpikeWrites(e)
        BY <1>2, <2>1, <2>2, PushPopWrites
    <2>4. Beats(q, e.a) = Zcmp!SpikeMem(e)
        BY <1>2, <2>1, PushPopAccesses
    <2>5. Leaves(w, q) = Zcmp!SpikeNext(e)
        <3>1. PICK N \in Nat : N = Len(q) /\ N > 0
            BY <2>1 DEF Numbered, SizeIs
        <3>2. /\ q[N].last = TRUE /\ q[N].ret = Zcmp!Returns(e)
              /\ q[N].rs2 = IF Pushes(e) THEN 0 ELSE 1
            BY <2>1, <3>1 DEF Numbered, SpFields
        <3>3. CASE Zcmp!Returns(e)
            <4>1. ~Pushes(e)
                BY <3>3 DEF Pushes, Zcmp!Returns
            <4>2. 1 \in DOMAIN w
                <5>1. 1 \in 1..e.a /\ Zcmp!SREGN[1] = 1
                    BY <1>2, SregnIs DEF PushPop
                <5>2. 1 \in Zcmp!Saved(e.a)
                    BY <5>1 DEF Zcmp!Saved
                <5>3. Zcmp!Saved(e.a) \subseteq DOMAIN w
                    <6>1. PopWrote(w, e)
                        BY <1>2, <2>3, <4>1, PopWritesAre
                    <6>2. DOMAIN w = {2} \cup Zcmp!Saved(e.a)
                                         \cup (IF e.op = "cm.popretz" THEN {10} ELSE {})
                        BY <6>1 DEF PopWrote
                    <6> QED BY <6>2
                <5> QED BY <5>2, <5>3
            <4>3. Leaves(w, q) = w[1]
                BY <3>1, <3>2, <3>3, <4>1, <4>2 DEF Leaves, Target
            <4>4. Zcmp!SpikeNext(e) = w[1]
                BY <2>3, <3>3, Zenon DEF Zcmp!SpikeNext, Zcmp!RA
            <4> QED BY <4>3, <4>4
        <3>4. CASE ~Zcmp!Returns(e)
            <4>1. Leaves(w, q) = Zcmp!CmPc(case) + 2
                BY <3>1, <3>2, <3>4 DEF Leaves
            <4> QED BY <3>4, <4>1, Zenon DEF Zcmp!SpikeNext
        <3> QED BY <3>3, <3>4
    <2> QED BY <1>1, <2>1, <2>2, <2>3, <2>4, <2>5 DEF Seen
<1>3. CASE TwoMoves(e)
    <2>1. MoveFields(q, e) /\ Telling(q, 0)
        BY <1>1, <1>3, MovesByNumber, MovesTell
    <2>2. Len(q) = 2 /\ Shape(q, 0)
        BY <2>1 DEF MoveFields, Telling
    <2>3. PICK w : /\ Zcmp!Events(q) = [regw |-> w, memb |-> Beats(q, 0), next |-> Leaves(w, q)]
                   /\ Wrote(w, q, 2)
        <3>1. \E w : /\ Zcmp!Events(q) = [regw |-> w, memb |-> Beats(q, 0), next |-> Leaves(w, q)]
                     /\ Wrote(w, q, Len(q))
            BY <2>2, EventsAre, Zenon
        <3> QED BY <2>2, <3>1, Zenon
    <2>4. w = Zcmp!SpikeWrites(e)
        BY <1>3, <2>1, <2>3, MoveWrites
    <2>5. Beats(q, 0) = Zcmp!SpikeMem(e)
        <3>1. Zcmp!SpikeMem(e) = <<>>
            BY <1>3 DEF Zcmp!SpikeMem, Zcmp!Moves, TwoMoves
        <3>2. Beats(q, 0) = <<>>
            BY DEF Beats
        <3> QED BY <3>1, <3>2
    <2>6. Leaves(w, q) = Zcmp!SpikeNext(e)
        <3>1. q[2].ret = FALSE
            BY <2>1 DEF MoveFields
        <3>2. Leaves(w, q) = Zcmp!CmPc(case) + 2
            BY <2>2, <3>1 DEF Leaves
        <3>3. ~Zcmp!Returns(e)
            BY <1>3 DEF Zcmp!Returns, TwoMoves
        <3> QED BY <3>2, <3>3, Zenon DEF Zcmp!SpikeNext
    <2> QED BY <1>1, <2>1, <2>3, <2>4, <2>5, <2>6 DEF Seen
<1> QED BY <1>2, <1>3

\* The program.
LEMMA DivMod ==
    ASSUME NEW a \in Nat, NEW b \in 1..15
    PROVE  /\ a % b \in 0..(b - 1) /\ a \div b \in Nat
           /\ \A c \in Nat : a < b * c => a \div b < c
           /\ a = 0 => a % b = 0 /\ a \div b = 0
<1>1. \/ b = 1 \/ b = 2 \/ b = 3 \/ b = 4 \/ b = 5 \/ b = 6 \/ b = 7 \/ b = 8 \/ b = 9 \/ b = 10
      \/ b = 11 \/ b = 12 \/ b = 13 \/ b = 14 \/ b = 15
    OBVIOUS
<1>2. CASE b = 1
    BY <1>2
<1>3. CASE b = 2
    BY <1>3
<1>4. CASE b = 3
    BY <1>4
<1>5. CASE b = 4
    BY <1>5
<1>6. CASE b = 5
    BY <1>6
<1>7. CASE b = 6
    BY <1>7
<1>8. CASE b = 7
    BY <1>8
<1>9. CASE b = 8
    BY <1>9
<1>10. CASE b = 9
    BY <1>10
<1>11. CASE b = 10
    BY <1>11
<1>12. CASE b = 11
    BY <1>12
<1>13. CASE b = 12
    BY <1>13
<1>14. CASE b = 13
    BY <1>14
<1>15. CASE b = 14
    BY <1>15
<1>16. CASE b = 15
    BY <1>16
<1> QED BY <1>1, <1>2, <1>3, <1>4, <1>5, <1>6, <1>7, <1>8, <1>9, <1>10, <1>11, <1>12, <1>13,
           <1>14, <1>15, <1>16

NumPushPops == 4 * MaxList * MaxSpimm
NumMoves == MaxMoved * (2 * MaxMoved - 1)

LEMMA SizesAre ==
    /\ MaxList \in 1..12 /\ MaxSpimm \in 1..4 /\ MaxMoved \in 1..8
    /\ NumPushPops \in Nat \ {0} /\ NumMoves \in Nat \ {0}
<1>1. MaxList \in 1..12 /\ MaxSpimm \in 1..4 /\ MaxMoved \in 1..8
    BY ToolConstants DEF ToolConstants, Zcmp!ZcmpAssumption
<1>2. \A a, b \in Nat \ {0} : a * b \in Nat \ {0}
    OBVIOUS
<1>3. 4 * MaxList \in Nat \ {0} /\ MaxSpimm \in Nat \ {0}
    BY <1>1
<1>4. MaxMoved \in Nat \ {0} /\ 2 * MaxMoved - 1 \in Nat \ {0}
    BY <1>1
<1> QED BY <1>1, <1>2, <1>3, <1>4 DEF NumPushPops, NumMoves

LEMMA PushPopsAre ==
    /\ Zcmp!PushPops \in Seq({Zcmp!PushPops[i] : i \in 1..NumPushPops})
    /\ Len(Zcmp!PushPops) = NumPushPops
    /\ \A i \in 1..NumPushPops : PushPop(Zcmp!PushPops[i])
<1>1. PICK f : f = Zcmp!PushPops
    OBVIOUS
<1>2. f = [i \in 1..NumPushPops |->
              Zcmp!Enc(Zcmp!Ops[(((i - 1) \div MaxSpimm) \div MaxList) + 1],
                       Zcmp!ListLength((((i - 1) \div MaxSpimm) % MaxList) + 1),
                       (i - 1) % MaxSpimm)]
    BY <1>1 DEF Zcmp!PushPops, NumPushPops
<1>3. ASSUME NEW i \in 1..NumPushPops PROVE PushPop(f[i])
    <2>1. PICK l, b : l = (i - 1) \div MaxSpimm /\ b = (i - 1) % MaxSpimm
        OBVIOUS
    <2>2. i - 1 \in Nat /\ MaxSpimm \in 1..15 /\ MaxList \in 1..15
        BY SizesAre
    <2>3. l \in Nat /\ b \in 0..(MaxSpimm - 1)
        BY <2>1, <2>2, DivMod
    <2>4. l < MaxList * 4
        <3>1. i - 1 < NumPushPops
            BY SizesAre
        <3>2. NumPushPops = MaxSpimm * (MaxList * 4)
            BY SizesAre DEF NumPushPops
        <3>3. MaxList * 4 \in Nat
            BY SizesAre
        <3> QED BY <2>1, <2>2, <3>1, <3>2, <3>3, DivMod
    <2>5. PICK o, m : o = l \div MaxList /\ m = l % MaxList
        OBVIOUS
    <2>6. o \in Nat /\ m \in 0..(MaxList - 1) /\ o < 4
        <3>1. o \in Nat /\ m \in 0..(MaxList - 1)
            BY <2>2, <2>3, <2>5, DivMod
        <3>2. \A c \in Nat : l < MaxList * c => l \div MaxList < c
            BY <2>2, <2>3, DivMod
        <3>3. l \div MaxList < 4
            BY <2>4, <3>2
        <3> QED BY <2>5, <3>1, <3>3
    <2>7. Zcmp!Ops[o + 1] \in {"cm.push", "cm.pop", "cm.popretz", "cm.popret"}
        <3>1. o + 1 = 1 \/ o + 1 = 2 \/ o + 1 = 3 \/ o + 1 = 4
            BY <2>6
        <3> QED BY <3>1 DEF Zcmp!Ops
    <2>8. Zcmp!ListLength(m + 1) \in 1..13
        <3>1. m + 1 \in 1..12
            BY <2>6, SizesAre
        <3> QED BY <3>1 DEF Zcmp!ListLength
    <2>9. b \in 0..3
        BY <2>3, SizesAre
    <2>10. f[i] = [op |-> Zcmp!Ops[o + 1], a |-> Zcmp!ListLength(m + 1), b |-> b]
        BY <1>2, <2>1, <2>5 DEF Zcmp!Enc
    <2> QED BY <2>7, <2>8, <2>9, <2>10 DEF PushPop
<1>4. NumPushPops \in Nat
    BY SizesAre
<1>5. f = [i \in 1..NumPushPops |-> f[i]]
    BY <1>2
<1> QED BY <1>1, <1>3, <1>4, <1>5

LEMMA MovePairsAre ==
    /\ Zcmp!MovePairs \in Seq({Zcmp!MovePairs[i] : i \in 1..NumMoves})
    /\ Len(Zcmp!MovePairs) = NumMoves
    /\ \A i \in 1..NumMoves : TwoMoves(Zcmp!MovePairs[i])
    /\ Zcmp!MovePairs[1].op = "cm.mva01s"
<1>1. PICK f, row : f = Zcmp!MovePairs /\ row = 2 * MaxMoved - 1
    OBVIOUS
<1>2. PICK k : k = [i \in 1..NumMoves |-> LET r1 == (i - 1) \div row
                                             j == (i - 1) % row
                                         IN IF j > 2 * r1 THEN j + 1 ELSE j]
    OBVIOUS
<1>3. f = [i \in 1..NumMoves |->
              Zcmp!Enc(IF k[i] % 2 = 0 THEN "cm.mva01s" ELSE "cm.mvsa01",
                       Zcmp!MvReg((i - 1) \div row), Zcmp!MvReg(k[i] \div 2))]
    BY <1>1, <1>2 DEF Zcmp!MovePairs, NumMoves
<1>4. row \in 1..15 /\ MaxMoved \in 1..8 /\ MaxMoved \in Nat /\ row * MaxMoved = NumMoves
    BY <1>1, SizesAre DEF NumMoves
<1>5. \A r \in 0..7 : Zcmp!MvReg(r) \in Kept
    <2>1. \A r \in 0..7 : r + 2 \in 2..9
        OBVIOUS
    <2> QED BY <2>1 DEF Zcmp!MvReg, Kept
<1>6. \A r, s \in 0..7 : Zcmp!MvReg(r) = Zcmp!MvReg(s) => r = s
    <2>1. SUFFICES ASSUME NEW r \in 0..7, NEW s \in 0..7, Zcmp!MvReg(r) = Zcmp!MvReg(s)
                   PROVE  r = s
        OBVIOUS
    <2>2. r + 2 \in 1..13 /\ s + 2 \in 1..13
        OBVIOUS
    <2>3. Zcmp!SREGN[r + 2] = Zcmp!SREGN[s + 2]
        BY <2>1 DEF Zcmp!MvReg
    <2>4. r + 2 = s + 2
        BY <2>2, <2>3, SregnIs
    <2> QED BY <2>4
<1>7. ASSUME NEW i \in 1..NumMoves
      PROVE  TwoMoves(f[i]) /\ (i = 1 => f[i].op = "cm.mva01s")
    <2>1. PICK x, r, j : x = i - 1 /\ r = (i - 1) \div row /\ j = (i - 1) % row
        OBVIOUS
    <2>2. x \in Nat /\ x < row * MaxMoved
        BY <1>4, <2>1, SizesAre
    <2>3. r \in Nat /\ j \in 0..(row - 1)
        BY <1>4, <2>1, <2>2, DivMod
    <2>4. r < MaxMoved
        BY <1>4, <2>1, <2>2, DivMod
    <2>5. PICK h : h = k[i]
        OBVIOUS
    <2>6. h = IF j > 2 * r THEN j + 1 ELSE j
        BY <1>2, <2>1, <2>5
    <2>7. h \in 0..15 /\ h # 2 * r + 1 /\ h < 2 * MaxMoved
        BY <1>1, <1>4, <2>3, <2>4, <2>6
    <2>8. h \div 2 \in 0..7 /\ r \in 0..7 /\ (h \div 2 = r => h % 2 = 0)
        BY <1>4, <2>3, <2>4, <2>7
    <2>9. f[i] = [op |-> IF h % 2 = 0 THEN "cm.mva01s" ELSE "cm.mvsa01",
                  a |-> Zcmp!MvReg(r), b |-> Zcmp!MvReg(h \div 2)]
        BY <1>3, <2>1, <2>5 DEF Zcmp!Enc
    <2>10. f[i].a \in Kept /\ f[i].b \in Kept
        BY <1>5, <2>8, <2>9
    <2>11. f[i].op = "cm.mvsa01" => f[i].a # f[i].b
        <3>1. SUFFICES ASSUME f[i].op = "cm.mvsa01", f[i].a = f[i].b PROVE FALSE
            OBVIOUS
        <3>2. h % 2 # 0 /\ Zcmp!MvReg(r) = Zcmp!MvReg(h \div 2)
            BY <2>9, <3>1
        <3> QED BY <1>6, <2>8, <3>2
    <2>12. f[i].op \in {"cm.mva01s", "cm.mvsa01"}
        BY <2>9
    <2>13. i = 1 => f[i].op = "cm.mva01s"
        <3>1. SUFFICES ASSUME i = 1 PROVE f[i].op = "cm.mva01s"
            OBVIOUS
        <3>2. x = 0 /\ 0 \in Nat
            BY <2>1, <3>1
        <3>3. r = 0 /\ j = 0
            BY <1>4, <2>1, <3>2, DivMod
        <3>4. h = 0
            BY <2>6, <3>3
        <3> QED BY <2>9, <3>4
    <2> QED BY <2>10, <2>11, <2>12, <2>13 DEF TwoMoves
<1>8. NumMoves \in Nat /\ 1 \in 1..NumMoves
    BY SizesAre
<1>9. f = [i \in 1..NumMoves |-> f[i]]
    BY <1>3
<1>10. Len(f) = NumMoves /\ f \in Seq({f[i] : i \in 1..NumMoves})
    BY <1>8, <1>9
<1> QED BY <1>1, <1>7, <1>8, <1>10

\* Case i of the program: pushes and pops first, then the moves.
NumCases == NumPushPops + NumMoves
CaseAt(i) == Zcmp!Cases[i]

LEMMA CasesAre ==
    /\ NumCases \in Nat /\ NumPushPops < NumCases /\ Len(Zcmp!Cases) = NumCases
    /\ DOMAIN Zcmp!Cases = 1..NumCases
    /\ \A i \in 1..NumCases : IF i <= NumPushPops THEN PushPop(CaseAt(i)) ELSE TwoMoves(CaseAt(i))
    /\ CaseAt(NumPushPops + 1).op = "cm.mva01s"
<1>1. PICK p, m : p = Zcmp!PushPops /\ m = Zcmp!MovePairs
    OBVIOUS
<1>2. PICK S : S = {p[i] : i \in 1..NumPushPops} \cup {m[i] : i \in 1..NumMoves}
    OBVIOUS
<1>3. Len(p) = NumPushPops /\ Len(m) = NumMoves
    BY <1>1, PushPopsAre, MovePairsAre
<1>4. p \in Seq(S) /\ m \in Seq(S)
    <2>1. \A i \in 1..NumPushPops : p[i] \in S
        BY <1>2
    <2>2. \A i \in 1..NumMoves : m[i] \in S
        BY <1>2
    <2>3. p \in Seq({p[i] : i \in 1..NumPushPops})
        BY <1>1, PushPopsAre
    <2>4. m \in Seq({m[i] : i \in 1..NumMoves})
        BY <1>1, MovePairsAre
    <2> QED BY <1>3, <2>1, <2>2, <2>3, <2>4
<1>5. PICK c : c = p \o m
    OBVIOUS
<1>6. /\ c \in Seq(S) /\ Len(c) = NumPushPops + NumMoves
      /\ \A i \in 1..(NumPushPops + NumMoves) :
             c[i] = IF i <= NumPushPops THEN p[i] ELSE m[i - NumPushPops]
    BY <1>3, <1>4, <1>5, ConcatProperties
<1>7. c = Zcmp!Cases
    BY <1>1, <1>5, Zenon DEF Zcmp!Cases
<1>8. NumPushPops \in Nat /\ NumMoves \in Nat \ {0}
    BY SizesAre
<1>9. \A i \in 1..NumCases : IF i <= NumPushPops THEN PushPop(c[i]) ELSE TwoMoves(c[i])
    <2>1. SUFFICES ASSUME NEW i \in 1..NumCases
                   PROVE  IF i <= NumPushPops THEN PushPop(c[i]) ELSE TwoMoves(c[i])
        OBVIOUS
    <2>2. CASE i <= NumPushPops
        <3>1. i \in 1..NumPushPops
            BY <1>8, <2>2 DEF NumCases
        <3>2. c[i] = p[i]
            BY <1>6, <2>2 DEF NumCases
        <3> QED BY <1>1, <2>2, <3>1, <3>2, PushPopsAre
    <2>3. CASE ~(i <= NumPushPops)
        <3>1. i - NumPushPops \in 1..NumMoves
            BY <1>8, <2>3 DEF NumCases
        <3>2. c[i] = m[i - NumPushPops]
            BY <1>6, <2>3 DEF NumCases
        <3> QED BY <1>1, <2>3, <3>1, <3>2, MovePairsAre
    <2> QED BY <2>2, <2>3
<1>10. c[NumPushPops + 1].op = "cm.mva01s"
    <2>1. c[NumPushPops + 1] = m[1]
        <3>1. PICK j : j = NumPushPops + 1
            OBVIOUS
        <3>2. j \in 1..(NumPushPops + NumMoves) /\ ~(j <= NumPushPops) /\ j - NumPushPops = 1
            BY <1>8, <3>1
        <3>3. c[j] = m[j - NumPushPops]
            BY <1>6, <3>2
        <3> QED BY <3>1, <3>2, <3>3
    <2> QED BY <1>1, <2>1, MovePairsAre
<1>11. NumCases \in Nat /\ NumPushPops < NumCases /\ Len(c) = NumCases
    BY <1>6, <1>8 DEF NumCases
<1>12. DOMAIN c = 1..NumCases
    BY <1>6, <1>11
<1> QED BY <1>7, <1>9, <1>10, <1>11, <1>12 DEF CaseAt

\* Where the table has its wrong step, but for an exchange that is not seen.
WrongEntry(e) == e = defect.enc /\ defect.kind \in Zcmp!StepDefects /\ ~Zcmp!OrderUnseen
DefectFits ==
    /\ defect.kind \in Zcmp!StepDefects \cup {"none", "missing", "extra"}
    /\ defect.kind \in Zcmp!StepDefects =>
           /\ defect.step \in 1..Len(Zcmp!Sequencer(defect.enc))
           /\ Zcmp!Applies(Zcmp!Sequencer(defect.enc)[defect.step], defect.kind)

\* A commit agrees with the table but for the entry that is wrong.
LEMMA AgreesUnlessWrong ==
    ASSUME NEW e, PushPop(e) \/ TwoMoves(e), SetUpFor(e), DefectFits
    PROVE  Zcmp!Agrees(e) <=> ~WrongEntry(e)
<1>1. PICK q, p : q = Zcmp!Sequencer(e) /\ p = Zcmp!Steps(e)
    OBVIOUS
<1>2. PICK m : Telling(q, m) /\ Zcmp!Events(q) = Seen(e)
    BY <1>1, SequencerIsRight
<1>3. Zcmp!Agrees(e) <=> ~Differ(Zcmp!Events(p), Seen(e))
    <2>1. PICK x, y, z : /\ x = Zcmp!SpikeWrites(e) /\ y = Zcmp!SpikeMem(e)
                         /\ z = Zcmp!SpikeNext(e)
        OBVIOUS
    <2>2. Zcmp!Agrees(e) <=> LET v == Zcmp!Events(p) IN v.regw = x /\ v.memb = y /\ v.next = z
        BY <1>1, <2>1, Zenon DEF Zcmp!Agrees, Zcmp!Expected
    <2>3. Seen(e) = [regw |-> x, memb |-> y, next |-> z]
        BY <2>1 DEF Seen
    <2>4. Seen(e).regw = x /\ Seen(e).memb = y /\ Seen(e).next = z
        BY <2>3
    <2> QED BY <2>2, <2>4 DEF Differ
<1>4. defect.kind \notin {"none", "missing", "extra"} <=> defect.kind \in Zcmp!StepDefects
    BY DEF DefectFits, Zcmp!StepDefects
<1>5. CASE WrongEntry(e)
    <2>1. p = Zcmp!Broken(q, defect.kind, defect.step)
        BY <1>1, <1>4, <1>5, Zenon DEF Zcmp!Steps, WrongEntry
    <2>2. /\ defect.step \in 1..Len(q) /\ defect.kind \in Zcmp!StepDefects
          /\ Zcmp!Applies(q[defect.step], defect.kind)
        BY <1>1, <1>5 DEF DefectFits, WrongEntry
    <2>3. defect.kind = "swap" => q[defect.step].mem /\ q[defect.step + 1].mem
        BY <1>1, <1>5, Zenon DEF WrongEntry, Zcmp!OrderUnseen
    <2>4. Differ(Zcmp!Events(p), Zcmp!Events(q))
        BY <1>2, <2>1, <2>2, <2>3, DefectTells
    <2> QED BY <1>2, <1>3, <1>5, <2>4
<1>6. ~Differ(Seen(e), Seen(e))
    BY DEF Differ
<1>7. CASE ~(e = defect.enc /\ defect.kind \in Zcmp!StepDefects)
    <2>1. p = q
        BY <1>1, <1>4, <1>7, Zenon DEF Zcmp!Steps
    <2>2. ~WrongEntry(e)
        BY <1>7 DEF WrongEntry
    <2> QED BY <1>2, <1>3, <1>6, <2>1, <2>2
<1>8. CASE e = defect.enc /\ defect.kind \in Zcmp!StepDefects /\ Zcmp!OrderUnseen
    <2>1. PICK k : k = defect.step
        OBVIOUS
    <2>2. defect.kind = "swap" /\ ~(q[k].mem /\ q[k + 1].mem)
        BY <1>1, <1>8, <2>1, Zenon DEF Zcmp!OrderUnseen
    <2>3. p = Zcmp!Broken(q, "swap", k)
        BY <1>1, <1>4, <1>8, <2>1, <2>2, Zenon DEF Zcmp!Steps
    <2>4. k \in 1..Len(q) /\ ~q[k].last
        BY <1>1, <1>8, <2>1, <2>2 DEF DefectFits, Zcmp!Applies
    <2>5. k \in 1..(Len(q) - 1)
        <3>1. Len(q) \in Nat /\ (q[k].last <=> k = Len(q))
            BY <1>2, <2>4 DEF Telling, Shape
        <3> QED BY <2>4, <3>1
    <2>6. Zcmp!Events(p) = Seen(e)
        BY <1>2, <2>2, <2>3, <2>5, SwapUnseen
    <2>7. ~WrongEntry(e)
        BY <1>8 DEF WrongEntry
    <2> QED BY <1>3, <1>6, <2>6, <2>7
<1> QED BY <1>5, <1>7, <1>8 DEF WrongEntry

\* The model of registers and memory, for any case.
ModelType ==
    /\ case \in 1..NumCases
    /\ regs \in [Zcmp!Registers -> Int] /\ memm \in [Zcmp!Stack -> Int]
    /\ regs[0] = 0 /\ regs[7] = 0

LEMMA RegistersAre ==
    /\ {0, 2, 5, 7, 10, 11} \subseteq Zcmp!Registers
    /\ \A j \in 1..13 : Zcmp!SREGN[j] \in Zcmp!Registers
    /\ Kept \subseteq Zcmp!Registers
<1>1. {0, 2, 5, 7, 10, 11} \subseteq Zcmp!Registers
    BY DEF Zcmp!Registers, Zcmp!ZERO, Zcmp!SP, Zcmp!T0, Zcmp!OTHER_REG, Zcmp!A0, Zcmp!A1
<1>2. \A j \in 1..13 : Zcmp!SREGN[j] \in Zcmp!Registers
    BY DEF Zcmp!Registers, Zcmp!Saved
<1>3. \A j \in 2..9 : j \in 1..13
    OBVIOUS
<1> QED BY <1>1, <1>2, <1>3 DEF Kept

LEMMA SeedOfPush ==
    ASSUME NEW e, PushPop(e), Pushes(e), ModelType, NEW r, r = Zcmp!SeedRegs(case, e),
           NEW s, s = Zcmp!SeedSlots(case, e)
    PROVE  /\ r \in [Zcmp!Registers -> Int] /\ s \in [Zcmp!Stack -> Int]
           /\ r[0] = 0 /\ r[7] = 0
           /\ r[2] = 256 /\ \A j \in 1..e.a : r[Zcmp!SREGN[j]] \in Nat \ {0}
<1>1. PICK n \in 1..13 : n = e.a
    BY DEF PushPop
<1>2. s = memm
    BY DEF Zcmp!SeedSlots, Pushes
<1>3. r = [x \in DOMAIN regs |->
              CASE x = 2 -> 256
                [] \E j \in 1..e.a : Zcmp!SREGN[j] = x ->
                       3000 + (CHOOSE j \in 1..e.a : Zcmp!SREGN[j] = x)
                [] OTHER -> regs[x]]
    BY SMTT(30) DEF Pushes, Zcmp!SeedRegs, Zcmp!SP, Zcmp!SP0
<1>4. DOMAIN r = Zcmp!Registers /\ r = [x \in Zcmp!Registers |-> r[x]]
    BY <1>3 DEF ModelType
<1>5. \A j \in 1..n : Zcmp!SREGN[j] \notin {0, 2, 7}
    <2>1. \A j \in 1..n : j \in 1..13
        OBVIOUS
    <2> QED BY <2>1, SregnIs
<1>6. ASSUME NEW x \in Zcmp!Registers, \E j \in 1..n : Zcmp!SREGN[j] = x
      PROVE  r[x] \in Nat \ {0}
    <2>1. PICK c : c = CHOOSE j \in 1..e.a : Zcmp!SREGN[j] = x
        OBVIOUS
    <2>2. c \in 1..n
        BY <1>1, <1>6, <2>1
    <2>3. x # 2 /\ x \in DOMAIN regs
        BY <1>5, <1>6 DEF ModelType
    <2>4. r[x] = 3000 + c
        BY <1>1, <1>3, <1>6, <2>1, <2>3
    <2> QED BY <2>2, <2>4
<1>7. ASSUME NEW x \in Zcmp!Registers, ~\E j \in 1..n : Zcmp!SREGN[j] = x
      PROVE  r[x] = IF x = 2 THEN 256 ELSE regs[x]
    BY <1>1, <1>3, <1>7 DEF ModelType
<1>8. 0 \in Zcmp!Registers /\ 2 \in Zcmp!Registers /\ 7 \in Zcmp!Registers
    BY RegistersAre
<1>9. r[0] = 0 /\ r[7] = 0 /\ r[2] = 256
    BY <1>5, <1>7, <1>8 DEF ModelType
<1>10. \A x \in Zcmp!Registers : r[x] \in Int
    BY <1>6, <1>7 DEF ModelType
<1>11. \A j \in 1..n : Zcmp!SREGN[j] \in Zcmp!Registers
    <2>1. \A j \in 1..n : j \in 1..13
        OBVIOUS
    <2> QED BY <2>1, RegistersAre
<1>12. \A j \in 1..n : r[Zcmp!SREGN[j]] \in Nat \ {0}
    BY <1>6, <1>11
<1> QED BY <1>1, <1>2, <1>4, <1>9, <1>10, <1>12 DEF ModelType

LEMMA SeedOfPop ==
    ASSUME NEW e, PushPop(e), ~Pushes(e), ModelType, NEW r, r = Zcmp!SeedRegs(case, e),
           NEW s, s = Zcmp!SeedSlots(case, e)
    PROVE  /\ r \in [Zcmp!Registers -> Int] /\ s \in [Zcmp!Stack -> Int]
           /\ r[0] = 0 /\ r[7] = 0
           /\ r[2] = 256 - Zcmp!Adjust(e)
           /\ s[256 - 4 * e.a] = IF Zcmp!Returns(e) THEN Zcmp!Label77(case)
                                 ELSE Zcmp!SlotValue(case, e.a)
<1>1. PICK n \in 1..13 : n = e.a
    BY DEF PushPop
<1>2. e.op # "cm.push" /\ ~Zcmp!Moves(e)
    BY DEF Pushes, PushPop, Zcmp!Moves
<1>3. PICK x, y, z : /\ x = 256 - Zcmp!Adjust(e) /\ y = Zcmp!SlotValue(case, n)
                     /\ z = IF e.op = "cm.popretz" THEN 9999 ELSE regs[10]
    OBVIOUS
<1>4. case \in Nat
    <2>1. NumCases \in Nat
        BY CasesAre
    <2> QED BY <2>1 DEF ModelType
<1>5. x \in Int /\ y \in Int /\ z \in Int
    <2>1. Zcmp!Adjust(e) \in 0..112
        BY AdjustIs DEF PushPop
    <2>2. regs[10] \in Int
        BY RegistersAre DEF ModelType
    <2> QED BY <1>3, <1>4, <2>1, <2>2 DEF Zcmp!SlotValue
<1>6. r = [regs EXCEPT ![2] = x, ![5] = y, ![10] = z]
    <2>1. r = [regs EXCEPT ![2] = 256 - Zcmp!Adjust(e), ![5] = Zcmp!SlotValue(case, e.a),
                           ![10] = IF e.op = "cm.popretz" THEN 9999 ELSE @]
        BY <1>2, SMTT(30) DEF Zcmp!SeedRegs, Zcmp!SP, Zcmp!SP0, Zcmp!T0, Zcmp!A0
    <2> QED BY <1>1, <1>3, <2>1
<1>7. /\ r \in [Zcmp!Registers -> Int] /\ r[2] = x /\ r[0] = regs[0] /\ r[7] = regs[7]
    BY <1>5, <1>6, RegistersAre DEF ModelType
<1>8. s = [a \in DOMAIN memm |->
              IF \E k \in 1..e.a : a = 256 - 4 * k
              THEN LET k == (256 - a) \div 4
                   IN IF Zcmp!Returns(e) /\ k = e.a THEN Zcmp!Label77(case)
                      ELSE Zcmp!SlotValue(case, k)
              ELSE memm[a]]
    BY <1>2, Zenon DEF Zcmp!SeedSlots, Zcmp!SP0
<1>9. DOMAIN s = Zcmp!Stack /\ s = [a \in Zcmp!Stack |-> s[a]]
    BY <1>8 DEF ModelType
<1>10. ASSUME NEW k \in 1..n, 256 - 4 * k \in Zcmp!Stack
       PROVE  s[256 - 4 * k] = IF Zcmp!Returns(e) /\ k = n THEN Zcmp!Label77(case)
                               ELSE Zcmp!SlotValue(case, k)
    <2>1. PICK a : a = 256 - 4 * k
        OBVIOUS
    <2>2. (256 - a) \div 4 = k
        BY <2>1
    <2>3. a \in DOMAIN memm /\ \E j \in 1..e.a : a = 256 - 4 * j
        BY <1>1, <1>10, <2>1 DEF ModelType
    <2> QED BY <1>1, <1>8, <2>1, <2>2, <2>3
<1>11. ASSUME NEW a \in Zcmp!Stack PROVE s[a] \in Int
    <2>1. CASE \E k \in 1..n : a = 256 - 4 * k
        <3>1. PICK k \in 1..n : a = 256 - 4 * k
            BY <2>1
        <3>2. s[a] = Zcmp!Label77(case) \/ s[a] = Zcmp!SlotValue(case, k)
            BY <1>10, <3>1
        <3> QED BY <1>4, <3>2 DEF Zcmp!Label77, Zcmp!CmPc, Zcmp!SlotValue
    <2>2. CASE ~\E k \in 1..n : a = 256 - 4 * k
        <3>1. s[a] = memm[a]
            BY <1>1, <1>8, <2>2 DEF ModelType
        <3> QED BY <3>1 DEF ModelType
    <2> QED BY <2>1, <2>2
<1>12. s[256 - 4 * n] = IF Zcmp!Returns(e) THEN Zcmp!Label77(case) ELSE Zcmp!SlotValue(case, n)
    <2>1. n \in 1..n /\ 256 - 4 * n \in Zcmp!Stack
        BY SlotsExist
    <2> QED BY <1>10, <2>1
<1> QED BY <1>1, <1>3, <1>7, <1>9, <1>11, <1>12 DEF ModelType

LEMMA SeedOfMoves ==
    ASSUME NEW e, TwoMoves(e), ModelType,
           e.op # "cm.mva01s" => regs[10] # 0 /\ regs[11] # 0,
           NEW r, r = Zcmp!SeedRegs(case, e), NEW s, s = Zcmp!SeedSlots(case, e)
    PROVE  /\ r \in [Zcmp!Registers -> Int] /\ s = memm
           /\ r[0] = 0 /\ r[7] = 0 /\ r[10] # 0 /\ r[11] # 0
           /\ e.op = "cm.mva01s" => r[e.a] # 0 /\ r[e.b] # 0
<1>1. Zcmp!Moves(e) /\ e.op # "cm.push"
    BY DEF TwoMoves, Zcmp!Moves
<1>2. s = memm
    BY <1>1 DEF Zcmp!SeedSlots
<1>3. {0, 7, 10, 11} \subseteq Zcmp!Registers /\ regs[10] \in Int /\ regs[11] \in Int
    BY RegistersAre DEF ModelType
<1>4. CASE e.op # "cm.mva01s"
    <2>1. r = regs
        BY <1>1, <1>4 DEF Zcmp!SeedRegs
    <2> QED BY <1>2, <1>4, <2>1 DEF ModelType
<1>5. CASE e.op = "cm.mva01s"
    <2>1. PICK a, b : a = e.a /\ b = e.b
        OBVIOUS
    <2>2. /\ a \in Zcmp!Registers /\ b \in Zcmp!Registers
          /\ a \in Nat \ {0, 7, 10, 11} /\ b \in Nat \ {0, 7, 10, 11}
        <3>1. a \in Kept /\ b \in Kept
            BY <2>1 DEF TwoMoves
        <3>2. \A j \in 2..9 : j \in 1..13
            OBVIOUS
        <3>3. \A x \in Kept : x \in Nat \ {0, 7, 10, 11}
            BY <3>2, SregnIs DEF Kept
        <3> QED BY <3>1, <3>3, RegistersAre
    <2>3. r = [regs EXCEPT ![a] = 5000 + a, ![b] = 6000 + b,
                           ![10] = IF @ = 0 THEN 7000 ELSE @, ![11] = IF @ = 0 THEN 7001 ELSE @]
        BY <1>1, <1>5, <2>1, SMTT(30) DEF Zcmp!SeedRegs, Zcmp!A0, Zcmp!A1
    <2>4. PICK u, v : u = (IF regs[10] = 0 THEN 7000 ELSE regs[10])
                      /\ v = (IF regs[11] = 0 THEN 7001 ELSE regs[11])
        OBVIOUS
    <2>5. u \in Int \ {0} /\ v \in Int \ {0}
        BY <1>3, <2>4
    <2>6. r = [regs EXCEPT ![a] = 5000 + a, ![b] = 6000 + b, ![10] = u, ![11] = v]
        BY <2>2, <2>3, <2>4 DEF ModelType
    <2>7. PICK f, g \in Int \ {0} : f = 5000 + a /\ g = 6000 + b
        BY <2>2
    <2>8. r = [regs EXCEPT ![a] = f, ![b] = g, ![10] = u, ![11] = v]
        BY <2>6, <2>7
    <2>9. /\ r \in [Zcmp!Registers -> Int] /\ r[10] = u /\ r[11] = v
          /\ r[0] = regs[0] /\ r[7] = regs[7] /\ r[b] = g
          /\ r[a] = IF a = b THEN g ELSE f
        BY <1>3, <2>2, <2>5, <2>7, <2>8 DEF ModelType
    <2> QED BY <1>2, <2>1, <2>5, <2>7, <2>9 DEF ModelType
<1> QED BY <1>4, <1>5

\* What a commit writes are numbers, and never to the two registers that stay zero.
LEMMA CommitWrites ==
    ASSUME NEW e, PushPop(e) \/ TwoMoves(e), SetUpFor(e), NEW w, w = Zcmp!SpikeWrites(e)
    PROVE  /\ \A r \in DOMAIN w : r \notin {0, 7} /\ w[r] \in Int
           /\ \A k \in DOMAIN Zcmp!SpikeMem(e) : Zcmp!SpikeMem(e)[k].data \in Int
<1>1. PICK q, m : /\ q = Zcmp!Sequencer(e) /\ Telling(q, m) /\ Zcmp!Events(q) = Seen(e)
    BY SequencerIsRight
<1>2. Shape(q, m)
    BY <1>1 DEF Telling
<1>3. PICK n \in Nat : n = Len(q) /\ m \in 0..n /\ q \in Seq(MicroOp)
    BY <1>2 DEF Shape
<1>4. PICK v : /\ Zcmp!Events(q) = [regw |-> v, memb |-> Beats(q, m), next |-> Leaves(v, q)]
               /\ Wrote(v, q, n)
    BY <1>2, <1>3, EventsAre
<1>5. v = w /\ Beats(q, m) = Zcmp!SpikeMem(e)
    BY <1>1, <1>4 DEF Seen
<1>6. ASSUME NEW i \in 1..n, Writes(q[i]) PROVE q[i].rd \notin {0, 7} /\ StepValue(q[i]) \in Int
    <2>1. q[i] \in MicroOp
        BY <1>3
    <2>2. q[i].imm \in Int
        BY <2>1 DEF MicroOp
    <2>3. q[i].rd # 7
        BY <1>1, <1>3, <1>6 DEF Telling
    <2>4. q[i].rd # 0
        BY <1>6 DEF Writes
    <2>5. CASE q[i].mem
        <3>1. StepValue(q[i]) = Zcmp!MemGet(regs[2] + q[i].imm)
            BY <2>5 DEF StepValue
        <3>2. \A a : Zcmp!MemGet(a) \in Int
            BY DEF Zcmp!MemGet, Zcmp!None, SetUpFor
        <3> QED BY <2>3, <2>4, <3>1, <3>2
    <2>6. CASE ~q[i].mem
        <3>1. i \in (m + 1)..n
            BY <1>2, <1>3, <2>6 DEF Shape
        <3>2. regs[q[i].rs1] \in Int
            BY <1>1, <1>3, <3>1 DEF Telling
        <3>3. StepValue(q[i]) = IF q[i].azero THEN q[i].imm ELSE regs[q[i].rs1] + q[i].imm
            BY <2>6 DEF StepValue
        <3> QED BY <2>2, <2>3, <2>4, <3>2, <3>3
    <2> QED BY <2>5, <2>6
<1>7. ASSUME NEW r \in DOMAIN w PROVE r \notin {0, 7} /\ w[r] \in Int
    <2>1. PICK i \in 1..n : Writes(q[i]) /\ q[i].rd = r /\ w[r] = StepValue(q[i])
        BY <1>4, <1>5 DEF Wrote
    <2> QED BY <1>6, <2>1
<1>8. ASSUME NEW k \in 1..m PROVE Beats(q, m)[k].data \in Int
    <2>1. Beats(q, m)[k] = Access(q[k])
        BY DEF Beats
    <2>2. q[k].we => regs[q[k].rs2] \in Nat \ {0}
        BY <1>1 DEF Telling
    <2> QED BY <2>1, <2>2 DEF Access
<1>9. DOMAIN Beats(q, m) = 1..m
    BY DEF Beats
<1> QED BY <1>5, <1>7, <1>8, <1>9

\* The argument registers are not zero after a move.
LEMMA MovesKeepArguments ==
    ASSUME NEW e, TwoMoves(e), SetUpFor(e), NEW w, w = Zcmp!SpikeWrites(e),
           NEW x \in {10, 11}
    PROVE  (IF x \in DOMAIN w THEN w[x] ELSE regs[x]) # 0
<1>1. CASE e.op = "cm.mva01s"
    <2>1. w = [r \in {10, 11} |-> regs[IF r = 10 THEN e.a ELSE e.b]]
        <3>1. e.op # "cm.push"
            BY <1>1
        <3> QED BY <1>1, <3>1, Zenon DEF Zcmp!SpikeWrites, Zcmp!A0, Zcmp!A1
    <2>2. regs[e.a] # 0 /\ regs[e.b] # 0
        BY <1>1 DEF SetUpFor
    <2> QED BY <2>1, <2>2
<1>2. CASE e.op = "cm.mvsa01"
    <2>1. w = [r \in {e.a, e.b} |-> regs[IF r = e.a THEN 10 ELSE 11]]
        <3>1. e.op # "cm.push" /\ e.op # "cm.mva01s"
            BY <1>2
        <3> QED BY <1>2, <3>1, Zenon DEF Zcmp!SpikeWrites, Zcmp!A0, Zcmp!A1
    <2>2. e.a \notin {10, 11} /\ e.b \notin {10, 11}
        BY SregnIs DEF TwoMoves, Kept
    <2>3. regs[10] # 0 /\ regs[11] # 0
        BY <1>2 DEF SetUpFor, Pushes, Pops
    <2> QED BY <2>1, <2>2, <2>3
<1> QED BY <1>1, <1>2 DEF TwoMoves

LEMMA CommitModel ==
    ASSUME NEW e, PushPop(e) \/ TwoMoves(e), SetUpFor(e),
           NEW w, w = Zcmp!SpikeWrites(e), NEW c, c = Zcmp!SpikeMem(e),
           NEW r, r = [x \in DOMAIN regs |-> IF x \in DOMAIN w THEN w[x] ELSE regs[x]],
           NEW s, s = [a \in DOMAIN memm |->
                          IF \E k \in DOMAIN c : c[k].addr = a /\ c[k].data # Zcmp!None
                          THEN (CHOOSE m \in {c[k] : k \in DOMAIN c} : m.addr = a).data
                          ELSE memm[a]]
    PROVE  /\ r \in [Zcmp!Registers -> Int] /\ s \in [Zcmp!Stack -> Int]
           /\ r[0] = 0 /\ r[7] = 0
           /\ TwoMoves(e) => r[10] # 0 /\ r[11] # 0
<1>1. /\ \A x \in DOMAIN w : x \notin {0, 7} /\ w[x] \in Int
      /\ \A k \in DOMAIN c : c[k].data \in Int
    BY CommitWrites
<1>2. /\ regs \in [Zcmp!Registers -> Int] /\ memm \in [Zcmp!Stack -> Int]
      /\ regs[0] = 0 /\ regs[7] = 0
    BY DEF SetUpFor
<1>3. {0, 7, 10, 11} \subseteq Zcmp!Registers
    BY RegistersAre
<1>4. r \in [Zcmp!Registers -> Int] /\ r[0] = 0 /\ r[7] = 0
    BY <1>1, <1>2, <1>3
<1>5. TwoMoves(e) => r[10] # 0 /\ r[11] # 0
    <2>1. SUFFICES ASSUME TwoMoves(e), NEW x \in {10, 11} PROVE r[x] # 0
        OBVIOUS
    <2>2. r[x] = IF x \in DOMAIN w THEN w[x] ELSE regs[x]
        BY <1>2, <1>3
    <2> QED BY <2>1, <2>2, MovesKeepArguments
<1>6. ASSUME NEW a \in Zcmp!Stack PROVE s[a] \in Int
    <2>1. CASE \E k \in DOMAIN c : c[k].addr = a /\ c[k].data # Zcmp!None
        <3>1. PICK M : M = {c[k] : k \in DOMAIN c}
            OBVIOUS
        <3>2. PICK m : m = CHOOSE y \in M : y.addr = a
            OBVIOUS
        <3>3. m \in M
            BY <2>1, <3>1, <3>2
        <3>4. m.data \in Int
            BY <1>1, <3>1, <3>3
        <3>5. s[a] = m.data
            BY <1>2, <2>1, <3>1, <3>2
        <3> QED BY <3>4, <3>5
    <2>2. CASE ~\E k \in DOMAIN c : c[k].addr = a /\ c[k].data # Zcmp!None
        <3>1. s[a] = memm[a]
            BY <1>2, <2>2
        <3> QED BY <1>2, <3>1
    <2> QED BY <2>1, <2>2
<1>7. s \in [Zcmp!Stack -> Int]
    BY <1>2, <1>6
<1> QED BY <1>4, <1>5, <1>7

\* What is known while the program is followed: the model, what has been set up, and
\* the counts of the cases that are done.
Done == IF phase \in {"report", "end"} THEN NumCases ELSE case - 1
TableKept ==
    zcmp_program = Zcmp!Cases /\ DefectFits /\ defect.enc \in Zcmp!Encodings
PhaseKept ==
    /\ phase \in {"seed", "commit", "report", "end"}
    /\ phase \in {"report", "end"} => case = NumCases
ArgumentsKept ==
    case > NumPushPops + 1 \/ (case = NumPushPops + 1 /\ phase # "seed")
        => regs[10] # 0 /\ regs[11] # 0
CountsAre(d) ==
    /\ checked \in Nat /\ checked <= d
    /\ checked = d <=> \A i \in 1..d : ~Zcmp!Lacks(CaseAt(i))
    /\ used = {CaseAt(i) : i \in {j \in 1..d : ~Zcmp!Lacks(CaseAt(j))}}
    /\ zcmp_bad \in Nat
    /\ zcmp_bad = 0 <=> \A i \in 1..d : ~WrongEntry(CaseAt(i))
VerdictKept ==
    phase = "end" =>
        (zcmp_verdict = "PASS" <=> zcmp_bad = 0 /\ Zcmp!Dumped \ used = {} /\ checked = NumCases)
ZcmpKept ==
    /\ TableKept /\ PhaseKept /\ ModelType /\ ArgumentsKept
    /\ phase = "commit" => SetUpFor(CaseAt(case))
    /\ CountsAre(Done)
    /\ VerdictKept

LEMMA ZcmpStart == ASSUME Zcmp!Init PROVE ZcmpKept
<1>1. PICK kind, e : /\ kind \in Defects /\ e \in Zcmp!Encodings
                     /\ \/ /\ kind \in {"none", "missing", "extra"}
                           /\ defect = [kind |-> kind, enc |-> e, step |-> 1]
                        \/ /\ kind \notin {"none", "missing", "extra"}
                           /\ \E k \in 1..Len(Zcmp!Sequencer(e)) :
                                 /\ Zcmp!Applies(Zcmp!Sequencer(e)[k], kind)
                                 /\ defect = [kind |-> kind, enc |-> e, step |-> k]
    BY Zenon DEF Zcmp!Init
<1>2. kind \in Zcmp!StepDefects \cup {"none", "missing", "extra"}
    BY <1>1, ToolConstants DEF ToolConstants, Zcmp!ZcmpAssumption
<1>3. DefectFits /\ defect.enc \in Zcmp!Encodings
    <2>1. CASE kind \in {"none", "missing", "extra"}
        <3>1. kind \notin Zcmp!StepDefects
            BY <2>1 DEF Zcmp!StepDefects
        <3>2. defect.kind = kind /\ defect.enc = e
            BY <1>1, <2>1
        <3> QED BY <1>1, <1>2, <3>1, <3>2 DEF DefectFits
    <2>2. CASE kind \notin {"none", "missing", "extra"}
        <3>1. PICK k \in 1..Len(Zcmp!Sequencer(e)) :
                  /\ Zcmp!Applies(Zcmp!Sequencer(e)[k], kind)
                  /\ defect = [kind |-> kind, enc |-> e, step |-> k]
            BY <1>1, <2>2
        <3>2. defect.kind = kind /\ defect.enc = e /\ defect.step = k
            BY <3>1
        <3> QED BY <1>1, <1>2, <3>1, <3>2 DEF DefectFits
    <2> QED BY <2>1, <2>2
<1>4. /\ zcmp_program = Zcmp!Cases /\ phase = "seed" /\ case = 1
      /\ regs = [r \in Zcmp!Registers |-> 0] /\ memm = [a \in Zcmp!Stack |-> -1]
      /\ checked = 0 /\ used = {} /\ zcmp_bad = 0
    BY DEF Zcmp!Init, Zcmp!None
<1>5. ModelType
    <2>1. 1 \in 1..NumCases
        <3>1. NumCases \in Nat /\ NumPushPops < NumCases /\ NumPushPops \in Nat
            BY CasesAre, SizesAre
        <3> QED BY <3>1
    <2>2. 0 \in Zcmp!Registers /\ 7 \in Zcmp!Registers
        BY RegistersAre
    <2> QED BY <1>4, <2>1, <2>2 DEF ModelType
<1>6. ArgumentsKept
    <2>1. NumPushPops \in Nat \ {0}
        BY SizesAre
    <2> QED BY <1>4, <2>1 DEF ArgumentsKept
<1>7. CountsAre(0) /\ Done = 0
    BY <1>4 DEF CountsAre, Done
<1> QED BY <1>3, <1>4, <1>5, <1>6, <1>7 DEF ZcmpKept, TableKept, PhaseKept, VerdictKept

LEMMA ZcmpSeeded == ASSUME ZcmpKept, Zcmp!Seed PROVE ZcmpKept'
<1>1. PICK e : e = CaseAt(case)
    OBVIOUS
<1>2. /\ phase = "seed" /\ phase' = "commit" /\ case' = case
      /\ zcmp_program' = zcmp_program /\ defect' = defect
      /\ checked' = checked /\ used' = used /\ zcmp_bad' = zcmp_bad
    BY DEF Zcmp!Seed
<1>3. regs' = Zcmp!SeedRegs(case, e) /\ memm' = Zcmp!SeedSlots(case, e)
    BY <1>1 DEF Zcmp!Seed, ZcmpKept, TableKept, CaseAt
<1>4. ModelType /\ case \in 1..NumCases
    BY DEF ZcmpKept, ModelType
<1>5. IF case <= NumPushPops THEN PushPop(e) ELSE TwoMoves(e)
    BY <1>1, <1>4, CasesAre
<1>6. NumPushPops \in Nat /\ NumCases \in Nat /\ case \in Nat \ {0}
    <2>1. NumPushPops \in Nat /\ NumCases \in Nat
        BY CasesAre, SizesAre
    <2> QED BY <1>4, <2>1
<1>7. /\ ModelType' /\ SetUpFor(e)'
      /\ ~(case <= NumPushPops) => regs'[10] # 0 /\ regs'[11] # 0
    <2>1. CASE case <= NumPushPops /\ Pushes(e)
        <3>1. /\ regs' \in [Zcmp!Registers -> Int] /\ memm' \in [Zcmp!Stack -> Int]
              /\ regs'[0] = 0 /\ regs'[7] = 0
              /\ regs'[2] = 256 /\ \A j \in 1..e.a : regs'[Zcmp!SREGN[j]] \in Nat \ {0}
            BY <1>3, <1>4, <1>5, <2>1, SeedOfPush
        <3>2. ~Pops(e) /\ e.op # "cm.mva01s"
            BY <2>1 DEF Pops, Pushes
        <3> QED BY <1>2, <1>4, <1>6, <2>1, <3>1, <3>2 DEF ModelType, SetUpFor, Pushes, Pops
    <2>2. CASE case <= NumPushPops /\ ~Pushes(e)
        <3>1. /\ regs' \in [Zcmp!Registers -> Int] /\ memm' \in [Zcmp!Stack -> Int]
              /\ regs'[0] = 0 /\ regs'[7] = 0
              /\ regs'[2] = 256 - Zcmp!Adjust(e)
              /\ memm'[256 - 4 * e.a] = IF Zcmp!Returns(e) THEN Zcmp!Label77(case)
                                        ELSE Zcmp!SlotValue(case, e.a)
            BY <1>3, <1>4, <1>5, <2>2, SeedOfPop
        <3>2. Pops(e) /\ e.op # "cm.mva01s"
            BY <1>5, <2>2 DEF Pops, Pushes, PushPop
        <3> QED BY <1>2, <1>4, <1>6, <2>2, <3>1, <3>2 DEF ModelType, SetUpFor
    <2>3. CASE ~(case <= NumPushPops)
        <3>1. e.op # "cm.mva01s" => regs[10] # 0 /\ regs[11] # 0
            <4>1. SUFFICES ASSUME e.op # "cm.mva01s" PROVE regs[10] # 0 /\ regs[11] # 0
                OBVIOUS
            <4>2. case # NumPushPops + 1
                BY <1>1, <4>1, CasesAre
            <4>3. case > NumPushPops + 1
                BY <1>6, <2>3, <4>2
            <4> QED BY <4>3 DEF ZcmpKept, ArgumentsKept
        <3>2. /\ regs' \in [Zcmp!Registers -> Int] /\ memm' = memm
              /\ regs'[0] = 0 /\ regs'[7] = 0 /\ regs'[10] # 0 /\ regs'[11] # 0
              /\ e.op = "cm.mva01s" => regs'[e.a] # 0 /\ regs'[e.b] # 0
            BY <1>3, <1>4, <1>5, <2>3, <3>1, SeedOfMoves
        <3>3. ~Pushes(e) /\ ~Pops(e) /\ e.a \in Zcmp!Registers /\ e.b \in Zcmp!Registers
            BY <1>5, <2>3, RegistersAre DEF Pushes, Pops, TwoMoves
        <3>4. 10 \in Zcmp!Registers /\ 11 \in Zcmp!Registers
            BY RegistersAre
        <3>5. /\ regs'[10] \in Int \ {0} /\ regs'[11] \in Int \ {0}
              /\ e.op = "cm.mva01s" => regs'[e.a] \in Int \ {0} /\ regs'[e.b] \in Int \ {0}
            BY <3>2, <3>3, <3>4
        <3>6. memm' \in [Zcmp!Stack -> Int]
            BY <1>4, <3>2 DEF ModelType
        <3> QED BY <1>2, <1>4, <1>6, <3>2, <3>3, <3>5, <3>6 DEF ModelType, SetUpFor
    <2> QED BY <2>1, <2>2, <2>3
<1>8. TableKept'
    BY <1>2 DEF ZcmpKept, TableKept, DefectFits
<1>9. PhaseKept' /\ VerdictKept'
    BY <1>2 DEF PhaseKept, VerdictKept
<1>10. ArgumentsKept'
    BY <1>2, <1>6, <1>7 DEF ArgumentsKept
<1>11. Done' = Done
    BY <1>2 DEF Done
<1>12. CountsAre(Done)'
    <2>1. CountsAre(Done)
        BY DEF ZcmpKept
    <2> QED BY <1>2, <1>11, <2>1 DEF CountsAre, Zcmp!Lacks, WrongEntry, Zcmp!OrderUnseen
<1> QED BY <1>1, <1>2, <1>7, <1>8, <1>9, <1>10, <1>12 DEF ZcmpKept, CaseAt

LEMMA ZcmpCounted ==
    ASSUME NEW d \in Nat, CountsAre(d), DefectFits, defect' = defect,
           NEW e, e = CaseAt(d + 1),
           IF ~Zcmp!Lacks(e)
           THEN /\ checked' = checked + 1 /\ used' = used \cup {e}
                /\ zcmp_bad' = IF WrongEntry(e) THEN zcmp_bad + 1 ELSE zcmp_bad
           ELSE checked' = checked /\ used' = used /\ zcmp_bad' = zcmp_bad
    PROVE  CountsAre(d + 1)'
<1>1. \A i : i \in 1..(d + 1) <=> i \in 1..d \/ i = d + 1
    OBVIOUS
<1>2. \A x : Zcmp!Lacks(x)' = Zcmp!Lacks(x) /\ WrongEntry(x)' = WrongEntry(x)
    BY DEF Zcmp!Lacks, WrongEntry, Zcmp!OrderUnseen
<1>3. /\ checked \in Nat /\ checked <= d
      /\ checked = d <=> \A i \in 1..d : ~Zcmp!Lacks(CaseAt(i))
    BY DEF CountsAre
<1>4. used = {CaseAt(i) : i \in {j \in 1..d : ~Zcmp!Lacks(CaseAt(j))}}
    BY DEF CountsAre
<1>5. /\ zcmp_bad \in Nat
      /\ zcmp_bad = 0 <=> \A i \in 1..d : ~WrongEntry(CaseAt(i))
    BY DEF CountsAre
<1>6. (\A i \in 1..(d + 1) : ~Zcmp!Lacks(CaseAt(i)))
          <=> (\A i \in 1..d : ~Zcmp!Lacks(CaseAt(i))) /\ ~Zcmp!Lacks(e)
    BY <1>1
<1>7. (\A i \in 1..(d + 1) : ~WrongEntry(CaseAt(i)))
          <=> (\A i \in 1..d : ~WrongEntry(CaseAt(i))) /\ ~WrongEntry(e)
    BY <1>1
<1>8. /\ checked' \in Nat /\ checked' <= d + 1
      /\ checked' = d + 1 <=> \A i \in 1..(d + 1) : ~Zcmp!Lacks(CaseAt(i))
    BY <1>3, <1>6
<1>9. used' = {CaseAt(i) : i \in {j \in 1..(d + 1) : ~Zcmp!Lacks(CaseAt(j))}}
    <2>1. used' = used \cup (IF Zcmp!Lacks(e) THEN {} ELSE {e})
        OBVIOUS
    <2> QED BY <1>1, <1>4, <2>1
<1>10. Zcmp!Lacks(e) => ~WrongEntry(e)
    BY DEF Zcmp!Lacks, WrongEntry, Zcmp!StepDefects
<1>11. /\ zcmp_bad' \in Nat
       /\ zcmp_bad' = 0 <=> \A i \in 1..(d + 1) : ~WrongEntry(CaseAt(i))
    BY <1>5, <1>7, <1>10
<1>12. \A i : CaseAt(i)' = CaseAt(i)
    BY DEF CaseAt
<1> QED BY <1>2, <1>8, <1>9, <1>11, <1>12 DEF CountsAre

LEMMA ZcmpCommitted == ASSUME ZcmpKept, Zcmp!Commit PROVE ZcmpKept'
<1>1. PICK e : e = CaseAt(case)
    OBVIOUS
<1>2. PICK w, c : w = Zcmp!SpikeWrites(e) /\ c = Zcmp!SpikeMem(e)
    OBVIOUS
<1>3. zcmp_program = Zcmp!Cases /\ DefectFits /\ Len(zcmp_program) = NumCases
    BY CasesAre DEF ZcmpKept, TableKept
<1>4. /\ phase = "commit" /\ SetUpFor(e)
      /\ zcmp_program' = zcmp_program /\ defect' = defect /\ zcmp_verdict' = zcmp_verdict
    BY <1>1 DEF Zcmp!Commit, ZcmpKept
<1>5. case \in 1..NumCases /\ CountsAre(case - 1) /\ ModelType
    BY <1>4 DEF ZcmpKept, ModelType, Done
<1>6. NumPushPops \in Nat /\ NumCases \in Nat /\ NumPushPops < NumCases /\ case \in Nat \ {0}
    <2>1. NumPushPops \in Nat /\ NumCases \in Nat /\ NumPushPops < NumCases
        BY CasesAre, SizesAre
    <2> QED BY <1>5, <2>1
<1>7. IF case <= NumPushPops THEN PushPop(e) ELSE TwoMoves(e)
    BY <1>1, <1>5, CasesAre
<1>8. IF ~Zcmp!Lacks(e)
      THEN /\ checked' = checked + 1 /\ used' = used \cup {e}
           /\ zcmp_bad' = IF Zcmp!Agrees(e) THEN zcmp_bad ELSE zcmp_bad + 1
      ELSE UNCHANGED <<checked, used, zcmp_bad>>
    BY <1>1, <1>3, Zenon DEF Zcmp!Commit, CaseAt
<1>9. regs' = [x \in DOMAIN regs |-> IF x \in DOMAIN w THEN w[x] ELSE regs[x]]
    BY <1>1, <1>2, <1>3, Zenon DEF Zcmp!Commit, CaseAt
<1>10. memm' = [a \in DOMAIN memm |->
                   IF \E k \in DOMAIN c : c[k].addr = a /\ c[k].data # Zcmp!None
                   THEN (CHOOSE m \in {c[k] : k \in DOMAIN c} : m.addr = a).data
                   ELSE memm[a]]
    <2>1. memm' = [a \in DOMAIN memm |->
                      IF \E k \in DOMAIN c : c[k].addr = a /\ c[k].data # Zcmp!None
                      THEN (CHOOSE m \in Zcmp!Range(c) : m.addr = a).data
                      ELSE memm[a]]
        <3>1. c = Zcmp!SpikeMem(zcmp_program[case])
            BY <1>1, <1>2, <1>3 DEF CaseAt
        <3>2. memm' = LET b == Zcmp!SpikeMem(zcmp_program[case]) IN
                      [a \in DOMAIN memm |->
                          IF \E k \in DOMAIN b : b[k].addr = a /\ b[k].data # Zcmp!None
                          THEN (CHOOSE m \in Zcmp!Range(b) : m.addr = a).data
                          ELSE memm[a]]
            BY DEF Zcmp!Commit
        <3> QED BY <3>1, <3>2
    <2>2. Zcmp!Range(c) = {c[k] : k \in DOMAIN c}
        BY DEF Zcmp!Range
    <2> QED BY <2>1, <2>2
<1>11. IF case = NumCases THEN phase' = "report" /\ case' = case
       ELSE phase' = "seed" /\ case' = case + 1
    BY <1>3 DEF Zcmp!Commit
<1>12. /\ regs' \in [Zcmp!Registers -> Int] /\ memm' \in [Zcmp!Stack -> Int]
       /\ regs'[0] = 0 /\ regs'[7] = 0
       /\ TwoMoves(e) => regs'[10] # 0 /\ regs'[11] # 0
    BY <1>2, <1>4, <1>7, <1>9, <1>10, CommitModel
<1>13. case' \in 1..NumCases /\ phase' \in {"seed", "report"}
       /\ (phase' = "report" => case' = NumCases) /\ (phase' = "seed" => case' = case + 1)
    BY <1>5, <1>6, <1>11
<1>14. ModelType'
    <2>1. NumCases' = NumCases
        BY DEF NumCases, NumPushPops, NumMoves
    <2> QED BY <1>12, <1>13, <2>1 DEF ModelType
<1>15. ArgumentsKept'
    <2>1. SUFFICES ASSUME case' > NumPushPops + 1 \/ (case' = NumPushPops + 1 /\ phase' # "seed")
                   PROVE  ~(case <= NumPushPops)
        BY <1>7, <1>12 DEF ArgumentsKept
    <2> QED BY <1>5, <1>6, <1>11, <2>1
<1>16. TableKept'
    BY <1>4 DEF ZcmpKept, TableKept, DefectFits
<1>17. PhaseKept' /\ VerdictKept' /\ phase' # "commit"
    BY <1>13 DEF PhaseKept, VerdictKept
<1>18. Done' = case
    BY <1>5, <1>6, <1>11 DEF Done
<1>19. CountsAre(Done)'
    <2>1. PICK d \in Nat : d = case - 1 /\ d + 1 = case
        BY <1>6
    <2>2. Zcmp!Agrees(e) <=> ~WrongEntry(e)
        BY <1>3, <1>4, <1>7, AgreesUnlessWrong
    <2>3. IF ~Zcmp!Lacks(e)
          THEN /\ checked' = checked + 1 /\ used' = used \cup {e}
               /\ zcmp_bad' = IF WrongEntry(e) THEN zcmp_bad + 1 ELSE zcmp_bad
          ELSE checked' = checked /\ used' = used /\ zcmp_bad' = zcmp_bad
        BY <1>8, <2>2
    <2>4. PICK f : f = d + 1
        OBVIOUS
    <2>5. CountsAre(d) /\ e = CaseAt(d + 1)
        BY <1>1, <1>5, <2>1
    <2>6. CountsAre(d + 1)'
        BY <1>3, <1>4, <2>3, <2>5, ZcmpCounted
    <2>7. Done' = d + 1
        BY <1>18, <2>1
    <2> QED BY <2>6, <2>7 DEF CountsAre
<1> QED BY <1>14, <1>15, <1>16, <1>17, <1>19 DEF ZcmpKept

LEMMA ZcmpReported == ASSUME ZcmpKept, Zcmp!Report PROVE ZcmpKept'
<1>1. /\ phase = "report" /\ phase' = "end" /\ case' = case
      /\ zcmp_program' = zcmp_program /\ defect' = defect /\ regs' = regs /\ memm' = memm
      /\ checked' = checked /\ used' = used /\ zcmp_bad' = zcmp_bad
    BY DEF Zcmp!Report
<1>2. TableKept' /\ PhaseKept'
    BY <1>1 DEF ZcmpKept, TableKept, DefectFits, PhaseKept
<1>3. ModelType' /\ ArgumentsKept'
    <2>1. NumCases' = NumCases /\ NumPushPops' = NumPushPops
        BY DEF NumCases, NumPushPops, NumMoves
    <2> QED BY <1>1, <2>1 DEF ZcmpKept, ModelType, ArgumentsKept
<1>4. Done' = Done
    BY <1>1 DEF Done, NumCases, NumPushPops, NumMoves
<1>5. CountsAre(Done)'
    <2>1. CountsAre(Done)
        BY DEF ZcmpKept
    <2> QED BY <1>1, <1>4, <2>1 DEF CountsAre, Zcmp!Lacks, WrongEntry, Zcmp!OrderUnseen, CaseAt
<1>6. VerdictKept'
    <2>1. Len(zcmp_program) = NumCases
        BY CasesAre DEF ZcmpKept, TableKept
    <2>2. zcmp_verdict' = IF zcmp_bad = 0 /\ Zcmp!Dumped \ used = {} /\ checked = NumCases
                          THEN "PASS" ELSE "FAIL"
        BY <2>1 DEF Zcmp!Report
    <2>3. Zcmp!Dumped' = Zcmp!Dumped
        BY <1>1 DEF Zcmp!Dumped, Zcmp!Lacks
    <2>4. NumCases' = NumCases
        BY DEF NumCases, NumPushPops, NumMoves
    <2> QED BY <1>1, <2>2, <2>3, <2>4 DEF VerdictKept
<1> QED BY <1>1, <1>2, <1>3, <1>5, <1>6 DEF ZcmpKept

LEMMA ZcmpStays == ASSUME ZcmpKept, UNCHANGED Zcmp!vars PROVE ZcmpKept'
<1>1. /\ phase' = phase /\ case' = case
      /\ zcmp_program' = zcmp_program /\ defect' = defect /\ regs' = regs /\ memm' = memm
      /\ checked' = checked /\ used' = used /\ zcmp_bad' = zcmp_bad /\ zcmp_verdict' = zcmp_verdict
    BY DEF Zcmp!vars
<1>2. /\ NumCases' = NumCases /\ NumPushPops' = NumPushPops
      /\ \A i : CaseAt(i)' = CaseAt(i)
    BY DEF NumCases, NumPushPops, NumMoves, CaseAt
<1>3. TableKept' /\ PhaseKept' /\ ModelType' /\ ArgumentsKept'
    BY <1>1, <1>2 DEF ZcmpKept, TableKept, DefectFits, PhaseKept, ModelType, ArgumentsKept
<1>4. Done' = Done
    BY <1>1, <1>2 DEF Done
<1>5. CountsAre(Done)'
    <2>1. CountsAre(Done)
        BY DEF ZcmpKept
    <2> QED BY <1>1, <1>2, <1>4, <2>1 DEF CountsAre, Zcmp!Lacks, WrongEntry, Zcmp!OrderUnseen
<1>6. VerdictKept'
    <2>1. VerdictKept /\ Zcmp!Dumped' = Zcmp!Dumped
        BY <1>1 DEF ZcmpKept, Zcmp!Dumped, Zcmp!Lacks
    <2> QED BY <1>1, <1>2, <2>1 DEF VerdictKept
<1>7. phase' = "commit" => SetUpFor(CaseAt(case))'
    <2>1. SUFFICES ASSUME phase' = "commit" PROVE SetUpFor(CaseAt(case))'
        OBVIOUS
    <2>2. SetUpFor(CaseAt(case))
        BY <1>1, <2>1 DEF ZcmpKept
    <2> QED BY <1>1, <1>2, <2>2 DEF SetUpFor
<1> QED BY <1>3, <1>5, <1>6, <1>7 DEF ZcmpKept

LEMMA ZcmpJudges == ASSUME ZcmpKept PROVE Zcmp!TableVerdict
<1>1. SUFFICES ASSUME phase = "end"
               PROVE  zcmp_verdict = "PASS" <=> defect.kind = "none" \/ Zcmp!OrderUnseen
    BY DEF Zcmp!TableVerdict
<1>2. zcmp_verdict = "PASS" <=> zcmp_bad = 0 /\ Zcmp!Dumped \ used = {} /\ checked = NumCases
    BY <1>1 DEF ZcmpKept, VerdictKept
<1>3. CountsAre(NumCases) /\ NumCases \in Nat
    BY <1>1, CasesAre DEF ZcmpKept, Done
<1>4. DefectFits /\ defect.enc \in Zcmp!Encodings
    BY DEF ZcmpKept, TableKept
<1>5. Zcmp!Encodings = {CaseAt(i) : i \in 1..NumCases}
    BY CasesAre DEF Zcmp!Encodings, Zcmp!Range, CaseAt
<1>6. PICK d \in 1..NumCases : defect.enc = CaseAt(d)
    BY <1>4, <1>5
<1>7. used \subseteq Zcmp!Encodings
    BY <1>3, <1>5 DEF CountsAre
<1>8. Zcmp!Unused \notin Zcmp!Encodings
    <2>1. SUFFICES ASSUME NEW i \in 1..NumCases, CaseAt(i) = Zcmp!Unused PROVE FALSE
        BY <1>5
    <2>2. CaseAt(i).op = "cm.push" /\ CaseAt(i).a = 0
        BY <2>1 DEF Zcmp!Unused, Zcmp!Enc
    <2>3. PushPop(CaseAt(i)) \/ TwoMoves(CaseAt(i))
        BY CasesAre
    <2> QED BY <2>2, <2>3 DEF PushPop, TwoMoves
<1>9. CASE defect.kind = "none" \/ Zcmp!OrderUnseen
    <2>0. defect.kind = "none" \/ defect.kind = "swap"
        BY <1>9 DEF Zcmp!OrderUnseen
    <2>1. \A x : ~Zcmp!Lacks(x) /\ ~WrongEntry(x)
        BY <1>9, <2>0 DEF Zcmp!Lacks, WrongEntry, Zcmp!StepDefects
    <2>2. zcmp_bad = 0 /\ checked = NumCases
        BY <1>3, <2>1 DEF CountsAre
    <2>3. used = Zcmp!Encodings
        <3>1. {j \in 1..NumCases : ~Zcmp!Lacks(CaseAt(j))} = 1..NumCases
            BY <2>1
        <3>2. used = {CaseAt(i) : i \in {j \in 1..NumCases : ~Zcmp!Lacks(CaseAt(j))}}
            BY <1>3 DEF CountsAre
        <3> QED BY <1>5, <3>1, <3>2
    <2>4. Zcmp!Dumped \ used = {}
        BY <2>0, <2>3 DEF Zcmp!Dumped
    <2> QED BY <1>2, <1>9, <2>2, <2>4
<1>10. CASE defect.kind = "missing"
    <2>1. Zcmp!Lacks(CaseAt(d))
        BY <1>6, <1>10 DEF Zcmp!Lacks
    <2>2. checked # NumCases
        BY <1>3, <2>1 DEF CountsAre
    <2> QED BY <1>2, <1>10, <2>2 DEF Zcmp!OrderUnseen
<1>11. CASE defect.kind = "extra"
    <2>1. Zcmp!Unused \in Zcmp!Dumped \ used
        BY <1>7, <1>8, <1>11 DEF Zcmp!Dumped
    <2> QED BY <1>2, <1>11, <2>1 DEF Zcmp!OrderUnseen
<1>12. CASE defect.kind \in Zcmp!StepDefects /\ ~Zcmp!OrderUnseen
    <2>1. WrongEntry(CaseAt(d))
        BY <1>6, <1>12 DEF WrongEntry
    <2>2. zcmp_bad # 0
        BY <1>3, <2>1 DEF CountsAre
    <2>3. defect.kind # "none"
        BY <1>12 DEF Zcmp!StepDefects
    <2> QED BY <1>2, <1>12, <2>2, <2>3
<1> QED BY <1>4, <1>9, <1>10, <1>11, <1>12 DEF DefectFits

\* scripts/check_zcmp.py: for every size of the generated program up to the script's own,
\* the check passes the table of the sequencer and that with two steps exchanged that are
\* not both accesses to memory, and fails on every table with another exchange, a step
\* changed or left out, an instruction missing or one too many.
THEOREM PushPopTableIsJudged == Zcmp!Spec => []Zcmp!TableVerdict
<1>1. Zcmp!Init => ZcmpKept
    BY ZcmpStart
<1>2. ZcmpKept /\ [Zcmp!Next]_Zcmp!vars => ZcmpKept'
    BY ZcmpSeeded, ZcmpCommitted, ZcmpReported, ZcmpStays DEF Zcmp!Next
<1>3. ZcmpKept => Zcmp!TableVerdict
    BY ZcmpJudges
<1> QED BY <1>1, <1>2, <1>3, PTL DEF Zcmp!Spec

\* The check of the decompressor passes no wrong row and, where every row could
\* be judged, fails on none but wrong ones; that of the push and pop table fails on
\* none but wrong ones and passes no wrong one but an exchange of steps that are not
\* both accesses to memory; and of the netlists it is given, the failure metrics
\* accept exactly those whose flip-flops the table counts, as long as no cell's
\* output is read without its own line of attributes
\* (scripts/check_decompress.py:118-218, scripts/check_zcmp.py:176-283,
\* scripts/fmeda.py:558-634).
THEOREM ChecksJudgeExactly ==
    Decomp!Spec /\ Zcmp!Spec /\ Metrics!Spec => []ChecksAreExact
<1>1. /\ Decomp!Spec => []Decomp!WrongRowsFail
      /\ Zcmp!Spec => []Zcmp!TableVerdict
      /\ Metrics!Spec => []Metrics!RecountExact
    BY NoWrongRowPasses, PushPopTableIsJudged, NetlistsAreRecounted
<1>2. Decomp!WrongRowsFail /\ Zcmp!TableVerdict /\ Metrics!RecountExact => ChecksAreExact
    BY DEF ChecksAreExact
<1> QED BY <1>1, <1>2, PTL
=============================================================================
