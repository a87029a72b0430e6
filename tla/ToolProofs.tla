----------------------------- MODULE ToolProofs -----------------------------
(***************************************************************************)
(* What the programs of MCTools that make or run something promise,        *)
(* whatever their arguments, tables and inputs.                            *)
(*                                                                         *)
(* The mutation scripts: the tree differs from the originals by at most    *)
(* the one file that the current mutant changed, which is a file of the    *)
(* script: whatever sends it to `finally`, writing the files of the script *)
(* back gives the originals.                                               *)
(*                                                                         *)
(* The SEC-DED code: turning a bit over toggles the syndrome by the column *)
(* of that bit, columns are odd and distinct, and the symmetric difference *)
(* of two sets is odd exactly if one of the two is.                        *)
(*                                                                         *)
(* The fault campaigns: an outcome has the place of its fault, so what the *)
(* count has passed is counted by the outcomes before it.                  *)
(*                                                                         *)
(* The co-simulation: labels are never behind their branch, so what is     *)
(* retired is bounded by the loops that are done and the place in this     *)
(* one; the bound of the log is above that, and no log but the right one   *)
(* has the architecture's entries and then the end label.                  *)
(*                                                                         *)
(* The pad ring: the rows of the four sides, joined, are the places of the *)
(* pinout, each once; as many names as pads make the names different, so   *)
(* the pads at a bit of a port are none or one.                            *)
(***************************************************************************)
EXTENDS MCTools, FiniteSetTheorems, SequenceTheorems, WellFoundedInduction, TLAPS

(* The mutation scripts. *)

Contents == [Files -> SUBSET Nat]

TypeInv ==
    /\ tree \in Contents /\ orig \in Contents
    /\ pc \in {"idle", "baseline", "mutants", "bench", "finally"}
    /\ script \in Scripts
    /\ mutant \in Nat \ {0}
    /\ killed \in Nat /\ survived \in Nat /\ detected \in Nat /\ kills \in Nat
    /\ exit \in {-1, 0, 1, 2}

\* Only files of the script can differ when the script is about to restore.
Restorable ==
    pc = "finally" => \A f \in Files \ script.files : tree[f] = orig[f]

OriginalsPristine == kills = 0 => orig = Pristine

\* Every mutant before the current one has been counted, and the killed ones
\* were seen failing alone.
Tallied ==
    /\ pc = "bench" => mutant \in Mutants
    /\ pc \in {"baseline", "mutants", "bench"} =>
           /\ exit = -1
           /\ killed + survived + 1 = mutant
           /\ mutant <= Len(script.mutants) + 1
           /\ kills = 0 => detected = killed
    /\ pc = "baseline" => mutant = 1

IInv == TypeInv /\ OneMutantAtATime /\ Restorable /\ OriginalsPristine
        /\ Tallied /\ AllKilledIsTrue

-----------------------------------------------------------------------------

\* The table of a script names files of that script.
LEMMA FileOfScript ==
    ASSUME script \in Scripts, mutant \in Mutants
    PROVE  File \in script.files /\ File \in Files
BY MutationAssumption DEF MutationAssumption, Mutants, File

LEMMA TableLength == ASSUME NEW s \in Scripts PROVE Len(s.mutants) \in Nat
BY MutationAssumption DEF MutationAssumption

\* Undoing the change of one file gives the originals.
LEMMA UndoOne ==
    ASSUME NEW o \in Contents, NEW f \in Files, NEW c,
           NEW t, t = [o EXCEPT ![f] = c]
    PROVE  [t EXCEPT ![f] = o[f]] = o
BY DEF Contents

LEMMA InitInvariant == Init => IInv
<1> SUFFICES ASSUME Init PROVE IInv
  OBVIOUS
<1>1. TypeInv BY DEF Init, TypeInv, Contents, Pristine
<1>2. OneMutantAtATime BY DEF Init, OneMutantAtATime
<1>3. Restorable /\ OriginalsPristine /\ Tallied /\ AllKilledIsTrue
  BY DEF Init, Restorable, OriginalsPristine, Tallied, AllKilledIsTrue
<1> QED BY <1>1, <1>2, <1>3 DEF IInv

LEMMA StartKeeps == IInv /\ Start => IInv'
<1> SUFFICES ASSUME IInv, Start PROVE IInv'
  OBVIOUS
<1> USE DEF IInv, Start
<1>1. TypeInv' BY DEF TypeInv
<1>2. OneMutantAtATime' BY DEF OneMutantAtATime
<1>3. OriginalsPristine' BY DEF OriginalsPristine, OneMutantAtATime, Pristine
<1>4. Len(script.mutants)' \in Nat BY TableLength
<1>5. Tallied' BY <1>4 DEF Tallied
<1> QED BY <1>1, <1>2, <1>3, <1>5 DEF Restorable, AllKilledIsTrue

LEMMA BaselineKeeps == IInv /\ (BaselinePasses \/ BaselineFails) => IInv'
<1> SUFFICES ASSUME IInv, BaselinePasses \/ BaselineFails PROVE IInv'
  OBVIOUS
<1> USE DEF IInv
<1>1. CASE BaselinePasses
  <2> USE <1>1 DEF BaselinePasses
  <2>1. pc' \in {"baseline", "mutants"} OBVIOUS
  <2>2. TypeInv' BY <2>1 DEF TypeInv
  <2>3. OneMutantAtATime' BY <2>1 DEF OneMutantAtATime
  <2>4. OriginalsPristine' BY DEF OriginalsPristine, Pristine
  <2>5. Tallied' BY <2>1 DEF Tallied
  <2>6. AllKilledIsTrue' BY <2>1 DEF AllKilledIsTrue
  <2> QED BY <2>1, <2>2, <2>3, <2>4, <2>5, <2>6 DEF Restorable
<1>2. CASE BaselineFails
  <2> USE <1>2 DEF BaselineFails
  <2>1. TypeInv' BY DEF TypeInv
  <2>2. Restorable' BY DEF Restorable, OneMutantAtATime
  <2>3. OriginalsPristine' BY DEF OriginalsPristine, Pristine
  <2> QED BY <2>1, <2>2, <2>3 DEF OneMutantAtATime, Tallied, AllKilledIsTrue
<1> QED BY <1>1, <1>2

\* A mutant that is skipped, or judged by its benches, leaves the originals
\* and is counted.
LEMMA MutantKeeps ==
    IInv /\ (Skip \/ Mutate \/ TargetPasses \/ TargetFails \/ Survives) => IInv'
<1> SUFFICES ASSUME IInv, Skip \/ Mutate \/ TargetPasses \/ TargetFails \/ Survives
             PROVE  IInv'
  OBVIOUS
<1> USE DEF IInv
<1>0. Len(script.mutants) \in Nat BY TableLength DEF TypeInv
<1>1. CASE Skip
  <2> USE <1>1 DEF Skip
  <2>1. TypeInv' BY DEF TypeInv
  <2>2. OneMutantAtATime' BY DEF OneMutantAtATime
  <2>3. OriginalsPristine' BY DEF OriginalsPristine, Pristine
  <2>4. Tallied' BY <1>0 DEF Tallied, TypeInv, Mutants
  <2> QED BY <2>1, <2>2, <2>3, <2>4 DEF Restorable, AllKilledIsTrue, Tallied
<1>2. CASE Mutate
  <2> USE <1>2 DEF Mutate
  <2>1. File \in Files BY FileOfScript DEF TypeInv
  <2>2. tree = orig BY DEF OneMutantAtATime
  <2>3. tree' = [orig EXCEPT ![File] = orig[File] \cup {mutant}] BY <2>2
  <2>4. tree' \in Contents BY <2>1, <2>3 DEF TypeInv, Contents
  <2>5. TypeInv' BY <2>4 DEF TypeInv
  <2>6. OneMutantAtATime' BY <2>3 DEF OneMutantAtATime, File
  <2>7. OriginalsPristine' BY DEF OriginalsPristine, Pristine
  <2>8. Tallied' BY DEF Tallied, Mutants
  <2> QED BY <2>5, <2>6, <2>7, <2>8 DEF Restorable, AllKilledIsTrue, Tallied
<1>3. CASE TargetPasses
  <2> USE <1>3 DEF TargetPasses
  <2>1. TypeInv' BY DEF TypeInv
  <2>2. OneMutantAtATime' BY DEF OneMutantAtATime, File
  <2>3. OriginalsPristine' BY DEF OriginalsPristine, Pristine
  <2>4. Tallied' BY DEF Tallied, Mutants
  <2> QED BY <2>1, <2>2, <2>3, <2>4 DEF Restorable, AllKilledIsTrue, Tallied
<1>4. ASSUME pc = "bench", tree' = [tree EXCEPT ![File] = orig[File]]
      PROVE  tree' = orig /\ File \in Files
  <2>1. File \in Files BY <1>4, FileOfScript DEF TypeInv, Tallied
  <2>2. tree = [orig EXCEPT ![File] = orig[File] \cup {mutant}]
    BY <1>4 DEF OneMutantAtATime
  <2> QED BY <1>4, <2>1, <2>2, UndoOne DEF TypeInv
<1>5. CASE TargetFails
  <2> USE <1>5 DEF TargetFails
  <2>1. tree' = orig /\ File \in Files BY <1>4
  <2>2. TypeInv'
    <3>1. tree' \in Contents /\ orig' \in Contents BY <2>1 DEF TypeInv
    <3>2. mutant' \in Nat \ {0} /\ killed' \in Nat /\ detected' \in Nat
      BY DEF TypeInv
    <3> QED BY <3>1, <3>2 DEF TypeInv
  <2>3. OneMutantAtATime' BY <2>1 DEF OneMutantAtATime
  <2>4. OriginalsPristine' BY DEF OriginalsPristine, Pristine
  <2>5. ASSUME kills = 0 PROVE detected' = detected + 1
    <3>1. orig = Pristine BY <2>5 DEF OriginalsPristine
    <3>2. orig[File] \cup {mutant} = {mutant} BY <2>1, <3>1 DEF Pristine
    <3>3. tree = [Pristine EXCEPT ![File] = {mutant}]
      BY <3>1, <3>2 DEF OneMutantAtATime
    <3> QED BY <3>3
  <2>6. Tallied' BY <1>0, <2>5, SMTT(30) DEF Tallied, TypeInv, Mutants
  <2> QED BY <2>2, <2>3, <2>4, <2>6 DEF Restorable, AllKilledIsTrue, Tallied
<1>6. CASE Survives
  <2> USE <1>6 DEF Survives
  <2>1. tree' = orig BY <1>4
  <2>2. TypeInv'
    <3>1. tree' \in Contents /\ orig' \in Contents BY <2>1 DEF TypeInv
    <3>2. mutant' \in Nat \ {0} /\ survived' \in Nat BY DEF TypeInv
    <3> QED BY <3>1, <3>2 DEF TypeInv
  <2>3. OneMutantAtATime' BY <2>1 DEF OneMutantAtATime
  <2>4. OriginalsPristine' BY DEF OriginalsPristine, Pristine
  <2>5. Tallied' BY <1>0, SMTT(30) DEF Tallied, TypeInv, Mutants
  <2> QED BY <2>2, <2>3, <2>4, <2>5 DEF Restorable, AllKilledIsTrue, Tallied
<1> QED BY <1>1, <1>2, <1>3, <1>5, <1>6

\* The ways out of the loop, the restoration and a kill.
LEMMA LeavingKeeps == IInv /\ (Overrun \/ Scored \/ Finally \/ Kill) => IInv'
<1> SUFFICES ASSUME IInv, Overrun \/ Scored \/ Finally \/ Kill PROVE IInv'
  OBVIOUS
<1> USE DEF IInv
<1>0. Len(script.mutants) \in Nat BY TableLength DEF TypeInv
<1>1. CASE Overrun
  <2> USE <1>1 DEF Overrun
  <2>1. TypeInv' BY DEF TypeInv
  <2>2. Restorable'
    <3>1. CASE pc = "baseline" BY <3>1 DEF Restorable, OneMutantAtATime
    <3>2. CASE pc = "bench"
      <4>1. File \in script.files BY <3>2, FileOfScript DEF TypeInv, Tallied
      <4>2. tree = [orig EXCEPT ![File] = orig[File] \cup {mutant}]
        BY <3>2 DEF OneMutantAtATime
      <4> QED BY <4>1, <4>2 DEF Restorable, TypeInv, Contents
    <3> QED BY <3>1, <3>2
  <2>3. OriginalsPristine' BY DEF OriginalsPristine, Pristine
  <2> QED BY <2>1, <2>2, <2>3 DEF OneMutantAtATime, Tallied, AllKilledIsTrue
<1>2. CASE Scored
  <2> USE <1>2 DEF Scored
  <2>1. TypeInv' BY DEF TypeInv
  <2>2. Restorable' BY DEF Restorable, OneMutantAtATime
  <2>3. OriginalsPristine' BY DEF OriginalsPristine, Pristine
  <2>4. AllKilledIsTrue' BY <1>0 DEF AllKilledIsTrue, Tallied, TypeInv, Mutants
  <2> QED BY <2>1, <2>2, <2>3, <2>4 DEF OneMutantAtATime, Tallied
<1>3. CASE Finally
  <2> USE <1>3 DEF Finally
  <2>1. tree' = orig BY DEF Restorable, TypeInv, Contents
  <2>2. TypeInv' BY <2>1 DEF TypeInv
  <2>3. OneMutantAtATime' BY <2>1 DEF OneMutantAtATime, OriginalsPristine, Pristine
  <2>4. OriginalsPristine' BY DEF OriginalsPristine, Pristine
  <2> QED BY <2>2, <2>3, <2>4 DEF Restorable, Tallied, AllKilledIsTrue
<1>4. CASE Kill
  <2> USE <1>4 DEF Kill
  <2>1. kills' \in Nat /\ kills' # 0 BY DEF TypeInv
  <2>2. TypeInv' BY <2>1 DEF TypeInv
  <2> QED BY <2>1, <2>2
      DEF OneMutantAtATime, Restorable, OriginalsPristine, Tallied, AllKilledIsTrue
<1> QED BY <1>1, <1>2, <1>3, <1>4

LEMMA StutterKeeps == IInv /\ UNCHANGED vars => IInv'
BY DEF IInv, vars, TypeInv, OneMutantAtATime, Restorable, OriginalsPristine,
       Pristine, Tallied, AllKilledIsTrue, File, Mutants

LEMMA Invariant == Spec => []IInv
<1>1. IInv /\ [Next]_vars => IInv'
  BY StartKeeps, BaselineKeeps, MutantKeeps, LeavingKeeps, StutterKeeps DEF Next
<1> QED BY <1>1, InitInvariant, PTL DEF Spec

-----------------------------------------------------------------------------

\* Every bench judges the RTL as the script found it with one mutant, and
\* unless a script was killed the RTL is always left as it was, for every
\* table and every order of scripts (scripts/mutate_*.py, the `finally`).
THEOREM RestoresTheTree == Spec => []OneMutantAtATime
<1>1. IInv => OneMutantAtATime BY DEF IInv
<1> QED BY <1>1, Invariant, PTL

\* "All killed" is true: the exit status is zero only if for every mutant of
\* the table a bench failed on the repository's RTL with that one change.
THEOREM ScoreIsTrue == Spec => []AllKilledIsTrue
<1>1. IInv => AllKilledIsTrue BY DEF IInv
<1> QED BY <1>1, Invariant, PTL

-----------------------------------------------------------------------------
(* The SEC-DED code. *)

LEMMA EccSets ==
    /\ \A S : Ecc!Cardinality(S) = Cardinality(S)
    /\ \A S : Ecc!IsFiniteSet(S) <=> IsFiniteSet(S)
BY DEF Ecc!Cardinality, Cardinality, Ecc!IsFiniteSet, IsFiniteSet

LEMMA OddDiff ==
    ASSUME NEW A, NEW B, IsFiniteSet(A), IsFiniteSet(B)
    PROVE  Ecc!Odd(Ecc!SymDiff(A, B)) <=> ~(Ecc!Odd(A) <=> Ecc!Odd(B))
<1>1. PICK D, E : D = A \ B /\ E = B \ A
    OBVIOUS
<1>2. /\ IsFiniteSet(D) /\ Cardinality(D) = Cardinality(A) - Cardinality(A \cap B)
      /\ IsFiniteSet(E) /\ Cardinality(E) = Cardinality(B) - Cardinality(A \cap B)
    <2>1. B \cap A = A \cap B
        OBVIOUS
    <2> QED BY <1>1, <2>1, FS_Difference
<1>3. D \cap E = {}
    BY <1>1
<1>4. Cardinality(D \cup E) = Cardinality(D) + Cardinality(E) - 0
    BY <1>2, <1>3, FS_Union, FS_EmptySet
<1>5. /\ Cardinality(A) \in Nat /\ Cardinality(B) \in Nat /\ Cardinality(A \cap B) \in Nat
    BY FS_Intersection, FS_CardinalityType
<1>6. Ecc!SymDiff(A, B) = D \cup E
    BY <1>1 DEF Ecc!SymDiff
<1>7. Cardinality(Ecc!SymDiff(A, B))
          = Cardinality(A) + Cardinality(B) - 2 * Cardinality(A \cap B)
    BY <1>2, <1>4, <1>5, <1>6
<1>8. \A a, b, c \in Nat :
          a + b - 2 * c \in Nat => ((a + b - 2 * c) % 2 = 1 <=> ~(a % 2 = 1 <=> b % 2 = 1))
    OBVIOUS
<1>9. IsFiniteSet(D \cup E)
    BY <1>2, FS_Union
<1>10. Cardinality(Ecc!SymDiff(A, B)) \in Nat
    BY <1>6, <1>9, FS_CardinalityType
<1> QED BY <1>5, <1>7, <1>8, <1>10, EccSets DEF Ecc!Odd

\* One element more or less.
LEMMA OddToggle ==
    ASSUME NEW A, IsFiniteSet(A), NEW x
    PROVE  Ecc!Odd(Ecc!SymDiff(A, {x})) <=> ~Ecc!Odd(A)
<1>1. IsFiniteSet({x}) /\ Cardinality({x}) = 1
    BY FS_Singleton
<1>2. Ecc!Odd({x})
    BY <1>1, EccSets DEF Ecc!Odd
<1> QED BY <1>1, <1>2, OddDiff

\* What a code word is read with: the columns of all bits, the parity bits'
\* included, which are odd and distinct.
CodeColumn(b) == IF b < geometry.data THEN Ecc!Column(b) ELSE {b - geometry.data}

EccGeometry ==
    /\ geometry.par \in Nat \ {0} /\ geometry.data \in Nat \ {0}

LEMMA ColumnsDiffer ==
    ASSUME EccGeometry, Ecc!Check(cols)
    PROVE  /\ \A b \in Ecc!CodeBits : CodeColumn(b) \subseteq Ecc!Rows
                                      /\ Ecc!Odd(CodeColumn(b))
           /\ \A a, b \in Ecc!CodeBits : a # b => CodeColumn(a) # CodeColumn(b)
<1>1. ASSUME NEW b \in Ecc!CodeBits, b < geometry.data
      PROVE  /\ CodeColumn(b) = cols[b + 1] /\ b + 1 \in 1..geometry.data
    BY <1>1 DEF CodeColumn, Ecc!Column, Ecc!CodeBits, EccGeometry
<1>2. ASSUME NEW b \in Ecc!CodeBits, ~(b < geometry.data)
      PROVE  CodeColumn(b) = {b - geometry.data} /\ b - geometry.data \in Ecc!Rows
    BY <1>2 DEF CodeColumn, Ecc!CodeBits, EccGeometry, Ecc!Rows
<1>3. ASSUME NEW x PROVE Ecc!Odd({x})
    <2>1. Cardinality({x}) = 1
        BY FS_Singleton
    <2> QED BY <2>1, EccSets DEF Ecc!Odd
<1>4. ASSUME NEW b \in Ecc!CodeBits
      PROVE  CodeColumn(b) \subseteq Ecc!Rows /\ Ecc!Odd(CodeColumn(b))
    <2>1. CASE b < geometry.data
        BY <1>1, <2>1 DEF Ecc!Check
    <2>2. CASE ~(b < geometry.data)
        BY <1>2, <1>3, <2>2
    <2> QED BY <2>1, <2>2
<1>5. ASSUME NEW a \in Ecc!CodeBits, NEW b \in Ecc!CodeBits, a # b
      PROVE  CodeColumn(a) # CodeColumn(b)
    <2>1. a \in Int /\ b \in Int /\ geometry.data \in Int
        BY DEF Ecc!CodeBits, EccGeometry
    <2>2. CASE a < geometry.data /\ b < geometry.data
        BY <1>1, <1>5, <2>1, <2>2 DEF Ecc!Check
    <2>3. CASE a < geometry.data /\ ~(b < geometry.data)
        BY <1>1, <1>2, <2>3 DEF Ecc!Check
    <2>4. CASE ~(a < geometry.data) /\ b < geometry.data
        BY <1>1, <1>2, <2>4 DEF Ecc!Check
    <2>5. CASE ~(a < geometry.data) /\ ~(b < geometry.data)
        <3>1. a - geometry.data # b - geometry.data
            BY <1>5, <2>1
        <3> QED BY <1>2, <2>5, <3>1
    <2> QED BY <2>2, <2>3, <2>4, <2>5
<1> QED BY <1>4, <1>5

\* The decoder of the text has the masks of the columns.
Written ==
    \A r \in Ecc!Rows : text[r] = Ecc!Literal(cols, r)

LEMMA SyndromeOf ==
    ASSUME EccGeometry, Written, NEW cw, NEW r
    PROVE  r \in Ecc!Syndrome(cw) <=>
               /\ r \in Ecc!Rows
               /\ ~((geometry.data + r \in cw)
                        <=> Ecc!Odd((cw \cap Ecc!DataBits) \cap Ecc!Mask(cols, r)))
<1>1. ASSUME r \in Ecc!Rows PROVE Ecc!HwMask(r) = Ecc!Mask(cols, r)
    <2>1. text[r].bits = Ecc!Mask(cols, r) /\ text[r].size = geometry.data
        <3>1. \A n, d, b : LET l == [size |-> n, digits |-> d, bits |-> b]
                           IN  l.size = n /\ l.bits = b
            OBVIOUS
        <3>2. /\ Ecc!Literal(cols, r).bits = Ecc!Mask(cols, r)
              /\ Ecc!Literal(cols, r).size = geometry.data
            BY <3>1, Zenon DEF Ecc!Literal
        <3> QED BY <1>1, <3>2 DEF Written
    <2>2. \A d \in Ecc!Mask(cols, r) : d < geometry.data
        BY DEF Ecc!Mask, Ecc!DataBits, EccGeometry
    <2> QED BY <2>1, <2>2 DEF Ecc!HwMask
<1>2. \A S : Ecc!Odd(S) \in BOOLEAN
    BY DEF Ecc!Odd
<1>3. r \in Ecc!Syndrome(cw) <=>
          /\ r \in Ecc!Rows
          /\ (geometry.data + r \in cw)
                 # Ecc!Odd((cw \cap Ecc!DataBits) \cap Ecc!HwMask(r))
    BY Zenon DEF Ecc!Syndrome
<1>4. CASE r \in Ecc!Rows
    BY <1>1, <1>2, <1>3, <1>4
<1>5. CASE r \notin Ecc!Rows
    BY <1>3, <1>5
<1> QED BY <1>4, <1>5

LEMMA CodeIsFinite ==
    ASSUME EccGeometry
    PROVE  /\ IsFiniteSet(Ecc!Rows) /\ IsFiniteSet(Ecc!DataBits) /\ IsFiniteSet(Ecc!CodeBits)
<1>1. /\ geometry.par - 1 \in Int /\ geometry.data - 1 \in Int
      /\ geometry.par + geometry.data - 1 \in Int
    BY DEF EccGeometry
<1>2. \A n \in Int : IsFiniteSet(0..n)
    BY FS_Interval
<1> QED BY <1>1, <1>2 DEF Ecc!Rows, Ecc!DataBits, Ecc!CodeBits

\* A flipped bit changes the syndrome by its column.
LEMMA SyndromeFlips ==
    ASSUME EccGeometry, Written, NEW cw, NEW b \in Ecc!CodeBits, Ecc!Check(cols)
    PROVE  Ecc!Syndrome(Ecc!SymDiff(cw, {b}))
               = Ecc!SymDiff(Ecc!Syndrome(cw), CodeColumn(b))
<1>1. PICK c : c = Ecc!SymDiff(cw, {b})
    OBVIOUS
<1>2. \A x : x \in c <=> ~(x \in cw <=> x = b)
    BY <1>1 DEF Ecc!SymDiff
<1>3. ASSUME NEW r \in Ecc!Rows
      PROVE  r \in Ecc!Syndrome(c) <=> ~(r \in Ecc!Syndrome(cw) <=> r \in CodeColumn(b))
    <2> DEFINE old == (cw \cap Ecc!DataBits) \cap Ecc!Mask(cols, r)
               new == (c \cap Ecc!DataBits) \cap Ecc!Mask(cols, r)
    <2>1. r \in Ecc!Syndrome(c) <=> ~((geometry.data + r \in c) <=> Ecc!Odd(new))
        BY SyndromeOf
    <2>2. r \in Ecc!Syndrome(cw) <=> ~((geometry.data + r \in cw) <=> Ecc!Odd(old))
        BY SyndromeOf
    <2>3. CASE b < geometry.data
        <3>1. geometry.data + r \in c <=> geometry.data + r \in cw
            BY <1>2, <2>3 DEF EccGeometry, Ecc!Rows, Ecc!CodeBits
        <3>2. b \in Ecc!DataBits /\ (b \in Ecc!Mask(cols, r) <=> r \in CodeColumn(b))
            BY <2>3 DEF EccGeometry, Ecc!CodeBits, Ecc!DataBits, Ecc!Mask, CodeColumn, Ecc!Column
        <3>3. CASE r \in CodeColumn(b)
            <4>1. new = Ecc!SymDiff(old, {b})
                BY <1>2, <3>2, <3>3 DEF Ecc!SymDiff
            <4>2. IsFiniteSet(old)
                BY CodeIsFinite, FS_Intersection
            <4>3. Ecc!Odd(new) <=> ~Ecc!Odd(old)
                <5>1. \A S : IsFiniteSet(S)
                          => (Ecc!Odd(Ecc!SymDiff(S, {b})) <=> ~Ecc!Odd(S))
                    BY OddToggle
                <5> QED BY <4>1, <4>2, <5>1, Zenon
            <4> QED BY <2>1, <2>2, <3>1, <3>3, <4>3
        <3>4. CASE r \notin CodeColumn(b)
            <4>1. new = old
                BY <1>2, <3>2, <3>4
            <4> QED BY <2>1, <2>2, <3>1, <3>4, <4>1
        <3> QED BY <3>3, <3>4
    <2>4. CASE ~(b < geometry.data)
        <3>1. b \notin Ecc!DataBits
            BY <2>4 DEF EccGeometry, Ecc!DataBits
        <3>2. new = old
            BY <1>2, <3>1
        <3>3. r \in CodeColumn(b) <=> geometry.data + r = b
            BY <2>4 DEF CodeColumn, EccGeometry, Ecc!CodeBits, Ecc!Rows
        <3>4. geometry.data + r \in c
                  <=> ~(geometry.data + r \in cw <=> geometry.data + r = b)
            BY <1>2
        <3> QED BY <2>1, <2>2, <3>2, <3>3, <3>4
    <2> QED BY <2>3, <2>4
<1>4. Ecc!Syndrome(c) \subseteq Ecc!Rows /\ Ecc!Syndrome(cw) \subseteq Ecc!Rows
    BY DEF Ecc!Syndrome
<1>5. CodeColumn(b) \subseteq Ecc!Rows
    BY ColumnsDiffer
<1> QED BY <1>1, <1>3, <1>4, <1>5 DEF Ecc!SymDiff

\* A code word as it was encoded has no syndrome.
LEMMA EncodedIsClean ==
    ASSUME EccGeometry, Written, NEW word, word \subseteq Ecc!DataBits
    PROVE  /\ Ecc!Syndrome(Ecc!Encode(word)) = {}
           /\ Ecc!Encode(word) \cap Ecc!DataBits = word
           /\ Ecc!Encode(word) \subseteq Ecc!CodeBits
<1>1. PICK cw : cw = Ecc!Encode(word)
    OBVIOUS
<1>2. \A x : x \in cw <=>
          \/ x \in word
          \/ \E r \in Ecc!Rows : x = geometry.data + r /\ Ecc!Odd(word \cap Ecc!Mask(cols, r))
    BY <1>1 DEF Ecc!Encode
<1>3. \A r \in Ecc!Rows : geometry.data + r \notin Ecc!DataBits
    BY DEF EccGeometry, Ecc!Rows, Ecc!DataBits
<1>4. cw \cap Ecc!DataBits = word
    BY <1>2, <1>3
<1>5. ASSUME NEW r \in Ecc!Rows
      PROVE  r \notin Ecc!Syndrome(cw)
    <2>1. geometry.data + r \in cw <=> Ecc!Odd(word \cap Ecc!Mask(cols, r))
        <3>1. geometry.data + r \notin word
            BY <1>3
        <3>2. \A q \in Ecc!Rows : geometry.data + q = geometry.data + r => q = r
            BY DEF EccGeometry, Ecc!Rows
        <3> QED BY <1>2, <3>1, <3>2
    <2>2. (cw \cap Ecc!DataBits) \cap Ecc!Mask(cols, r) = word \cap Ecc!Mask(cols, r)
        BY <1>4
    <2> QED BY <2>1, <2>2, SyndromeOf
<1>6. Ecc!Syndrome(cw) \subseteq Ecc!Rows
    BY DEF Ecc!Syndrome
<1>7. cw \subseteq Ecc!CodeBits
    <2>1. Ecc!DataBits \subseteq Ecc!CodeBits
        BY DEF EccGeometry, Ecc!DataBits, Ecc!CodeBits
    <2>2. \A r \in Ecc!Rows : geometry.data + r \in Ecc!CodeBits
        BY DEF EccGeometry, Ecc!Rows, Ecc!CodeBits
    <2> QED BY <1>2, <2>1, <2>2
<1> QED BY <1>1, <1>4, <1>5, <1>6, <1>7

\* What the decoder makes of a syndrome.
LEMMA FlipOf ==
    ASSUME EccGeometry, NEW syndrome, NEW d
    PROVE  d \in Ecc!Flip(syndrome) <=>
               /\ d \in Ecc!DataBits
               /\ Ecc!ErrSingle(syndrome) /\ syndrome = CodeColumn(d)
<1>1. \A x \in Ecc!DataBits : CodeColumn(x) = Ecc!Column(x)
    BY DEF EccGeometry, Ecc!DataBits, CodeColumn
<1> QED BY <1>1 DEF Ecc!Flip

LEMMA DecodeOf ==
    ASSUME EccGeometry, NEW cw
    PROVE  LET syndrome == Ecc!Syndrome(cw)
           IN  /\ Ecc!Decode(cw).data = Ecc!SymDiff(cw \cap Ecc!DataBits, Ecc!Flip(syndrome))
               /\ Ecc!Decode(cw).single <=> syndrome # {} /\ Ecc!Odd(syndrome)
               /\ Ecc!Decode(cw).double <=> syndrome # {} /\ ~Ecc!Odd(syndrome)
               /\ Ecc!Decode(cw) =
                      [data |-> Ecc!Decode(cw).data, single |-> Ecc!Decode(cw).single,
                       double |-> Ecc!Decode(cw).double]
               /\ Ecc!Decode(cw).single \in BOOLEAN /\ Ecc!Decode(cw).double \in BOOLEAN
<1>1. PICK y : y = Ecc!Syndrome(cw)
    OBVIOUS
<1>2. PICK data : data = Ecc!SymDiff(cw \cap Ecc!DataBits, Ecc!Flip(y))
    OBVIOUS
<1>3. PICK s, t \in BOOLEAN : (s <=> y # {} /\ Ecc!Odd(y)) /\ (t <=> y # {} /\ ~Ecc!Odd(y))
    OBVIOUS
<1>4. Ecc!ErrSingle(y) = s /\ Ecc!ErrDouble(y) = t
    BY <1>3 DEF Ecc!ErrSingle, Ecc!ErrDouble, Ecc!Odd
<1>5. Ecc!Decode(cw) = [data |-> data, single |-> s, double |-> t]
    BY <1>1, <1>2, <1>4, Zenon DEF Ecc!Decode
<1> QED BY <1>1, <1>2, <1>3, <1>5

LEMMA DecodesClean ==
    ASSUME EccGeometry, Written, Ecc!Check(cols), NEW word, word \subseteq Ecc!DataBits
    PROVE  Ecc!Decode(Ecc!Encode(word)) = [data |-> word, single |-> FALSE, double |-> FALSE]
<1>1. PICK cw : cw = Ecc!Encode(word)
    OBVIOUS
<1>2. Ecc!Syndrome(cw) = {} /\ cw \cap Ecc!DataBits = word
    BY <1>1, EncodedIsClean
<1>3. \A d : d \notin Ecc!Flip({})
    BY FlipOf DEF Ecc!ErrSingle
<1>4. Ecc!SymDiff(word, Ecc!Flip({})) = word
    BY <1>3 DEF Ecc!SymDiff
<1> QED BY <1>1, <1>2, <1>4, DecodeOf

LEMMA DecodesOne ==
    ASSUME EccGeometry, Written, Ecc!Check(cols), NEW word, word \subseteq Ecc!DataBits,
           NEW b \in Ecc!CodeBits
    PROVE  Ecc!Decode(Ecc!SymDiff(Ecc!Encode(word), {b}))
               = [data |-> word, single |-> TRUE, double |-> FALSE]
<1>1. PICK cw : cw = Ecc!SymDiff(Ecc!Encode(word), {b})
    OBVIOUS
<1>2. PICK y : y = Ecc!Syndrome(cw)
    OBVIOUS
<1>3. y = CodeColumn(b)
    <2>1. y = Ecc!SymDiff({}, CodeColumn(b))
        BY <1>1, <1>2, EncodedIsClean, SyndromeFlips
    <2> QED BY <2>1 DEF Ecc!SymDiff
<1>4. Ecc!Odd(y) /\ y # {}
    <2>1. ~Ecc!Odd({})
        BY FS_EmptySet, EccSets DEF Ecc!Odd
    <2> QED BY <1>3, <2>1, ColumnsDiffer
<1>5. \A d : d \in Ecc!Flip(y) <=> d \in Ecc!DataBits /\ d = b
    <2>1. Ecc!DataBits \subseteq Ecc!CodeBits
        BY DEF EccGeometry, Ecc!DataBits, Ecc!CodeBits
    <2>2. Ecc!ErrSingle(y)
        BY <1>4 DEF Ecc!ErrSingle
    <2>3. \A d \in Ecc!DataBits : y = CodeColumn(d) <=> d = b
        BY <1>3, <2>1, ColumnsDiffer
    <2> QED BY <2>2, <2>3, FlipOf
<1>6. \A d : d \in cw \cap Ecc!DataBits <=> d \in Ecc!DataBits /\ ~(d \in word <=> d = b)
    <2>1. \A d \in Ecc!DataBits : d \in Ecc!Encode(word) <=> d \in word
        BY EncodedIsClean
    <2> QED BY <1>1, <2>1 DEF Ecc!SymDiff
<1>7. Ecc!SymDiff(cw \cap Ecc!DataBits, Ecc!Flip(y)) = word
    BY <1>5, <1>6 DEF Ecc!SymDiff
<1> QED BY <1>1, <1>2, <1>4, <1>7, DecodeOf

LEMMA DecodesTwo ==
    ASSUME EccGeometry, Written, Ecc!Check(cols), NEW word, word \subseteq Ecc!DataBits,
           NEW a \in Ecc!CodeBits, NEW b \in Ecc!CodeBits, a # b
    PROVE  LET read == Ecc!Decode(Ecc!SymDiff(Ecc!Encode(word), {a, b}))
           IN  read.double /\ ~read.single
<1>1. PICK one : one = Ecc!SymDiff(Ecc!Encode(word), {a})
    OBVIOUS
<1>2. Ecc!SymDiff(Ecc!Encode(word), {a, b}) = Ecc!SymDiff(one, {b})
    BY <1>1 DEF Ecc!SymDiff
<1>3. Ecc!Syndrome(one) = CodeColumn(a)
    BY <1>1, EncodedIsClean, SyndromeFlips DEF Ecc!SymDiff
<1>4. PICK y : y = Ecc!Syndrome(Ecc!SymDiff(one, {b}))
    OBVIOUS
<1>5. y = Ecc!SymDiff(CodeColumn(a), CodeColumn(b))
    BY <1>3, <1>4, SyndromeFlips
<1>6. y # {}
    BY <1>5, ColumnsDiffer DEF Ecc!SymDiff
<1>7. ~Ecc!Odd(y)
    <2>1. IsFiniteSet(CodeColumn(a)) /\ IsFiniteSet(CodeColumn(b))
        BY ColumnsDiffer, CodeIsFinite, FS_Subset
    <2>2. Ecc!Odd(CodeColumn(a)) /\ Ecc!Odd(CodeColumn(b))
        BY ColumnsDiffer
    <2> QED BY <1>5, <2>1, <2>2, OddDiff
<1> QED BY <1>2, <1>4, <1>6, <1>7, DecodeOf

\* Nought, one or two flips, as a set.
LEMMA ReadOf ==
    ASSUME EccGeometry, Written, Ecc!Check(cols), NEW word, word \subseteq Ecc!DataBits,
           NEW flips, flips \subseteq Ecc!CodeBits
    PROVE  LET read == Ecc!Decode(Ecc!SymDiff(Ecc!Encode(word), flips))
               n == Cardinality(flips)
           IN  /\ n = 0 => read = [data |-> word, single |-> FALSE, double |-> FALSE]
               /\ n = 1 => read = [data |-> word, single |-> TRUE, double |-> FALSE]
               /\ n = 2 => read.double /\ ~read.single
<1>1. IsFiniteSet(flips)
    BY CodeIsFinite, FS_Subset
<1>2. CASE Cardinality(flips) = 0
    <2>1. flips = {}
        BY <1>1, <1>2, FS_EmptySet
    <2>2. Ecc!SymDiff(Ecc!Encode(word), {}) = Ecc!Encode(word)
        BY DEF Ecc!SymDiff
    <2> QED BY <1>2, <2>1, <2>2, DecodesClean
<1>3. CASE Cardinality(flips) = 1
    <2>1. PICK b : flips = {b}
        BY <1>1, <1>3, FS_Singleton
    <2> QED BY <1>3, <2>1, DecodesOne
<1>4. CASE Cardinality(flips) = 2
    <2>1. PICK a \in flips : TRUE
        BY <1>4, FS_EmptySet
    <2>2. IsFiniteSet(flips \ {a}) /\ Cardinality(flips \ {a}) = 1
        BY <1>1, <1>4, <2>1, FS_RemoveElement
    <2>3. PICK b : flips \ {a} = {b}
        BY <2>2, FS_Singleton
    <2>4. flips = {a, b} /\ a # b
        BY <2>1, <2>3
    <2> QED BY <1>4, <2>4, DecodesTwo
<1> QED BY <1>2, <1>3, <1>4

\* Every place of the memory holds its word with the flips it had.
Stored(i) ==
    /\ meant[i] \subseteq Ecc!DataBits /\ hits[i] \subseteq Ecc!CodeBits
    /\ image[i] = Ecc!SymDiff(Ecc!Encode(meant[i]), hits[i])

Words(size) ==
    /\ image \in [1..size -> SUBSET Ecc!CodeBits]
    /\ hits \in [1..size -> SUBSET Ecc!CodeBits]
    /\ \A i \in 1..size : Stored(i)
Memory == \E size \in Nat : Words(size)

EccInv ==
    /\ ecc_pc \in {"generate", "build", "check", "emit", "written", "memory", "stopped"}
    /\ EccGeometry
    /\ ecc_pc \in {"emit", "written", "memory"} => Ecc!Check(cols)
    /\ ecc_pc \in {"written", "memory"} => Written
    /\ ecc_pc # "memory" => image = << >>
    /\ ecc_pc = "memory" => Memory

\* What the columns and the text say does not change with the memory.
LEMMA SameCode ==
    ASSUME EccGeometry, UNCHANGED <<geometry, cols, text>>
    PROVE  /\ Ecc!DataBits' = Ecc!DataBits /\ Ecc!CodeBits' = Ecc!CodeBits
           /\ EccGeometry'
           /\ Ecc!Check(cols) => Ecc!Check(cols)'
           /\ Written => Written'
<1>1. Ecc!Rows' = Ecc!Rows /\ \A r : Ecc!Literal(cols, r)' = Ecc!Literal(cols, r)
    BY DEF Ecc!Rows, Ecc!Literal, Ecc!Mask, Ecc!NibD, Ecc!DataBits
<1>2. Written => Written'
    BY <1>1 DEF Written
<1>3. Ecc!Check(cols) => Ecc!Check(cols)'
    BY DEF Ecc!Check, Ecc!Rows
<1> QED BY <1>2, <1>3 DEF Ecc!DataBits, Ecc!CodeBits, EccGeometry

LEMMA LengthOf ==
    ASSUME NEW n \in Nat, NEW S, NEW f \in [1..n -> S]
    PROVE  Len(f) = n
OBVIOUS

LEMMA StoredNext ==
    ASSUME EccGeometry, UNCHANGED <<geometry, cols, text>>
    PROVE  /\ \A i : Stored(i)' <=>
                  /\ meant'[i] \subseteq Ecc!DataBits /\ hits'[i] \subseteq Ecc!CodeBits
                  /\ image'[i] = Ecc!SymDiff(Ecc!Encode(meant'[i]), hits'[i])
           /\ \A size : Words(size)' <=>
                  /\ image' \in [1..size -> SUBSET Ecc!CodeBits]
                  /\ hits' \in [1..size -> SUBSET Ecc!CodeBits]
                  /\ \A i \in 1..size : Stored(i)'
           /\ UNCHANGED <<image, meant, hits>> => (Memory => Memory')
<1>1. Ecc!DataBits' = Ecc!DataBits /\ Ecc!CodeBits' = Ecc!CodeBits
    BY SameCode
<1>2. \A w : Ecc!Encode(w)' = Ecc!Encode(w)
    BY DEF Ecc!Encode, Ecc!Rows, Ecc!Mask, Ecc!DataBits
<1>3. \A i : Stored(i)' <=>
                  /\ meant'[i] \subseteq Ecc!DataBits /\ hits'[i] \subseteq Ecc!CodeBits
                  /\ image'[i] = Ecc!SymDiff(Ecc!Encode(meant'[i]), hits'[i])
    <2> TAKE i
    <2>1. Stored(i)' <=>
              /\ meant'[i] \subseteq Ecc!DataBits' /\ hits'[i] \subseteq Ecc!CodeBits'
              /\ image'[i] = Ecc!SymDiff(Ecc!Encode(meant[i])', hits'[i])
        BY DEF Stored, Ecc!SymDiff
    <2>2. Ecc!Encode(meant[i])' = Ecc!Encode(meant'[i])
        BY DEF Ecc!Encode, Ecc!Rows, Ecc!Mask, Ecc!DataBits
    <2> QED BY <1>1, <2>1, <2>2
<1>4. \A size : Words(size)' <=>
                  /\ image' \in [1..size -> SUBSET Ecc!CodeBits]
                  /\ hits' \in [1..size -> SUBSET Ecc!CodeBits]
                  /\ \A i \in 1..size : Stored(i)'
    BY <1>1 DEF Words
<1>5. UNCHANGED <<image, meant, hits>> => (Memory => Memory')
    BY <1>3, <1>4 DEF Memory, Words, Stored
<1> QED BY <1>3, <1>4, <1>5

LEMMA ImageMade ==
    ASSUME Ecc!SecDedAssumption, EccGeometry, Written, UNCHANGED <<geometry, cols, text>>,
           Ecc!MakeImage
    PROVE  Memory'
<1>1. \E n \in 0..MaxWords, pad \in 0..MaxPad :
      \E program \in [1..n -> {w \cap Ecc!DataBits : w \in Pattern}], flip \in Ecc!Flips(n) :
          LET size == Ecc!Max({n, pad})
              At(i) == IF i <= n THEN program[i] ELSE {}
              Flipped(i) == {b \in Ecc!CodeBits : <<i, b>> \in flip}
          IN /\ meant' = [i \in 1..size |-> At(i)]
             /\ hits' = [i \in 1..size |-> Flipped(i)]
             /\ image' = [i \in 1..size |-> Ecc!SymDiff(Ecc!Encode(At(i)), Flipped(i))]
    BY Zenon DEF Ecc!MakeImage
<1>2. PICK n \in 0..MaxWords, pad \in 0..MaxPad :
      \E program \in [1..n -> {w \cap Ecc!DataBits : w \in Pattern}], flip \in Ecc!Flips(n) :
           /\ meant' = [i \in 1..Ecc!Max({n, pad}) |-> IF i <= n THEN program[i] ELSE {}]
           /\ hits' = [i \in 1..Ecc!Max({n, pad}) |-> {b \in Ecc!CodeBits : <<i, b>> \in flip}]
           /\ image' = [i \in 1..Ecc!Max({n, pad}) |->
                            Ecc!SymDiff(Ecc!Encode(IF i <= n THEN program[i] ELSE {}),
                                        {b \in Ecc!CodeBits : <<i, b>> \in flip})]
    BY <1>1, Zenon
<1>3. PICK program \in [1..n -> {w \cap Ecc!DataBits : w \in Pattern}], flip \in Ecc!Flips(n) :
           /\ meant' = [i \in 1..Ecc!Max({n, pad}) |-> IF i <= n THEN program[i] ELSE {}]
           /\ hits' = [i \in 1..Ecc!Max({n, pad}) |-> {b \in Ecc!CodeBits : <<i, b>> \in flip}]
           /\ image' = [i \in 1..Ecc!Max({n, pad}) |->
                            Ecc!SymDiff(Ecc!Encode(IF i <= n THEN program[i] ELSE {}),
                                        {b \in Ecc!CodeBits : <<i, b>> \in flip})]
    BY <1>2, Zenon
<1>4. PICK size : size = Ecc!Max({n, pad})
    OBVIOUS
<1>5. /\ meant' = [i \in 1..size |-> IF i <= n THEN program[i] ELSE {}]
      /\ hits' = [i \in 1..size |-> {b \in Ecc!CodeBits : <<i, b>> \in flip}]
      /\ image' = [i \in 1..size |->
                       Ecc!SymDiff(Ecc!Encode(IF i <= n THEN program[i] ELSE {}),
                                   {b \in Ecc!CodeBits : <<i, b>> \in flip})]
    BY <1>3, <1>4, Zenon
<1>6. size \in Nat
    <2>1. n \in Nat /\ pad \in Nat
        BY DEF Ecc!SecDedAssumption
    <2>2. \E x \in {n, pad} : \A y \in {n, pad} : x >= y
        BY <2>1
    <2> QED BY <1>4, <2>1, <2>2 DEF Ecc!Max
<1>7. ASSUME NEW i \in 1..size
      PROVE  /\ meant'[i] \subseteq Ecc!DataBits /\ hits'[i] \subseteq Ecc!CodeBits
             /\ image'[i] = Ecc!SymDiff(Ecc!Encode(meant'[i]), hits'[i])
             /\ image'[i] \subseteq Ecc!CodeBits
    <2>1. meant'[i] = IF i <= n THEN program[i] ELSE {}
        BY <1>5
    <2>2. hits'[i] = {b \in Ecc!CodeBits : <<i, b>> \in flip}
        BY <1>5
    <2>3. image'[i] = Ecc!SymDiff(Ecc!Encode(IF i <= n THEN program[i] ELSE {}),
                                  {b \in Ecc!CodeBits : <<i, b>> \in flip})
        BY <1>5
    <2>4. image'[i] = Ecc!SymDiff(Ecc!Encode(meant'[i]), hits'[i])
        BY <2>1, <2>2, <2>3, Zenon
    <2>5. meant'[i] \subseteq Ecc!DataBits
        <3>1. CASE i <= n
            <4>1. program[i] \in {w \cap Ecc!DataBits : w \in Pattern}
                BY <1>3, <1>6, <3>1
            <4> QED BY <2>1, <3>1, <4>1
        <3>2. CASE ~(i <= n)
            BY <2>1, <3>2
        <3> QED BY <3>1, <3>2
    <2>6. Ecc!Encode(meant'[i]) \subseteq Ecc!CodeBits
        BY <2>5, EncodedIsClean
    <2>7. hits'[i] \subseteq Ecc!CodeBits
        BY <2>2
    <2> QED BY <2>4, <2>5, <2>6, <2>7 DEF Ecc!SymDiff
<1>8. /\ image' \in [1..size -> SUBSET Ecc!CodeBits]
      /\ hits' \in [1..size -> SUBSET Ecc!CodeBits]
    <2>1. /\ image' = [i \in 1..size |-> image'[i]]
          /\ hits' = [i \in 1..size |-> hits'[i]]
        BY <1>5
    <2> QED BY <1>7, <2>1
<1> QED BY <1>6, <1>7, <1>8, StoredNext DEF Memory

LEMMA UpsetKept ==
    ASSUME EccGeometry, UNCHANGED <<geometry, cols, text>>, Memory,
           NEW i \in 1..Len(image), NEW b \in Ecc!CodeBits, Ecc!Upset(i, b)
    PROVE  Memory'
<1>1. /\ UNCHANGED meant
      /\ image' = [image EXCEPT ![i] = Ecc!SymDiff(image[i], {b})]
      /\ hits' = [hits EXCEPT ![i] = Ecc!SymDiff(hits[i], {b})]
    BY DEF Ecc!Upset
<1>2. PICK size \in Nat : Words(size)
    BY DEF Memory
<1>3. /\ image \in [1..size -> SUBSET Ecc!CodeBits]
      /\ hits \in [1..size -> SUBSET Ecc!CodeBits]
      /\ \A k \in 1..size : Stored(k)
    BY <1>2 DEF Words
<1>4. i \in 1..size
    BY <1>3, LengthOf
<1>5. \A s \in SUBSET Ecc!CodeBits : Ecc!SymDiff(s, {b}) \in SUBSET Ecc!CodeBits
    BY DEF Ecc!SymDiff
<1>6. /\ image' \in [1..size -> SUBSET Ecc!CodeBits]
      /\ hits' \in [1..size -> SUBSET Ecc!CodeBits]
    BY <1>1, <1>3, <1>4, <1>5
<1>7. ASSUME NEW k \in 1..size PROVE Stored(k)'
    <2>1. /\ meant[k] \subseteq Ecc!DataBits /\ hits'[k] \subseteq Ecc!CodeBits
        BY <1>3, <1>6 DEF Stored
    <2>2. image[k] = Ecc!SymDiff(Ecc!Encode(meant[k]), hits[k])
        BY <1>3 DEF Stored
    <2>3. CASE k = i
        <3>1. image'[k] = Ecc!SymDiff(image[k], {b}) /\ hits'[k] = Ecc!SymDiff(hits[k], {b})
            BY <1>1, <1>3, <2>3
        <3>2. image'[k] = Ecc!SymDiff(Ecc!Encode(meant[k]), hits'[k])
            BY <2>2, <3>1 DEF Ecc!SymDiff
        <3> QED BY <1>1, <2>1, <3>2, StoredNext
    <2>4. CASE k # i
        <3>1. image'[k] = image[k] /\ hits'[k] = hits[k]
            BY <1>1, <1>3, <2>4
        <3> QED BY <1>1, <2>1, <2>2, <3>1, StoredNext
    <2> QED BY <2>3, <2>4
<1> QED BY <1>6, <1>7, StoredNext DEF Memory

LEMMA EccKept ==
    ASSUME Ecc!SecDedAssumption, EccInv, [Ecc!Next]_(Ecc!vars)
    PROVE  EccInv'
<1> USE DEF EccInv
<1>1. CASE Ecc!Arguments
    <2>1. EccGeometry'
        BY <1>1 DEF Ecc!Arguments, EccGeometry, Ecc!SecDedAssumption
    <2>2. ecc_pc' \in {"build", "stopped"} /\ image' = << >>
        BY <1>1 DEF Ecc!Arguments
    <2> QED BY <2>1, <2>2
<1>2. CASE Ecc!ChooseColumn
    <2>1. ecc_pc' \in {"build", "check"} /\ UNCHANGED <<geometry, image>>
        BY <1>2 DEF Ecc!ChooseColumn
    <2>2. image = << >>
        BY <1>2 DEF Ecc!ChooseColumn
    <2> QED BY <2>1, <2>2 DEF EccGeometry
<1>3. CASE Ecc!CheckColumns
    <2>1. /\ ecc_pc' \in {"emit", "stopped"} /\ UNCHANGED <<geometry, cols, image>>
          /\ ecc_pc' = "emit" => Ecc!Check(cols)
          /\ image = << >>
        BY <1>3 DEF Ecc!CheckColumns
    <2>2. Ecc!Check(cols)' <=> Ecc!Check(cols)
        BY <2>1 DEF Ecc!Check, Ecc!Rows
    <2> QED BY <2>1, <2>2 DEF EccGeometry
<1>4. CASE Ecc!Emit
    <2>1. UNCHANGED <<geometry, cols, image>> /\ image = << >> /\ Ecc!Check(cols)
        BY <1>4 DEF Ecc!Emit
    <2>2. Ecc!Check(cols)' <=> Ecc!Check(cols)
        BY <2>1 DEF Ecc!Check, Ecc!Rows
    <2>3. \/ ecc_pc' = "stopped"
          \/ ecc_pc' = "written" /\ text' = [r \in Ecc!Rows |-> Ecc!Literal(cols, r)]
        BY <1>4 DEF Ecc!Emit
    <2>4. Ecc!Rows' = Ecc!Rows /\ \A r : Ecc!Literal(cols, r)' = Ecc!Literal(cols, r)
        BY <2>1 DEF Ecc!Rows, Ecc!Literal, Ecc!Mask, Ecc!NibD, Ecc!DataBits
    <2>5. ecc_pc' = "written" => Written'
        BY <2>3, <2>4 DEF Written
    <2> QED BY <2>1, <2>2, <2>3, <2>5 DEF EccGeometry
<1>5. CASE Ecc!MakeImage
    <2>1. /\ UNCHANGED <<geometry, cols, text>> /\ ecc_pc' = "memory"
          /\ Ecc!Check(cols) /\ Written
        BY <1>5 DEF Ecc!MakeImage
    <2>2. EccGeometry' /\ Ecc!Check(cols)' /\ Written'
        BY <2>1, SameCode
    <2>3. Memory'
        BY <1>5, <2>1, ImageMade
    <2> QED BY <2>1, <2>2, <2>3
<1>6. CASE \E i \in 1..Len(image), b \in Ecc!CodeBits : Ecc!Upset(i, b)
    <2>1. /\ UNCHANGED <<geometry, cols, text, ecc_pc>> /\ ecc_pc = "memory"
          /\ Ecc!Check(cols) /\ Written /\ Memory
        BY <1>6 DEF Ecc!Upset
    <2>2. EccGeometry' /\ Ecc!Check(cols)' /\ Written'
        BY <2>1, SameCode
    <2>3. Memory'
        BY <1>6, <2>1, UpsetKept
    <2> QED BY <2>1, <2>2, <2>3
<1>7. CASE UNCHANGED Ecc!vars
    <2>1. UNCHANGED <<ecc_pc, geometry, cols, text, image, meant, hits>>
        BY <1>7 DEF Ecc!vars
    <2>2. /\ EccGeometry'
          /\ Ecc!Check(cols) => Ecc!Check(cols)'
          /\ Written => Written'
        BY <2>1, SameCode
    <2>3. Memory => Memory'
        BY <2>1, StoredNext
    <2> QED BY <2>1, <2>2, <2>3
<1> QED BY <1>1, <1>2, <1>3, <1>4, <1>5, <1>6, <1>7 DEF Ecc!Next

\* A memory read through the decoder that gen_secded.py writes, for every
\* geometry, program and padding: a word with no flipped bit is read as it was
\* written and nothing is reported, one with one flipped bit is corrected and
\* reported so, and two flipped bits are reported as beyond correction.
THEOREM CodeIsSecDed ==
    ASSUME Ecc!SecDedAssumption
    PROVE  Ecc!Spec => []DecodesRight
<1>1. Ecc!Init => EccInv
    BY DEF Ecc!Init, EccInv, EccGeometry
<1>2. EccInv /\ [Ecc!Next]_(Ecc!vars) => EccInv'
    BY EccKept
<1>3. EccInv => DecodesRight
    <2> SUFFICES ASSUME EccInv, NEW i \in 1..Len(image) PROVE Ecc!ReadsRight(i)
        BY DEF DecodesRight, Ecc!DecodesRight
    <2>1. CASE ecc_pc # "memory"
        <3>1. Len(<< >>) = 0
            OBVIOUS
        <3> QED BY <2>1, <3>1 DEF EccInv
    <2>2. CASE ecc_pc = "memory"
        <3>1. /\ EccGeometry /\ Written /\ Ecc!Check(cols)
            BY <2>2 DEF EccInv
        <3>2. PICK size \in Nat : Words(size)
            BY <2>2 DEF EccInv, Memory
        <3>3. Stored(i)
            BY <3>2, LengthOf DEF Words
        <3>4. PICK word, flips : word = meant[i] /\ flips = hits[i]
            OBVIOUS
        <3>5. PICK read : read = Ecc!Decode(image[i])
            OBVIOUS
        <3>6. /\ Cardinality(flips) = 0
                     => read = [data |-> word, single |-> FALSE, double |-> FALSE]
              /\ Cardinality(flips) = 1
                     => read = [data |-> word, single |-> TRUE, double |-> FALSE]
              /\ Cardinality(flips) = 2 => read.double /\ ~read.single
            BY <3>1, <3>3, <3>4, <3>5, ReadOf DEF Stored
        <3> QED BY <3>4, <3>5, <3>6, EccSets DEF Ecc!ReadsRight
    <2> QED BY <2>1, <2>2
<1> QED BY <1>1, <1>2, <1>3, PTL DEF Ecc!Spec

-----------------------------------------------------------------------------
(* The fault campaigns. *)

\* Induction on the natural numbers, for a set in the place of a predicate.
LEMMA SetInduction ==
    ASSUME NEW S, 0 \in S, \A k \in Nat : k \in S => k + 1 \in S
    PROVE  Nat \subseteq S
<1>1. PICK T : T = Nat \ S
    OBVIOUS
<1>2. SUFFICES ASSUME T # {} PROVE FALSE
    BY <1>1
<1>3. PICK x \in T : \A y \in T : ~(<<y, x>> \in OpToRel(<, Nat))
    BY <1>1, <1>2, NatLessThanWellFounded, WFMin
<1>4. \A y \in T : ~(y < x)
    BY <1>1, <1>3 DEF OpToRel
<1>5. x \in Nat /\ x # 0
    BY <1>1
<1>6. x - 1 \in T
    BY <1>1, <1>5
<1> QED BY <1>4, <1>5, <1>6

\* The recursion that appends the faults of one specification at a time.
Joins(f, specs, n) ==
    f = [i \in 0..n |-> IF i = 0 THEN <<>> ELSE f[i - 1] \o Campaign!SpecFaults(specs[i])]

LEMMA JoinExists ==
    ASSUME NEW specs
    PROVE  \A n \in Nat : \E f : Joins(f, specs, n)
<1>1. PICK S : S = {n \in Nat : \E f : Joins(f, specs, n)}
    OBVIOUS
<1>2. 0 \in S
    <2>1. Joins([i \in 0..0 |-> <<>>], specs, 0)
        BY DEF Joins
    <2> QED BY <1>1, <2>1
<1>3. ASSUME NEW k \in Nat, k \in S PROVE k + 1 \in S
    <2>1. PICK f : Joins(f, specs, k)
        BY <1>1, <1>3
    <2>2. PICK g : g = [i \in 0..(k + 1) |-> IF i = k + 1 THEN f[k] \o Campaign!SpecFaults(specs[k + 1]) ELSE f[i]]
        OBVIOUS
    <2>3. ASSUME NEW i \in 0..(k + 1)
          PROVE  g[i] = IF i = 0 THEN <<>> ELSE g[i - 1] \o Campaign!SpecFaults(specs[i])
        <3>1. CASE i = k + 1
            <4>1. g[k + 1] = f[k] \o Campaign!SpecFaults(specs[k + 1]) /\ g[k] = f[k]
                BY <2>2
            <4>2. i # 0 /\ i - 1 = k
                BY <3>1
            <4> QED BY <3>1, <4>1, <4>2
        <3>2. CASE i # k + 1
            <4>1. i \in 0..k
                BY <3>2
            <4>2. f[i] = IF i = 0 THEN <<>> ELSE f[i - 1] \o Campaign!SpecFaults(specs[i])
                BY <2>1, <4>1 DEF Joins
            <4>3. g[i] = f[i] /\ (i # 0 => g[i - 1] = f[i - 1])
                BY <2>2, <4>1
            <4> QED BY <4>2, <4>3
        <3> QED BY <3>1, <3>2
    <2>4. Joins(g, specs, k + 1)
        BY <2>2, <2>3 DEF Joins
    <2> QED BY <1>1, <2>4
<1> QED BY <1>1, <1>2, <1>3, SetInduction

LEMMA JoinIsSeq ==
    ASSUME NEW A, NEW n \in Nat, NEW specs, NEW f, Joins(f, specs, n),
           \A i \in 1..n : Campaign!SpecFaults(specs[i]) \in Seq(A)
    PROVE  f[n] \in Seq(A)
<1>1. PICK S : S = {k \in Nat : k <= n => f[k] \in Seq(A)}
    OBVIOUS
<1>2. \A k \in 0..n : f[k] = IF k = 0 THEN <<>> ELSE f[k - 1] \o Campaign!SpecFaults(specs[k])
    BY DEF Joins
<1>3. 0 \in S
    <2>1. f[0] = <<>>
        BY <1>2
    <2>2. <<>> \in Seq(A)
        BY EmptySeq
    <2> QED BY <1>1, <2>1, <2>2
<1>4. ASSUME NEW k \in Nat, k \in S PROVE k + 1 \in S
    <2>1. CASE ~(k + 1 <= n)
        BY <1>1, <2>1
    <2>2. CASE k + 1 <= n
        <3>1. f[k] \in Seq(A)
            BY <1>1, <1>4, <2>2
        <3>2. k + 1 \in 0..n /\ k + 1 # 0 /\ (k + 1) - 1 = k /\ k + 1 \in 1..n
            BY <2>2
        <3>3. f[k + 1] = f[k] \o Campaign!SpecFaults(specs[k + 1])
            BY <1>2, <3>2
        <3>4. Campaign!SpecFaults(specs[k + 1]) \in Seq(A)
            BY <3>2
        <3>5. f[k + 1] \in Seq(A)
            BY <3>1, <3>3, <3>4, ConcatProperties
        <3> QED BY <1>1, <3>5
    <2> QED BY <2>1, <2>2
<1>5. n \in S
    BY <1>1, <1>3, <1>4, SetInduction
<1> QED BY <1>1, <1>5

LEMMA SpecIsSeq ==
    ASSUME NEW t \in Nat, NEW bits \in Nat, NEW repeat \in Nat
    PROVE  Campaign!SpecFaults(<<t, bits, repeat>>) \in Seq([t : Nat, b : Nat])
<1>1. bits * repeat \in Nat
    OBVIOUS
<1>2. ASSUME NEW k \in 1..(bits * repeat)
      PROVE  (k - 1) \div repeat \in Nat
    <2>1. CASE repeat = 0
        BY <2>1
    <2>2. CASE repeat > 0
        <3>1. PICK m \in Nat : m = k - 1
            BY <1>1
        <3>2. m \div repeat \in Nat
            BY <2>2
        <3> QED BY <3>1, <3>2
    <2> QED BY <2>1, <2>2
<1>3. PICK size \in Nat : size = bits * repeat
    BY <1>1
<1>4. Campaign!SpecFaults(<<t, bits, repeat>>)
          = [k \in 1..size |-> [t |-> t, b |-> (k - 1) \div repeat]]
    BY <1>3 DEF Campaign!SpecFaults
<1>5. PICK R : R = [t : Nat, b : Nat]
    OBVIOUS
<1>6. \A k \in 1..size : [t |-> t, b |-> (k - 1) \div repeat] \in R
    BY <1>2, <1>3, <1>5
<1>7. PICK all : all = Campaign!SpecFaults(<<t, bits, repeat>>)
    OBVIOUS
<1>8. all \in [1..size -> R]
    BY <1>4, <1>6, <1>7
<1>9. all \in Seq(R)
    BY <1>8
<1> QED BY <1>5, <1>7, <1>9

\* The list of the boot loader's campaign is a sequence.
LEMMA BootIsSeq ==
    ASSUME Campaign!CampaignAssumption
    PROVE  Campaign!BootFaults \in Seq([t : Nat, b : Nat])
<1>0. PICK n \in Nat : n = Len(BootTargets)
    BY DEF Campaign!CampaignAssumption
<1>1. PICK specs :
          specs = [i \in 1..n |-> <<BootTargets[i][1], BootTargets[i][2], During + After>>]
    OBVIOUS
<1>2. Len(specs) = n
    BY <1>1
<1>3. ASSUME NEW i \in 1..n
      PROVE  Campaign!SpecFaults(specs[i]) \in Seq([t : Nat, b : Nat])
    <2>1. BootTargets[i] \in Nat \X Nat
        BY <1>0 DEF Campaign!CampaignAssumption
    <2>2. BootTargets[i][1] \in Nat /\ BootTargets[i][2] \in Nat
        BY <2>1
    <2>3. During + After \in Nat
        BY DEF Campaign!CampaignAssumption
    <2>4. specs[i] = <<BootTargets[i][1], BootTargets[i][2], During + After>>
        BY <1>1
    <2> QED BY <2>2, <2>3, <2>4, SpecIsSeq
<1>4. PICK f : f = CHOOSE u : Joins(u, specs, n)
    OBVIOUS
<1>5. Joins(f, specs, n)
    BY <1>4, JoinExists
<1>6. f[n] \in Seq([t : Nat, b : Nat])
    BY <1>3, <1>5, JoinIsSeq
<1>7. Campaign!SweepFaults(specs) = f[n]
    BY <1>2, <1>4, Zenon DEF Campaign!SweepFaults, Joins
<1>8. Campaign!BootFaults = Campaign!SweepFaults(specs)
    BY <1>0, <1>1 DEF Campaign!BootFaults
<1> QED BY <1>6, <1>7, <1>8

\* The runs that have been counted: those of a class, those of a class and a
\* target, and those of a target that nothing reported.
Came(c) == {i \in 1..(pos - 1) : Campaign!ClassOf(outcomes[i]) = c}
Hit(t, c) == {i \in 1..(pos - 1) : faults[i].t = t /\ Campaign!ClassOf(outcomes[i]) = c}
Blind(t) == {i \in 1..(pos - 1) :
                faults[i].t = t
                /\ Campaign!ClassOf(outcomes[i]) \notin {"detected", "detected-sw"}}

Counts ==
    /\ classes \in [Campaign!Classes -> Nat]
    /\ by_target \in [Campaign!Targets -> [Campaign!Classes -> Nat]]
    /\ would \in [Campaign!Targets -> Nat]
    /\ \A c \in Campaign!Classes :
           /\ classes[c] = Cardinality(Came(c))
           /\ Campaign!InTable(c) =>
                  \A t \in Campaign!Targets : by_target[t][c] = Cardinality(Hit(t, c))
    /\ sdc_cases = classes["SDC"]
    /\ \A t \in Campaign!Targets : would[t] <= Cardinality(Blind(t))

\* The outcomes are in the order of the faults, and nothing is counted before
\* all of them are there.
CampInv ==
    /\ Len(faults) \in Nat
    /\ outcomes = said
    /\ pos \in 1..(Len(faults) + 1)
    /\ fi_pc \in {"draw", "pool"} => pos = 1
    /\ fi_pc = "reported" => pos = Len(faults) + 1
    /\ Counts

LEMMA OneMore ==
    ASSUME NEW n \in Nat \ {0}, NEW S, S \subseteq 1..(n - 1)
    PROVE  /\ Cardinality(S) \in Nat
           /\ Cardinality(S \cup {n}) = Cardinality(S) + 1
<1>1. IsFiniteSet(1..(n - 1))
    BY FS_Interval
<1>2. IsFiniteSet(S)
    BY <1>1, FS_Subset
<1>3. n \notin S
    OBVIOUS
<1> QED BY <1>2, <1>3, FS_AddElement, FS_CardinalityType

LEMMA MaybeOneMore ==
    ASSUME NEW n \in Nat \ {0}, NEW S, S \subseteq 1..(n - 1), NEW b \in BOOLEAN,
           NEW T, T = S \cup (IF b THEN {n} ELSE {})
    PROVE  /\ Cardinality(S) \in Nat
           /\ Cardinality(T) = Cardinality(S) + (IF b THEN 1 ELSE 0)
<1>1. CASE b
    BY <1>1, OneMore
<1>2. CASE ~b
    <2>1. T = S
        BY <1>2
    <2>2. Cardinality(S) \in Nat
        BY OneMore
    <2>3. Cardinality(T) = Cardinality(S)
        BY <2>1
    <2> QED BY <1>2, <2>2, <2>3
<1> QED BY <1>1, <1>2

\* One count of a table of counts.
LEMMA Bumped ==
    ASSUME NEW D, NEW f \in [D -> Nat], NEW x
    PROVE  /\ [f EXCEPT ![x] = f[x] + 1] \in [D -> Nat]
           /\ \A d \in D : [f EXCEPT ![x] = f[x] + 1][d] = f[d] + (IF d = x THEN 1 ELSE 0)
<1>1. PICK g : g = [f EXCEPT ![x] = f[x] + 1]
    OBVIOUS
<1>2. \A d \in D : g[d] = f[d] + (IF d = x THEN 1 ELSE 0) /\ f[d] \in Nat
    BY <1>1
<1>3. g = [d \in D |-> g[d]]
    BY <1>1
<1>4. \A d \in D : g[d] \in Nat
    BY <1>2
<1>5. g \in [D -> Nat]
    BY <1>3, <1>4
<1> QED BY <1>1, <1>2, <1>5, Zenon

\* Nothing is counted before the first outcome.
LEMMA NothingCounted ==
    ASSUME pos = 1
    PROVE  \A t, c : Came(c) = {} /\ Hit(t, c) = {} /\ Blind(t) = {}
BY DEF Came, Hit, Blind

\* What is counted does not change where the outcomes do not.
LEMMA SameCounts ==
    ASSUME Counts,
           UNCHANGED <<campaign, pos, classes, by_target, would, sdc_cases>>,
           pos = 1 \/ UNCHANGED <<faults, outcomes>>
    PROVE  Counts'
<1>1. \A t, c : Came(c)' = Came(c) /\ Hit(t, c)' = Hit(t, c) /\ Blind(t)' = Blind(t)
    <2>1. CASE pos = 1
        BY <2>1 DEF Came, Hit, Blind
    <2>2. CASE UNCHANGED <<faults, outcomes>>
        BY <2>2 DEF Came, Hit, Blind, Campaign!ClassOf
    <2> QED BY <2>1, <2>2
<1>2. \A c : Campaign!InTable(c)' = Campaign!InTable(c)
    BY DEF Campaign!InTable
<1> QED BY <1>1, <1>2 DEF Counts

\* The next outcome is counted in its class, and in its row of the table.
LEMMA CountCounts ==
    ASSUME CampInv, Campaign!CountNext
    PROVE  Counts'
<1>1. PICK o, class, t :
          o = outcomes[pos] /\ class = Campaign!ClassOf(o) /\ t = faults[pos].t
    OBVIOUS
<1>2. /\ classes' = [classes EXCEPT ![class] = classes[class] + 1]
      /\ by_target' = IF Campaign!InTable(class)
                      THEN [by_target EXCEPT ![t] = [by_target[t] EXCEPT ![class] = by_target[t][class] + 1]]
                      ELSE by_target
      /\ would' = IF Campaign!WouldAdd(class, o) THEN [would EXCEPT ![t] = would[t] + 1] ELSE would
      /\ sdc_cases' = sdc_cases + (IF class = "SDC" THEN 1 ELSE 0)
      /\ pos' = pos + 1 /\ pos \in Nat \ {0}
      /\ UNCHANGED <<campaign, faults, outcomes>>
    BY <1>1 DEF Campaign!CountNext, CampInv
<1>3. \A c : Came(c)' = Came(c) \cup (IF class = c THEN {pos} ELSE {})
    BY <1>1, <1>2 DEF Came, Campaign!ClassOf
<1>4. \A u, c : Hit(u, c)' = Hit(u, c) \cup (IF u = t /\ class = c THEN {pos} ELSE {})
    BY <1>1, <1>2 DEF Hit, Campaign!ClassOf
<1>5. \A u : Blind(u)' = Blind(u) \cup
                 (IF u = t /\ class \notin {"detected", "detected-sw"} THEN {pos} ELSE {})
    BY <1>1, <1>2 DEF Blind, Campaign!ClassOf
<1>6. \A u, c : Came(c) \subseteq 1..(pos - 1) /\ Hit(u, c) \subseteq 1..(pos - 1)
                /\ Blind(u) \subseteq 1..(pos - 1)
    BY DEF Came, Hit, Blind
<1>7. \A c : /\ Cardinality(Came(c)) \in Nat
             /\ Cardinality(Came(c)') = Cardinality(Came(c)) + (IF class = c THEN 1 ELSE 0)
    <2> SUFFICES ASSUME NEW c
                 PROVE  /\ Cardinality(Came(c)) \in Nat
                        /\ Cardinality(Came(c)')
                               = Cardinality(Came(c)) + (IF class = c THEN 1 ELSE 0)
        OBVIOUS
    <2>1. PICK b \in BOOLEAN : b = (class = c)
        OBVIOUS
    <2>2. Came(c)' = Came(c) \cup (IF b THEN {pos} ELSE {})
        BY <1>3, <2>1
    <2> QED BY <1>2, <1>6, <2>1, <2>2, MaybeOneMore
<1>8. \A u, c : /\ Cardinality(Hit(u, c)) \in Nat
                /\ Cardinality(Hit(u, c)') = Cardinality(Hit(u, c))
                       + (IF u = t /\ class = c THEN 1 ELSE 0)
    <2> SUFFICES ASSUME NEW u, NEW c
                 PROVE  /\ Cardinality(Hit(u, c)) \in Nat
                        /\ Cardinality(Hit(u, c)') = Cardinality(Hit(u, c))
                               + (IF u = t /\ class = c THEN 1 ELSE 0)
        OBVIOUS
    <2>1. PICK b \in BOOLEAN : b = (u = t /\ class = c)
        OBVIOUS
    <2>2. Hit(u, c)' = Hit(u, c) \cup (IF b THEN {pos} ELSE {})
        BY <1>4, <2>1
    <2>3. /\ Cardinality(Hit(u, c)) \in Nat
          /\ Cardinality(Hit(u, c)') = Cardinality(Hit(u, c)) + (IF b THEN 1 ELSE 0)
        BY <1>2, <1>6, <2>2, MaybeOneMore
    <2> QED BY <2>1, <2>3
<1>9. \A u : /\ Cardinality(Blind(u)) \in Nat
             /\ Cardinality(Blind(u)') = Cardinality(Blind(u))
                    + (IF u = t /\ class \notin {"detected", "detected-sw"} THEN 1 ELSE 0)
    <2> SUFFICES ASSUME NEW u
                 PROVE  /\ Cardinality(Blind(u)) \in Nat
                        /\ Cardinality(Blind(u)') = Cardinality(Blind(u))
                               + (IF u = t /\ class \notin {"detected", "detected-sw"}
                                  THEN 1 ELSE 0)
        OBVIOUS
    <2>1. PICK b \in BOOLEAN : b = (u = t /\ class \notin {"detected", "detected-sw"})
        OBVIOUS
    <2>2. Blind(u)' = Blind(u) \cup (IF b THEN {pos} ELSE {})
        BY <1>5, <2>1
    <2>3. /\ Cardinality(Blind(u)) \in Nat
          /\ Cardinality(Blind(u)') = Cardinality(Blind(u)) + (IF b THEN 1 ELSE 0)
        BY <1>2, <1>6, <2>2, MaybeOneMore
    <2> QED BY <2>1, <2>3
<1>10. Counts
    BY DEF CampInv
<1>11. /\ classes' \in [Campaign!Classes -> Nat]
       /\ \A c \in Campaign!Classes : classes'[c] = classes[c] + (IF c = class THEN 1 ELSE 0)
    <2>1. classes \in [Campaign!Classes -> Nat]
        BY <1>10 DEF Counts
    <2>2. classes' = [classes EXCEPT ![class] = classes[class] + 1]
        BY <1>2
    <2> QED BY <2>1, <2>2, Bumped, Zenon
<1>12. /\ would' \in [Campaign!Targets -> Nat]
       /\ \A u \in Campaign!Targets :
              would'[u] = would[u] + (IF u = t /\ Campaign!WouldAdd(class, o) THEN 1 ELSE 0)
    <2>1. would \in [Campaign!Targets -> Nat]
        BY <1>10 DEF Counts
    <2>2. CASE Campaign!WouldAdd(class, o)
        <3>1. would' = [would EXCEPT ![t] = would[t] + 1]
            BY <1>2, <2>2
        <3>2. /\ would' \in [Campaign!Targets -> Nat]
              /\ \A u \in Campaign!Targets : would'[u] = would[u] + (IF u = t THEN 1 ELSE 0)
            BY <2>1, <3>1, Bumped, Zenon
        <3> QED BY <2>2, <3>2
    <2>3. CASE ~Campaign!WouldAdd(class, o)
        BY <1>2, <2>1, <2>3
    <2> QED BY <2>2, <2>3
<1>13. ASSUME NEW u \in Campaign!Targets
       PROVE  /\ by_target'[u] \in [Campaign!Classes -> Nat]
              /\ \A c \in Campaign!Classes : Campaign!InTable(c) =>
                     by_target'[u][c] = by_target[u][c] + (IF u = t /\ c = class THEN 1 ELSE 0)
    <2>1. by_target[u] \in [Campaign!Classes -> Nat]
        BY <1>10 DEF Counts
    <2>2. CASE u = t /\ Campaign!InTable(class)
        <3>1. by_target'[u] = [by_target[u] EXCEPT ![class] = by_target[u][class] + 1]
            BY <1>2, <1>10, <2>2 DEF Counts
        <3>2. PICK row, row2 : row = by_target[u] /\ row2 = by_target'[u]
            OBVIOUS
        <3>3. row \in [Campaign!Classes -> Nat] /\ row2 = [row EXCEPT ![class] = row[class] + 1]
            BY <2>1, <3>1, <3>2
        <3>4. /\ row2 \in [Campaign!Classes -> Nat]
              /\ \A c \in Campaign!Classes : row2[c] = row[c] + (IF c = class THEN 1 ELSE 0)
            BY <3>3, Bumped, ZenonT(60)
        <3>5. /\ by_target'[u] \in [Campaign!Classes -> Nat]
              /\ \A c \in Campaign!Classes :
                     by_target'[u][c] = by_target[u][c] + (IF c = class THEN 1 ELSE 0)
            BY <3>2, <3>4
        <3> QED BY <2>2, <3>5
    <2>3. CASE ~(u = t /\ Campaign!InTable(class))
        <3>1. by_target'[u] = by_target[u]
            BY <1>2, <1>10, <2>3 DEF Counts
        <3> QED BY <2>1, <2>3, <3>1
    <2> QED BY <2>2, <2>3
<1>14. by_target' \in [Campaign!Targets -> [Campaign!Classes -> Nat]]
    <2>1. by_target' = [u \in Campaign!Targets |-> by_target'[u]]
        BY <1>2, <1>10 DEF Counts
    <2> QED BY <1>13, <2>1
<1>15. \A c \in Campaign!Classes :
           /\ classes'[c] = Cardinality(Came(c)')
           /\ Campaign!InTable(c) =>
                  \A u \in Campaign!Targets : by_target'[u][c] = Cardinality(Hit(u, c)')
    BY <1>7, <1>8, <1>10, <1>11, <1>13 DEF Counts
<1>16. /\ sdc_cases' = classes'["SDC"]
       /\ \A u \in Campaign!Targets : would'[u] <= Cardinality(Blind(u)')
    <2>1. "SDC" \in Campaign!Classes
        BY DEF Campaign!Classes, Campaign!CoreClasses
    <2>2. Campaign!WouldAdd(class, o) => class \notin {"detected", "detected-sw"}
        BY DEF Campaign!WouldAdd
    <2>3. ASSUME NEW u \in Campaign!Targets
          PROVE  would'[u] <= Cardinality(Blind(u)')
        <3>1. would[u] \in Nat /\ would[u] <= Cardinality(Blind(u))
            BY <1>10 DEF Counts
        <3> QED BY <1>9, <1>12, <2>2, <3>1
    <2> QED BY <1>2, <1>10, <1>11, <2>1, <2>3 DEF Counts
<1>17. \A c : Campaign!InTable(c)' = Campaign!InTable(c)
    BY <1>2 DEF Campaign!InTable
<1> QED BY <1>11, <1>12, <1>14, <1>15, <1>16, <1>17 DEF Counts

LEMMA CampKept ==
    ASSUME Campaign!CampaignAssumption, CampInv, [Campaign!Next]_(Campaign!vars)
    PROVE  CampInv'
<1>1. CASE Campaign!DrawCore \/ Campaign!DrawBoot
    <2>1. PICK list : Campaign!Draw(list) /\ Len(list) \in Nat
        <3>1. \A l \in Lists : Len(l) \in Nat
            BY DEF Campaign!CampaignAssumption
        <3>2. Len(Campaign!BootFaults) \in Nat
            BY BootIsSeq
        <3> QED BY <1>1, <3>1, <3>2 DEF Campaign!DrawCore, Campaign!DrawBoot
    <2>2. pos = 1
        BY <2>1 DEF CampInv, Campaign!Draw
    <2>3. Counts'
        BY <2>1, <2>2, SameCounts DEF CampInv, Campaign!Draw
    <2> QED BY <2>1, <2>2, <2>3 DEF CampInv, Campaign!Draw
<1>2. CASE Campaign!NoReference \/ (\E j \in Jobs : Campaign!Take(j)) \/ Campaign!Collected
           \/ Campaign!StopsAt \/ Campaign!Report \/ UNCHANGED Campaign!vars
    <2>1. UNCHANGED <<campaign, pos, classes, by_target, would, sdc_cases, faults, outcomes, said>>
        BY <1>2 DEF Campaign!NoReference, Campaign!Take, Campaign!Collected, Campaign!StopsAt,
                    Campaign!Report, Campaign!vars
    <2>2. Counts'
        BY <2>1, SameCounts DEF CampInv
    <2>3. /\ fi_pc' \in {"draw", "pool"} => pos = 1
          /\ fi_pc' = "reported" => pos = Len(faults) + 1
        BY <1>2 DEF CampInv, Campaign!NoReference, Campaign!Take, Campaign!Collected,
                    Campaign!StopsAt, Campaign!Report, Campaign!vars, Campaign!N
    <2> QED BY <2>1, <2>2, <2>3 DEF CampInv
<1>3. ASSUME NEW j \in Jobs, Campaign!Finish(j) \/ Campaign!Overruns(j)
      PROVE  CampInv'
    <2>1. PICK o : Campaign!End(j, o)
        BY <1>3 DEF Campaign!Finish, Campaign!Overruns
    <2>2. pos = 1
        BY <2>1 DEF CampInv, Campaign!End
    <2>3. Counts'
        BY <2>1, <2>2, SameCounts DEF CampInv, Campaign!End
    <2> QED BY <2>1, <2>2, <2>3 DEF CampInv, Campaign!End, Campaign!Deliver
<1>4. CASE Campaign!CountNext
    BY <1>4, CountCounts DEF CampInv, Campaign!CountNext, Campaign!N
<1> QED BY <1>1, <1>2, <1>3, <1>4 DEF Campaign!Next

\* The report of a campaign is that of a campaign with one job, for any lists
\* of faults, any number of jobs and whatever the simulations print or overrun
\* (scripts/fi_campaign.py:171-175, 193-197).
THEOREM ReportsAreSequential ==
    ASSUME Campaign!CampaignAssumption
    PROVE  Campaign!Spec => []ReportIsSequential
<1>1. Campaign!Init => CampInv
    <2> SUFFICES ASSUME Campaign!Init PROVE CampInv
        OBVIOUS
    <2>1. Len(<< >>) = 0
        OBVIOUS
    <2>2. Counts
        <3>1. \A t, c : Cardinality(Came(c)) = 0 /\ Cardinality(Hit(t, c)) = 0
                        /\ Cardinality(Blind(t)) = 0
            BY NothingCounted, FS_EmptySet DEF Campaign!Init
        <3>2. "SDC" \in Campaign!Classes
            BY DEF Campaign!Classes, Campaign!CoreClasses
        <3> QED BY <3>1, <3>2 DEF Campaign!Init, Counts
    <2> QED BY <2>1, <2>2 DEF Campaign!Init, CampInv
<1>2. CampInv /\ [Campaign!Next]_(Campaign!vars) => CampInv'
    BY CampKept
<1>3. CampInv => ReportIsSequential
    <2> SUFFICES ASSUME CampInv, fi_pc = "reported" PROVE Campaign!ReportIsSequential
        BY DEF ReportIsSequential, Campaign!ReportIsSequential
    <2>1. pos - 1 = Campaign!N /\ outcomes = said /\ Counts
        BY DEF CampInv, Campaign!N
    <2>2. \A c : Came(c) = {i \in 1..Campaign!N : Campaign!ClassOf(said[i]) = c}
        BY <2>1 DEF Came
    <2>3. \A t, c : Hit(t, c) = {i \in 1..Campaign!N :
                                    faults[i].t = t /\ Campaign!ClassOf(said[i]) = c}
        BY <2>1 DEF Hit
    <2>4. \A t : Blind(t) = {i \in 1..Campaign!N :
                                faults[i].t = t
                                /\ Campaign!ClassOf(said[i]) \notin {"detected", "detected-sw"}}
        BY <2>1 DEF Blind
    <2>5. \A S : Campaign!Cardinality(S) = Cardinality(S)
        BY DEF Campaign!Cardinality, Cardinality, Campaign!IsFiniteSet, IsFiniteSet
    <2> QED BY <2>1, <2>2, <2>3, <2>4, <2>5
            DEF Counts, Campaign!ReportIsSequential, Campaign!Runs
<1> QED BY <1>1, <1>2, <1>3, PTL DEF Campaign!Spec

-----------------------------------------------------------------------------
(* The random co-simulation. *)

LEMMA SmallestOf ==
    ASSUME NEW I, I \subseteq Nat, I # {}
    PROVE  Random!Min(I) \in I /\ \A y \in I : Random!Min(I) <= y
<1>1. PICK x \in I : \A y \in I : ~(<<y, x>> \in OpToRel(<, Nat))
    BY NatLessThanWellFounded, WFMin
<1>2. x \in Nat /\ \A y \in I : y \in Nat
    OBVIOUS
<1>3. \A y \in I : ~(y < x)
    BY <1>1, <1>2 DEF OpToRel
<1>4. \A y \in I : x <= y
    BY <1>2, <1>3
<1> QED BY <1>4 DEF Random!Min

\* A log up to its first end label, if there is one.
LEMMA CutBefore ==
    ASSUME NEW trace, Len(trace) \in Nat, NEW i \in 1..Len(trace),
           trace[i][1] \in Random!Stops,
           \A k \in 1..(i - 1) : trace[k][1] \notin Random!Stops
    PROVE  Random!TruncateAt(trace) = [trace |-> SubSeq(trace, 1, i - 1), label |-> trace[i][1]]
<1>1. PICK I : I = {k \in 1..Len(trace) : trace[k][1] \in Random!Stops}
    OBVIOUS
<1>2. I \subseteq Nat /\ i \in I /\ \A k \in I : i <= k
    BY <1>1
<1>3. Random!Min(I) = i
    <2>1. Random!Min(I) \in I /\ Random!Min(I) <= i
        BY <1>2, SmallestOf
    <2>2. PICK m : m = Random!Min(I)
        OBVIOUS
    <2>3. m \in Nat /\ m <= i /\ i <= m
        BY <1>2, <2>1, <2>2
    <2>4. m = i
        BY <2>3
    <2> QED BY <2>2, <2>4
<1>4. Random!SelectInSeq(trace, LAMBDA e : e[1] \in Random!Stops) = i
    BY <1>1, <1>2, <1>3 DEF Random!SelectInSeq
<1>5. i # 0
    OBVIOUS
<1> QED BY <1>4, <1>5, Zenon DEF Random!TruncateAt

LEMMA NoCut ==
    ASSUME NEW trace, \A k \in 1..Len(trace) : trace[k][1] \notin Random!Stops
    PROVE  Random!TruncateAt(trace) = [trace |-> trace, label |-> Random!Reset]
<1>1. PICK I : I = {k \in 1..Len(trace) : trace[k][1] \in Random!Stops}
    OBVIOUS
<1>2. I = {}
    BY <1>1
<1>3. Random!SelectInSeq(trace, LAMBDA e : e[1] \in Random!Stops) = 0
    BY <1>1, <1>2 DEF Random!SelectInSeq
<1> QED BY <1>3 DEF Random!TruncateAt

\* Places of a program that are no end label, and what is right there.
Inside == 0..(Count + 2)
Entries == Inside \X {"right"}

\* What an execution retires, once the program has its length.
Architecture ==
    /\ Count \in Nat /\ Len(body) = Count
    /\ arch \in Seq(Entries)
    /\ Len(arch) > 0 /\ arch[1] = <<Random!Prologue, "right">>

\* A log that reads as the architecture's to the end label.
Reads(log) ==
    /\ Len(log) >= Len(arch) + 1
    /\ \A i \in 1..Len(arch) : log[i] = arch[i]
    /\ log[Len(arch) + 1][1] = Random!Done

LEMMA ArchPlaces ==
    ASSUME Architecture
    PROVE  /\ Len(arch) \in Nat
           /\ \A i \in 1..Len(arch) :
                  /\ arch[i] \in Entries /\ arch[i][1] \in Inside /\ arch[i][2] = "right"
                  /\ arch[i][1] \notin Random!Stops
           /\ Random!Done \in Random!Stops /\ Random!Done # Random!Reset
           /\ Random!Done = Count + 3 /\ Random!Fail = Count + 4
<1>1. \A i \in 1..Len(arch) : arch[i] \in Entries
    BY DEF Architecture
<1>2. \A e \in Entries : e[1] \in Inside /\ e[2] = "right"
    BY DEF Entries
<1>3. Random!Done = Count + 3 /\ Random!Fail = Count + 4
    BY DEF Architecture, Random!Done, Random!Fail
<1> QED BY <1>1, <1>2, <1>3 DEF Architecture, Inside, Random!Stops, Random!Reset

\* A log is cut to the architecture's retired instructions, and ends with them,
\* exactly if it reads as that does.
LEMMA CutReads ==
    ASSUME Architecture, NEW E, NEW log \in Seq(E)
    PROVE  /\ Reads(log) =>
                  /\ Random!TruncateAt(log).label = Random!Done
                  /\ Len(Random!TruncateAt(log).trace) = Len(arch)
                  /\ \A i \in 1..Len(arch) : Random!TruncateAt(log).trace[i] = arch[i]
           /\ (/\ Random!TruncateAt(log).label = Random!Done
               /\ Len(Random!TruncateAt(log).trace) = Len(arch)
               /\ \A i \in 1..Len(arch) : Random!TruncateAt(log).trace[i] = arch[i])
              => Reads(log)
<1>1. PICK n \in Nat : n = Len(arch)
    BY ArchPlaces
<1>2. PICK cut : cut = Random!TruncateAt(log)
    OBVIOUS
<1>3. ASSUME Reads(log)
      PROVE  cut.label = Random!Done /\ Len(cut.trace) = n /\ \A i \in 1..n : cut.trace[i] = arch[i]
    <2>1. /\ n + 1 \in 1..Len(log)
          /\ \A i \in 1..n : log[i] = arch[i]
          /\ log[n + 1][1] = Random!Done
        BY <1>1, <1>3 DEF Reads
    <2>2. cut = [trace |-> SubSeq(log, 1, n), label |-> Random!Done]
        <3>1. \A k \in 1..n : log[k][1] \notin Random!Stops
            BY <1>1, <2>1, ArchPlaces
        <3>2. (n + 1) - 1 = n
            OBVIOUS
        <3> QED BY <1>2, <2>1, <3>1, <3>2, CutBefore, ArchPlaces
    <2>3. \A i \in 1..n : log[i] \in E
        BY <2>1
    <2>4. Len(SubSeq(log, 1, n)) = n /\ \A i \in 1..n : SubSeq(log, 1, n)[i] = log[i]
        BY <1>1, <2>3, SubSeqProperties
    <2> QED BY <2>1, <2>2, <2>4
<1>4. ASSUME cut.label = Random!Done, Len(cut.trace) = n, \A i \in 1..n : cut.trace[i] = arch[i]
      PROVE  Reads(log)
    <2>1. PICK I : I = {k \in 1..Len(log) : log[k][1] \in Random!Stops}
        OBVIOUS
    <2>2. I # {}
        <3> SUFFICES ASSUME I = {} PROVE FALSE
            OBVIOUS
        <3>1. cut.label = Random!Reset
            BY <1>2, <2>1, NoCut
        <3> QED BY <1>4, <3>1, ArchPlaces
    <2>3. PICK m \in I : \A y \in I : m <= y
        <3>1. I \subseteq Nat
            BY <2>1
        <3> QED BY <2>2, <3>1, SmallestOf
    <2>4. m \in 1..Len(log) /\ log[m][1] \in Random!Stops
        BY <2>1
    <2>5. \A k \in 1..(m - 1) : log[k][1] \notin Random!Stops
        BY <2>1, <2>3, <2>4
    <2>6. cut = [trace |-> SubSeq(log, 1, m - 1), label |-> log[m][1]]
        BY <1>2, <2>4, <2>5, CutBefore
    <2>7. \A i \in 1..(m - 1) : log[i] \in E
        BY <2>4
    <2>8. Len(SubSeq(log, 1, m - 1)) = m - 1
          /\ \A i \in 1..(m - 1) : SubSeq(log, 1, m - 1)[i] = log[i]
        <3>1. m - 1 \in Int /\ m - 1 >= 0
            BY <2>4
        <3> QED BY <2>7, <3>1, SubSeqProperties
    <2>9. m = n + 1
        BY <1>4, <2>4, <2>6, <2>8
    <2> QED BY <1>1, <1>4, <2>4, <2>6, <2>8, <2>9 DEF Reads
<1> QED BY <1>1, <1>2, <1>3, <1>4

Told == Int \X {"right", "wrong"}

LEMMA RightIs ==
    ASSUME Architecture
    PROVE  /\ Random!Right \in Seq(Told) /\ Len(Random!Right) = Len(arch) + 1
           /\ \A i \in 1..Len(arch) : Random!Right[i] = arch[i]
           /\ Random!Right[Len(arch) + 1] = <<Random!Done, "right">>
           /\ Reads(Random!Right)
<1>1. arch \in Seq(Told)
    <2>1. Entries \subseteq Told
        BY DEF Entries, Told, Architecture, Inside
    <2> QED BY <2>1 DEF Architecture
<1>2. <<Random!Done, "right">> \in Told
    <2>1. Random!Done \in Int
        BY ArchPlaces DEF Architecture
    <2> QED BY <2>1 DEF Told
<1>3. /\ Random!Right \in Seq(Told) /\ Len(Random!Right) = Len(arch) + 1
      /\ \A i \in 1..Len(arch) : Random!Right[i] = arch[i]
      /\ Random!Right[Len(arch) + 1] = <<Random!Done, "right">>
    BY <1>1, <1>2, AppendProperties DEF Random!Right
<1>4. Reads(Random!Right)
    <2>1. Len(arch) \in Nat
        BY ArchPlaces
    <2> QED BY <1>3, <2>1 DEF Reads
<1> QED BY <1>3, <1>4

\* A beginning of what is right, with an entry behind it or not.
LEMMA PartIs ==
    ASSUME Architecture, NEW k \in 1..Len(arch)
    PROVE  /\ SubSeq(Random!Right, 1, k - 1) \in Seq(Told)
           /\ Len(SubSeq(Random!Right, 1, k - 1)) = k - 1
<1>1. k \in Int /\ k - 1 \in Int /\ k <= Len(arch) /\ Len(arch) \in Nat /\ k >= 1
    BY ArchPlaces
<1>2. \A i \in 1..(k - 1) : Random!Right[i] \in Told
    BY <1>1, RightIs
<1> QED BY <1>1, <1>2, SubSeqProperties

\* Nothing a core may do wrong reads as right.
LEMMA WrongMisses ==
    ASSUME Architecture, NEW stream \in Random!Wrong
    PROVE  stream \in Seq(Told) /\ ~Reads(stream)
<1>1. PICK n \in Nat : n = Len(arch)
    BY ArchPlaces
<1>2. PICK right : right = Random!Right
    OBVIOUS
<1>3. /\ right \in Seq(Told) /\ Len(right) = n + 1
      /\ \A i \in 1..n : right[i] = arch[i]
    BY <1>1, <1>2, RightIs
<1>4. CASE stream = arch
    <2>1. Entries \subseteq Told
        BY DEF Entries, Told, Architecture, Inside
    <2> QED BY <1>1, <1>4, <2>1 DEF Architecture, Reads
<1>5. ASSUME NEW k \in 1..n, stream = SubSeq(right, 1, k - 1)
      PROVE  stream \in Seq(Told) /\ ~Reads(stream)
    <2>1. stream \in Seq(Told) /\ Len(stream) = k - 1
        BY <1>1, <1>2, <1>5, PartIs
    <2> QED BY <1>1, <2>1 DEF Reads
<1>6. ASSUME NEW k \in 1..n, stream = Append(SubSeq(right, 1, k - 1), <<Random!Fail, "right">>)
      PROVE  stream \in Seq(Told) /\ ~Reads(stream)
    <2>1. PICK part \in Seq(Told) : part = SubSeq(right, 1, k - 1) /\ Len(part) = k - 1
        BY <1>1, <1>2, PartIs
    <2>2. <<Random!Fail, "right">> \in Told
        <3>1. Random!Fail \in Int
            BY ArchPlaces DEF Architecture
        <3> QED BY <3>1 DEF Told
    <2>3. /\ stream \in Seq(Told) /\ Len(stream) = k
          /\ stream[k] = <<Random!Fail, "right">>
        BY <1>6, <2>1, <2>2, AppendProperties
    <2>4. ~(k >= n + 1)
        OBVIOUS
    <2> QED BY <1>1, <2>3, <2>4 DEF Reads
<1>7. ASSUME NEW k \in 1..n, stream = [right EXCEPT ![k][2] = "wrong"]
      PROVE  stream \in Seq(Told) /\ ~Reads(stream)
    <2>1. PICK place \in Int : arch[k] = <<place, "right">>
        <3>1. arch[k] \in Entries
            BY <1>1, ArchPlaces
        <3> QED BY <3>1 DEF Entries, Inside, Architecture
    <2>2. stream = [right EXCEPT ![k] = [right[k] EXCEPT ![2] = "wrong"]]
        BY <1>7
    <2>3. [<<place, "right">> EXCEPT ![2] = "wrong"] = <<place, "wrong">>
        OBVIOUS
    <2>4. right[k] = <<place, "right">>
        BY <1>3, <2>1
    <2>5. stream = [right EXCEPT ![k] = <<place, "wrong">>]
        BY <2>2, <2>3, <2>4
    <2>6. k \in 1..Len(right) /\ <<place, "wrong">> \in Told
        BY <1>3 DEF Told
    <2>7. stream \in Seq(Told) /\ stream[k] = <<place, "wrong">>
        BY <1>3, <2>5, <2>6, ExceptSeq
    <2>8. stream[k] # arch[k]
        BY <2>1, <2>7
    <2> QED BY <1>1, <2>7, <2>8 DEF Reads
<1>8. ASSUME NEW k \in 1..n, stream = SubSeq(right, 1, k) \o SubSeq(right, k, n + 1)
      PROVE  stream \in Seq(Told) /\ ~Reads(stream)
    <2>1. PICK part, rest : part = SubSeq(right, 1, k) /\ rest = SubSeq(right, k, n + 1)
        OBVIOUS
    <2>2. \A i \in 1..(n + 1) : right[i] \in Told
        BY <1>3
    <2>3. part \in Seq(Told) /\ Len(part) = k
        BY <2>1, <2>2, SubSeqProperties
    <2>4. /\ rest \in Seq(Told) /\ Len(rest) = n + 2 - k
          /\ \A i \in 1..(n + 2 - k) : rest[i] = right[k + i - 1]
        BY <2>1, <2>2, SubSeqProperties
    <2>5. /\ stream \in Seq(Told)
          /\ \A i \in 1..(n + 2) : stream[i] = IF i <= k THEN part[i] ELSE rest[i - k]
        BY <1>8, <2>1, <2>3, <2>4, ConcatProperties
    <2>6. stream[n + 1] = rest[n + 1 - k]
        <3>1. n + 1 \in 1..(n + 2) /\ ~(n + 1 <= k)
            OBVIOUS
        <3> QED BY <2>5, <3>1
    <2>7. rest[n + 1 - k] = right[k + (n + 1 - k) - 1]
        BY <2>4
    <2>8. k + (n + 1 - k) - 1 = n
        OBVIOUS
    <2>9. stream[n + 1] = arch[n]
        BY <1>3, <2>6, <2>7, <2>8
    <2>10. stream[n + 1][1] # Random!Done
        BY <1>1, <2>9, ArchPlaces
    <2> QED BY <1>1, <2>5, <2>10 DEF Reads
<1>9. \/ stream = arch
      \/ \E k \in 1..n : \/ stream = [right EXCEPT ![k][2] = "wrong"]
                         \/ stream = SubSeq(right, 1, k) \o SubSeq(right, k, n + 1)
                         \/ stream = SubSeq(right, 1, k - 1)
                         \/ stream = Append(SubSeq(right, 1, k - 1), <<Random!Fail, "right">>)
    <2>1. Len(Random!Right) = n + 1
        BY <1>2, <1>3
    <2>2. \/ stream = arch
          \/ \E k \in 1..Len(arch) :
                 stream \in {[Random!Right EXCEPT ![k][2] = "wrong"],
                             SubSeq(Random!Right, 1, k) \o SubSeq(Random!Right, k, Len(Random!Right)),
                             SubSeq(Random!Right, 1, k - 1),
                             Append(SubSeq(Random!Right, 1, k - 1), <<Random!Fail, "right">>)}
        BY Zenon DEF Random!Wrong
    <2> QED BY <1>1, <1>2, <2>1, <2>2, Zenon
<1> QED BY <1>4, <1>5, <1>6, <1>7, <1>8, <1>9

\* The bound of a log that leaves room for the end label changes nothing.
LEMMA BoundReads ==
    ASSUME Architecture, NEW bound \in Nat, Len(arch) + 1 <= bound, NEW stream \in Seq(Told),
           NEW log, log = SubSeq(stream, 1, IF Len(stream) < bound THEN Len(stream) ELSE bound)
    PROVE  log \in Seq(Told) /\ (Reads(log) <=> Reads(stream))
<1>1. PICK n \in Nat : n = Len(arch)
    BY ArchPlaces
<1>2. PICK m \in Nat : m = IF Len(stream) < bound THEN Len(stream) ELSE bound
    OBVIOUS
<1>3. m <= Len(stream)
    BY <1>2
<1>4. \A i \in 1..m : stream[i] \in Told
    BY <1>3
<1>5. log \in Seq(Told) /\ Len(log) = m /\ \A i \in 1..m : log[i] = stream[i]
    <2>1. log = SubSeq(stream, 1, m)
        BY <1>2
    <2> QED BY <1>4, <2>1, SubSeqProperties
<1>6. n + 1 <= m <=> n + 1 <= Len(stream)
    BY <1>1, <1>2
<1> QED BY <1>1, <1>2, <1>5, <1>6 DEF Reads

\* The log of Spike, and what became of the one of the core.
SpikeLog ==
    \E tail \in 1..2 :
        spike = <<<<Random!Reset, "right">>>> \o arch
                \o [i \in 1..tail |-> <<Random!Done, "right">>]

RtlLog ==
    /\ rtl_log \in Seq(Told)
    /\ Reads(rtl_log) <=> seed \in good

LEMMA SpikeReads ==
    ASSUME Architecture, SpikeLog
    PROVE  LET start == Random!SelectInSeq(spike, LAMBDA e : e[1] = Random!Prologue)
               log == SubSeq(spike, start, Len(spike))
           IN  start = 2 /\ log \in Seq(Told) /\ Reads(log)
<1>1. PICK n \in Nat : n = Len(arch) /\ n > 0
    BY ArchPlaces DEF Architecture
<1>2. PICK tail \in 1..2 :
          spike = <<<<Random!Reset, "right">>>> \o arch
                  \o [i \in 1..tail |-> <<Random!Done, "right">>]
    BY DEF SpikeLog
<1>3. PICK front, back :
          /\ front = <<<<Random!Reset, "right">>>>
          /\ back = [i \in 1..tail |-> <<Random!Done, "right">>]
    OBVIOUS
<1>4. arch \in Seq(Told)
    <2>1. Entries \subseteq Told
        BY DEF Entries, Told, Architecture, Inside
    <2> QED BY <2>1 DEF Architecture
<1>5. /\ front \in Seq(Told) /\ Len(front) = 1 /\ front[1] = <<Random!Reset, "right">>
    <2>1. <<Random!Reset, "right">> \in Told
        BY DEF Random!Reset, Told
    <2> QED BY <1>3, <2>1
<1>6. /\ back \in Seq(Told) /\ Len(back) = tail
      /\ \A i \in 1..tail : back[i] = <<Random!Done, "right">>
    <2>1. <<Random!Done, "right">> \in Told
        BY ArchPlaces DEF Architecture, Told
    <2>2. back \in [1..tail -> Told]
        BY <1>3, <2>1
    <2>3. tail \in Nat
        OBVIOUS
    <2> QED BY <1>3, <2>2, <2>3
<1>7. PICK both : both = front \o arch
    OBVIOUS
<1>8. /\ both \in Seq(Told) /\ Len(both) = 1 + n
      /\ \A i \in 1..(1 + n) : both[i] = IF i <= 1 THEN front[i] ELSE arch[i - 1]
    <2>1. /\ both \in Seq(Told) /\ Len(both) = Len(front) + Len(arch)
          /\ \A i \in 1..(Len(front) + Len(arch)) :
                 both[i] = IF i <= Len(front) THEN front[i] ELSE arch[i - Len(front)]
        BY <1>4, <1>5, <1>7, ConcatProperties, Zenon
    <2> QED BY <1>1, <1>5, <2>1
<1>9. spike = both \o back
    BY <1>2, <1>3, <1>7
<1>10. /\ spike \in Seq(Told) /\ Len(spike) = 1 + n + tail
       /\ \A i \in 1..(1 + n + tail) : spike[i] = IF i <= 1 + n THEN both[i] ELSE back[i - (1 + n)]
    BY <1>6, <1>8, <1>9, ConcatProperties
<1>11. /\ spike[1] = <<Random!Reset, "right">>
       /\ \A i \in 1..n : spike[i + 1] = arch[i]
       /\ spike[n + 2] = <<Random!Done, "right">>
    <2>1. spike[1] = front[1]
        BY <1>8, <1>10
    <2>2. ASSUME NEW i \in 1..n PROVE spike[i + 1] = arch[i]
        <3>1. i + 1 \in 1..(1 + n) /\ i + 1 \in 1..(1 + n + tail) /\ ~(i + 1 <= 1) /\ (i + 1) - 1 = i
            OBVIOUS
        <3> QED BY <1>8, <1>10, <3>1
    <2>3. spike[n + 2] = back[1]
        <3>1. n + 2 \in 1..(1 + n + tail) /\ ~(n + 2 <= 1 + n) /\ (n + 2) - (1 + n) = 1
            OBVIOUS
        <3> QED BY <1>10, <3>1
    <2>4. 1 \in 1..tail
        OBVIOUS
    <2> QED BY <1>5, <1>6, <2>1, <2>2, <2>3, <2>4
<1>12. PICK I : I = {i \in 1..Len(spike) : spike[i][1] = Random!Prologue}
    OBVIOUS
<1>13. Random!Min(I) = 2 /\ I # {}
    <2>1. spike[2] = <<Random!Prologue, "right">>
        <3>1. spike[1 + 1] = arch[1]
            BY <1>1, <1>11
        <3> QED BY <3>1 DEF Architecture
    <2>2. 2 \in I
        BY <1>1, <1>10, <1>12, <2>1
    <2>3. 1 \notin I
        <3>1. spike[1][1] = -1
            BY <1>11 DEF Random!Reset
        <3> QED BY <1>12, <3>1 DEF Random!Prologue
    <2>4. I \subseteq Nat \ {0}
        BY <1>10, <1>12
    <2>5. PICK m : m = Random!Min(I)
        OBVIOUS
    <2>6. m \in I /\ m <= 2
        BY <2>2, <2>4, <2>5, SmallestOf
    <2>7. m \in Nat /\ m # 0 /\ m # 1
        BY <2>3, <2>4, <2>6
    <2>8. m = 2
        BY <2>6, <2>7
    <2> QED BY <2>2, <2>5, <2>8
<1>14. Random!SelectInSeq(spike, LAMBDA e : e[1] = Random!Prologue) = 2
    BY <1>12, <1>13 DEF Random!SelectInSeq
<1>15. PICK log : log = SubSeq(spike, 2, Len(spike))
    OBVIOUS
<1>16. log \in Seq(Told) /\ Reads(log)
    <2>1. \A i \in 2..(1 + n + tail) : spike[i] \in Told
        BY <1>10
    <2>2. 2 \in Int /\ 1 + n + tail \in Int /\ 2 <= 1 + n + tail
          /\ (1 + n + tail) - 2 + 1 = n + tail
        BY <1>1
    <2>3. /\ log \in Seq(Told) /\ Len(log) = n + tail
          /\ \A i \in 1..(n + tail) : log[i] = spike[2 + i - 1]
        BY <1>10, <1>15, <2>1, <2>2, SubSeqProperties
    <2>4. \A i \in 1..(n + 1) : i \in 1..(n + tail) /\ 2 + i - 1 = i + 1
        OBVIOUS
    <2>5. \A i \in 1..n : log[i] = arch[i]
        BY <1>11, <2>3, <2>4
    <2>6. log[n + 1][1] = Random!Done
        <3>1. log[n + 1] = spike[(n + 1) + 1]
            BY <2>3, <2>4
        <3>2. (n + 1) + 1 = n + 2
            OBVIOUS
        <3> QED BY <1>11, <3>1, <3>2
    <2>7. Len(log) >= n + 1
        BY <2>3
    <2> QED BY <1>1, <2>3, <2>5, <2>6, <2>7 DEF Reads
<1> QED BY <1>14, <1>15, <1>16

\* Comparing with Spike decides whether the core's log reads as right.
LEMMA ComparedRight ==
    ASSUME Architecture, SpikeLog, RtlLog, Len(arch) + 1 <= Random!RetireBound,
           Random!RetireBound \in Nat, Random!Compare
    PROVE  co_verdict' = "pass" <=> seed \in good
<1>1. PICK start, log, s, r :
          /\ start = Random!SelectInSeq(spike, LAMBDA e : e[1] = Random!Prologue)
          /\ log = SubSeq(spike, start, Len(spike))
          /\ s = Random!TruncateAt(log) /\ r = Random!TruncateAt(rtl_log)
    OBVIOUS
<1>2. start = 2 /\ log \in Seq(Told) /\ Reads(log)
    BY <1>1, SpikeReads
<1>3. /\ s.label = Random!Done /\ Len(s.trace) = Len(arch)
      /\ \A i \in 1..Len(arch) : s.trace[i] = arch[i]
    BY <1>1, <1>2, CutReads
<1>4. Reads(rtl_log) <=> /\ r.label = Random!Done /\ Len(r.trace) = Len(arch)
                         /\ \A i \in 1..Len(arch) : r.trace[i] = arch[i]
    BY <1>1, CutReads DEF RtlLog
<1>5. Len(arch) \in Nat /\ Random!Done # Random!Fail
    BY ArchPlaces DEF Architecture
<1>6. Random!Matches(s, r) <=> Reads(rtl_log)
    BY <1>3, <1>4, <1>5 DEF Random!Matches
<1>7. rtl_log = <<>> => ~Reads(rtl_log)
    <2>1. Len(<< >>) = 0
        OBVIOUS
    <2> QED BY <1>5, <2>1 DEF Reads
<1>8. co_verdict' = IF start # 0 /\ rtl_log # <<>> /\ Random!Matches(s, r) THEN "pass" ELSE "fail"
    BY <1>1, Zenon DEF Random!Compare
<1> QED BY <1>2, <1>6, <1>7, <1>8 DEF RtlLog

\* The program: a branch has a label that is not behind it, and no instruction
\* writes the counter of the loop.
Instr == [kind : {"op", "mem", "br"}, rd : {"pool", "zero"}, lab : Nat]

Program ==
    /\ body \in Seq(Instr) /\ Len(body) <= Count
    /\ target \in Seq(Nat)
    /\ \A i \in 1..Len(body) :
           body[i].kind = "br" =>
               /\ body[i].lab \in 1..Len(target)
               /\ target[body[i].lab] = 0 \/ target[body[i].lab] > i

\* How much is retired at a place: the loops that are done, and what is before
\* it in this one.
Round(n) == n * (Count + 2)
Retired ==
    /\ at = 0 => arch = <<>>
    /\ at # 0 => Len(arch) > 0
    /\ at \in 1..(Count + 1) =>
           counter \in 1..loops /\ Len(arch) <= Round(loops - counter) + at
    /\ at = Count + 2 =>
           counter \in 0..(loops - 1) /\ Len(arch) <= Round(loops - counter - 1) + Count + 2
    /\ at = Count + 3 => Len(arch) <= Round(loops) + 1

Executed ==
    /\ at \in 0..(Count + 3)
    /\ arch \in Seq(Entries)
    /\ Len(arch) > 0 => arch[1] = <<Random!Prologue, "right">>
    /\ Retired

\* The seeds that are done, and what is known of them.
Finished == IF co_pc \in {"next", "end"} THEN 1..seed ELSE 1..(seed - 1)
SeedsCounted ==
    /\ failed = Finished \ good
    /\ passed = Cardinality(good \cap Finished)
    /\ good \subseteq 1..seed
    /\ co_pc \in {"generate", "build", "spike", "rtl"} => good \subseteq 1..(seed - 1)
    /\ co_pc = "end" => seed = Seeds

CoInv ==
    /\ co_pc \in {"generate", "build", "spike", "rtl", "compare", "judged", "next", "end"}
    /\ seed \in 1..Seeds /\ loops \in Loops
    /\ Program /\ Executed
    /\ co_pc = "generate" => at = 0
    /\ co_pc # "generate" => Len(body) = Count
    /\ co_pc \in {"rtl", "compare"} => at = Count + 3 /\ SpikeLog
    /\ co_pc = "compare" => RtlLog
    /\ co_pc = "judged" => (co_verdict = "pass" <=> seed \in good)
    /\ SeedsCounted

LEMMA Rounds ==
    ASSUME Random!CosimAssumption
    PROVE  \A n \in Nat : /\ Round(n) \in Nat
                          /\ Round(n + 1) = Round(n) + Count + 2
                          /\ Round(n) + 2 <= Random!RetireBound \/ n # loops
                          /\ Round(0) = 0
<1> SUFFICES ASSUME NEW n \in Nat
             PROVE  /\ Round(n) \in Nat
                    /\ Round(n + 1) = Round(n) + Count + 2
                    /\ Round(n) + 2 <= Random!RetireBound \/ n # loops
                    /\ Round(0) = 0
    OBVIOUS
<1>1. Count \in Nat /\ Count >= 2 /\ Slack \in Nat /\ Slack >= 2
    BY DEF Random!CosimAssumption
<1>2. Round(n) \in Nat /\ Round(n + 1) = Round(n) + Count + 2 /\ Round(0) = 0
    BY <1>1 DEF Round
<1>3. ASSUME n = loops PROVE Round(n) + 2 <= Random!RetireBound
    <2>1. PICK d \in Nat : Count = d + 2
        <3>1. Count - 2 \in Nat /\ Count = (Count - 2) + 2
            BY <1>1
        <3> QED BY <3>1
    <2>2. n * (d + 4) = n * d + 4 * n /\ (d + 2) * n * 2 = 2 * (n * d) + 4 * n /\ n * d \in Nat
        OBVIOUS
    <2>3. Round(n) = n * (d + 4)
        BY <2>1 DEF Round
    <2>4. Random!RetireBound = (d + 2) * n * 2 + Slack
        BY <1>3, <2>1 DEF Random!RetireBound
    <2> QED BY <1>1, <2>2, <2>3, <2>4
<1> QED BY <1>2, <1>3

\* Labels land behind the instructions that are there.
LEMMA LandedIs ==
    ASSUME Program, NEW due
    PROVE  /\ Random!Landed(due) \in Seq(Nat) /\ Len(Random!Landed(due)) = Len(target)
           /\ \A l \in 1..Len(target) :
                  Random!Landed(due)[l] \in {target[l], Len(body) + 1}
<1>1. PICK n \in Nat : n = Len(target) /\ DOMAIN target = 1..n
    BY DEF Program
<1>2. PICK land : land = Random!Landed(due)
    OBVIOUS
<1>3. land = [l \in 1..n |-> IF \E p \in due : p.lab = l THEN Len(body) + 1 ELSE target[l]]
    BY <1>1, <1>2 DEF Random!Landed
<1>4. \A l \in 1..n : land[l] \in {target[l], Len(body) + 1}
    BY <1>3
<1>5. \A l \in 1..n : land[l] \in Nat
    BY <1>1, <1>4 DEF Program
<1>6. land \in [1..n -> Nat]
    BY <1>3, <1>5
<1>7. land \in Seq(Nat) /\ Len(land) = n
    BY <1>6
<1> QED BY <1>1, <1>2, <1>4, <1>7

LEMMA EmitKeeps ==
    ASSUME Random!CosimAssumption, Program, Random!Emit
    PROVE  Program'
<1>0. PICK due : due = {p \in pending : p.at <= Len(body)}
    OBVIOUS
<1>1. PICK i \in Random!Instructions :
          /\ body' = Append(body, i)
          /\ i.kind = "br" => target' = Append(Random!Landed(due), 0)
          /\ i.kind # "br" => target' = Random!Landed(due)
    BY <1>0 DEF Random!Emit
<1>2. i \in Instr /\ (i.kind = "br" => i.lab = Len(target) + 1)
    BY DEF Random!Instructions, Random!Instr, Random!Pool, Instr, Program
<1>3. PICK land : land = Random!Landed(due)
    OBVIOUS
<1>4. /\ land \in Seq(Nat) /\ Len(land) = Len(target)
      /\ \A l \in 1..Len(target) : land[l] \in {target[l], Len(body) + 1}
    BY <1>3, LandedIs
<1>5. /\ target' \in Seq(Nat)
      /\ Len(target') >= Len(target)
      /\ i.kind = "br" => Len(target') = Len(target) + 1 /\ target'[Len(target) + 1] = 0
      /\ \A l \in 1..Len(target) : target'[l] \in {target[l], Len(body) + 1}
    <2>1. CASE i.kind = "br"
        <3>1. target' = Append(land, 0) /\ 0 \in Nat
            BY <1>1, <1>3, <2>1
        <3> QED BY <1>4, <2>1, <3>1, AppendProperties
    <2>2. CASE i.kind # "br"
        BY <1>1, <1>3, <1>4, <2>2
    <2> QED BY <2>1, <2>2
<1>6. /\ body' \in Seq(Instr) /\ Len(body') = Len(body) + 1 /\ Len(body) \in Nat
      /\ \A k \in 1..Len(body) : body'[k] = body[k]
      /\ body'[Len(body) + 1] = i
    BY <1>1, <1>2, AppendProperties DEF Program
<1>7. Len(body') <= Count
    <2>1. Len(body) < Count
        BY DEF Random!Emit
    <2> QED BY <1>6, <2>1 DEF Random!CosimAssumption
<1>8. ASSUME NEW k \in 1..Len(body'), body'[k].kind = "br"
      PROVE  /\ body'[k].lab \in 1..Len(target')
             /\ target'[body'[k].lab] = 0 \/ target'[body'[k].lab] > k
    <2>1. CASE k = Len(body) + 1
        BY <1>2, <1>5, <1>6, <1>8, <2>1 DEF Program
    <2>2. CASE k # Len(body) + 1
        <3>1. k \in 1..Len(body) /\ body'[k] = body[k]
            BY <1>6, <2>2
        <3>2. PICK l : l = body[k].lab
            OBVIOUS
        <3>3. l \in 1..Len(target) /\ (target[l] = 0 \/ target[l] > k)
            BY <1>8, <3>1, <3>2 DEF Program
        <3>4. target'[l] = 0 \/ target'[l] > k
            BY <1>5, <1>6, <3>1, <3>3
        <3> QED BY <1>5, <3>1, <3>2, <3>3, <3>4 DEF Program
    <2> QED BY <2>1, <2>2
<1> QED BY <1>5, <1>6, <1>7, <1>8 DEF Program

LEMMA WriteKeeps ==
    ASSUME Program, Random!Write
    PROVE  Program'
<1>1. body' = body /\ target' = Random!Landed(pending)
    BY DEF Random!Write
<1>2. PICK land : land = Random!Landed(pending)
    OBVIOUS
<1>3. /\ land \in Seq(Nat) /\ Len(land) = Len(target)
      /\ \A l \in 1..Len(target) : land[l] \in {target[l], Len(body) + 1}
    BY <1>2, LandedIs
<1>4. ASSUME NEW k \in 1..Len(body), body[k].kind = "br"
      PROVE  body[k].lab \in 1..Len(land) /\ (land[body[k].lab] = 0 \/ land[body[k].lab] > k)
    <2>1. PICK l : l = body[k].lab
        OBVIOUS
    <2>2. l \in 1..Len(target) /\ (target[l] = 0 \/ target[l] > k)
        BY <1>4, <2>1 DEF Program
    <2>3. Len(body) \in Nat
        BY DEF Program
    <2> QED BY <1>3, <2>1, <2>2, <2>3
<1> QED BY <1>1, <1>2, <1>3, <1>4 DEF Program

\* Where a program goes from a place of its body.
LEMMA Onward ==
    ASSUME Random!CosimAssumption, CoInv, co_pc = "spike", at \in 0..Count
    PROVE  /\ Random!Following = IF at < Count THEN at + 1 ELSE Random!AfterBody
           /\ Random!AfterBody = IF loops > 1 THEN Count + 1 ELSE Count + 3
<1>1. Len(body) = Count
    BY DEF CoInv
<1> QED BY <1>1 DEF Random!Following, Random!AfterBody, Random!Decrement, Random!Done

\* Retiring the instruction at a place adds one entry at most, and one for the
\* prologue in any case.
LEMMA RetireAdds ==
    ASSUME Random!CosimAssumption, CoInv, co_pc = "spike", at \in 0..(Count + 2),
           NEW to, Random!Retire(to)
    PROVE  /\ at' = to /\ Len(arch) \in Nat
           /\ arch' \in Seq(Entries) /\ Len(arch') > 0 /\ arch'[1] = <<Random!Prologue, "right">>
           /\ Len(arch') <= Len(arch) + 1 /\ Len(arch') \in Nat
<1>1. /\ arch \in Seq(Entries) /\ Len(arch) \in Nat /\ Retired
      /\ Len(arch) > 0 => arch[1] = <<Random!Prologue, "right">>
    BY DEF CoInv, Executed
<1>2. <<at, "right">> \in Entries
    BY DEF Entries, Inside
<1>3. at' = to /\ arch' = IF Len(arch) < MaxRetired THEN Append(arch, <<at, "right">>) ELSE arch
    BY DEF Random!Retire
<1>4. CASE Len(arch) < MaxRetired
    <2>1. /\ arch' \in Seq(Entries) /\ Len(arch') = Len(arch) + 1
          /\ arch'[Len(arch) + 1] = <<at, "right">>
          /\ \A i \in 1..Len(arch) : arch'[i] = arch[i]
        BY <1>1, <1>2, <1>3, <1>4, AppendProperties
    <2>2. CASE Len(arch) > 0
        BY <1>1, <1>3, <2>1, <2>2
    <2>3. CASE Len(arch) = 0
        <3>1. at = 0
            BY <1>1, <2>3 DEF Retired
        <3> QED BY <1>1, <1>3, <2>1, <2>3, <3>1 DEF Random!Prologue
    <2> QED BY <1>1, <2>2, <2>3
<1>5. CASE ~(Len(arch) < MaxRetired)
    <2>1. Len(arch) > 0 /\ arch' = arch
        BY <1>1, <1>3, <1>5 DEF Random!CosimAssumption
    <2> QED BY <1>1, <1>3, <2>1
<1> QED BY <1>1, <1>3, <1>4, <1>5

\* From the prologue and from a place of the body a program goes on inside the
\* body, or behind it.
LEMMA BodyKeeps ==
    ASSUME Random!CosimAssumption, CoInv, co_pc = "spike", at \in 0..Count,
           NEW to, Random!Retire(to), to \in (at + 1)..Count \/ to = Random!AfterBody,
           counter' = IF at = 0 THEN loops ELSE counter
    PROVE  Executed'
<1>1. /\ Count \in Nat /\ Count >= 2 /\ loops \in Nat \ {0}
      /\ Retired /\ loops' = loops
    BY DEF Random!CosimAssumption, CoInv, Executed, Random!Retire
<1>2. /\ at' = to /\ Len(arch) \in Nat
      /\ arch' \in Seq(Entries) /\ Len(arch') > 0 /\ arch'[1] = <<Random!Prologue, "right">>
      /\ Len(arch') <= Len(arch) + 1 /\ Len(arch') \in Nat
    <2>1. at \in 0..(Count + 2)
        BY <1>1
    <2> QED BY <2>1, RetireAdds
<1>3. Random!AfterBody = IF loops > 1 THEN Count + 1 ELSE Count + 3
    BY Onward
<1>4. counter' \in 1..loops /\ Len(arch) <= Round(loops - counter') + at
    <2>1. CASE at = 0
        <3>1. Len(arch) = 0
            BY <1>1, <2>1 DEF Retired
        <3>2. loops - loops = 0
            BY <1>1
        <3>3. Round(0) = 0
            BY Rounds
        <3> QED BY <1>1, <2>1, <3>1, <3>2, <3>3
    <2>2. CASE at # 0
        BY <1>1, <2>2 DEF Retired
    <2> QED BY <2>1, <2>2
<1>5. PICK r \in Nat : r = Round(loops - counter')
    <2>1. loops - counter' \in Nat
        BY <1>1, <1>4
    <2> QED BY <2>1, Rounds
<1>6. CASE to \in (at + 1)..Count \/ to = Count + 1
    <2>1. to \in 1..(Count + 1) /\ to # 0 /\ to # Count + 2 /\ to # Count + 3 /\ to >= at + 1
        BY <1>1, <1>6
    <2>2. Len(arch') <= r + to
        BY <1>1, <1>2, <1>4, <1>5, <2>1
    <2>3. Len(arch') <= Round(loops' - counter') + to
        BY <1>1, <1>5, <2>2
    <2>4. Retired'
        BY <1>1, <1>2, <1>4, <2>1, <2>3 DEF Retired, Round
    <2> QED BY <1>1, <1>2, <2>1, <2>4 DEF Executed
<1>7. CASE to = Count + 3 /\ loops = 1
    <2>1. counter' = 1 /\ loops - counter' = 0
        BY <1>1, <1>4, <1>7
    <2>2. Round(0) = 0 /\ Round(0 + 1) = Round(0) + Count + 2
        BY Rounds
    <2>3. Len(arch') <= Round(1) + 1
        BY <1>1, <1>2, <1>4, <2>1, <2>2
    <2>4. Len(arch') <= Round(loops') + 1 /\ to = Count + 3 /\ ~(to \in 1..(Count + 1))
          /\ to # 0 /\ to # Count + 2
        BY <1>1, <1>7, <2>3
    <2>5. Retired'
        BY <1>2, <2>4 DEF Retired, Round
    <2> QED BY <1>1, <1>2, <2>4, <2>5 DEF Executed
<1> QED BY <1>1, <1>3, <1>6, <1>7

\* The loop takes one from the counter, and starts again as long as there is
\* one left.
LEMMA LoopKeeps ==
    ASSUME Random!CosimAssumption, CoInv, co_pc = "spike", Random!RetireLoop
    PROVE  Executed'
<1>1. /\ Count \in Nat /\ Count >= 2 /\ loops \in Nat \ {0} /\ Len(body) = Count
      /\ Retired
    BY DEF Random!CosimAssumption, CoInv, Executed
<1>2. /\ Random!Decrement = Count + 1 /\ Random!LoopBack = Count + 2 /\ Random!Done = Count + 3
      /\ body # <<>>
    BY <1>1 DEF Random!Decrement, Random!LoopBack, Random!Done
<1>3. ASSUME NEW to, Random!Retire(to), at \in 0..(Count + 2)
      PROVE  /\ at' = to /\ Len(arch) \in Nat /\ loops' = loops
             /\ arch' \in Seq(Entries) /\ Len(arch') > 0 /\ arch'[1] = <<Random!Prologue, "right">>
             /\ Len(arch') <= Len(arch) + 1 /\ Len(arch') \in Nat
    <2>1. loops' = loops
        BY <1>3 DEF Random!Retire
    <2> QED BY <1>3, <2>1, RetireAdds
<1>4. CASE at = Random!Decrement
    <2>1. counter' = counter - 1 /\ Random!Retire(Count + 2)
        BY <1>1, <1>2, <1>4 DEF Random!RetireLoop
    <2>2. counter \in 1..loops /\ Len(arch) <= Round(loops - counter) + at /\ at = Count + 1
        BY <1>1, <1>2, <1>4 DEF Retired
    <2>3. loops - counter' - 1 = loops - counter /\ counter' \in 0..(loops - 1)
        BY <1>1, <2>1, <2>2
    <2>4. PICK r \in Nat : r = Round(loops - counter)
        <3>1. loops - counter \in Nat
            BY <1>1, <2>2
        <3> QED BY <3>1, Rounds
    <2>5. /\ at' = Count + 2 /\ Len(arch) \in Nat /\ loops' = loops
          /\ arch' \in Seq(Entries) /\ Len(arch') > 0 /\ arch'[1] = <<Random!Prologue, "right">>
          /\ Len(arch') <= Len(arch) + 1 /\ Len(arch') \in Nat
        BY <1>1, <1>2, <1>3, <1>4, <2>1
    <2>6. Len(arch') <= Round(loops - counter' - 1) + Count + 2
        <3>1. Round(loops - counter' - 1) = r
            BY <2>3, <2>4
        <3>2. Len(arch') <= r + Count + 2
            BY <1>1, <2>2, <2>4, <2>5
        <3> QED BY <3>1, <3>2
    <2>7. /\ ~(Count + 2 \in 1..(Count + 1)) /\ Count + 2 # 0 /\ Count + 2 # Count + 3
          /\ Len(arch') <= Round(loops' - counter' - 1) + Count + 2
          /\ counter' \in 0..(loops' - 1)
        BY <1>1, <2>3, <2>5, <2>6
    <2>8. Retired'
        BY <2>5, <2>7 DEF Retired, Round
    <2> QED BY <1>1, <2>5, <2>8 DEF Executed
<1>5. CASE at = Random!LoopBack
    <2>1. /\ counter' = counter
          /\ counter # 0 => Random!Retire(1)
          /\ counter = 0 => Random!Retire(Count + 3)
        BY <1>1, <1>2, <1>5 DEF Random!RetireLoop
    <2>2. /\ counter \in 0..(loops - 1)
          /\ Len(arch) <= Round(loops - counter - 1) + Count + 2
        BY <1>1, <1>2, <1>5 DEF Retired
    <2>3. PICK n \in Nat : n = loops - counter - 1
        BY <1>1, <2>2
    <2>4. Round(n) \in Nat /\ Round(n + 1) = Round(n) + Count + 2 /\ n + 1 = loops - counter
        BY <1>1, <2>2, <2>3, Rounds
    <2>5. CASE counter # 0
        <3>1. /\ at' = 1 /\ Len(arch) \in Nat /\ loops' = loops
              /\ arch' \in Seq(Entries) /\ Len(arch') > 0 /\ arch'[1] = <<Random!Prologue, "right">>
              /\ Len(arch') <= Len(arch) + 1 /\ Len(arch') \in Nat
            BY <1>1, <1>2, <1>3, <1>5, <2>1, <2>5
        <3>2. counter' \in 1..loops /\ Len(arch') <= Round(loops - counter') + 1
            BY <1>1, <2>1, <2>2, <2>3, <2>4, <2>5, <3>1
        <3>3. /\ 1 \in 1..(Count + 1) /\ 1 # Count + 2 /\ 1 # Count + 3 /\ 1 # 0
              /\ Len(arch') <= Round(loops' - counter') + 1 /\ counter' \in 1..loops'
            BY <1>1, <3>1, <3>2
        <3>4. Retired'
            BY <3>1, <3>3 DEF Retired, Round
        <3> QED BY <1>1, <3>1, <3>4 DEF Executed
    <2>6. CASE counter = 0
        <3>1. /\ at' = Count + 3 /\ Len(arch) \in Nat /\ loops' = loops
              /\ arch' \in Seq(Entries) /\ Len(arch') > 0 /\ arch'[1] = <<Random!Prologue, "right">>
              /\ Len(arch') <= Len(arch) + 1 /\ Len(arch') \in Nat
            BY <1>1, <1>2, <1>3, <1>5, <2>1, <2>6
        <3>2. loops - counter = loops
            BY <1>1, <2>6
        <3>3. Len(arch') <= Round(loops) + 1
            BY <1>1, <2>2, <2>3, <2>4, <3>1, <3>2
        <3>4. /\ ~(Count + 3 \in 1..(Count + 1)) /\ Count + 3 # Count + 2 /\ Count + 3 # 0
              /\ Len(arch') <= Round(loops') + 1
            BY <1>1, <3>1, <3>3
        <3>5. Retired'
            BY <3>1, <3>4 DEF Retired, Round
        <3> QED BY <1>1, <3>1, <3>5 DEF Executed
    <2> QED BY <2>5, <2>6
<1> QED BY <1>4, <1>5 DEF Random!RetireLoop

LEMMA ExecutesKeeps ==
    ASSUME Random!CosimAssumption, CoInv, co_pc = "spike", Random!Executes, ~Random!SpikeEnds
    PROVE  Executed'
<1>1. /\ Count \in Nat /\ Count >= 2 /\ Len(body) = Count /\ body \in Seq(Instr)
      /\ at \in 0..(Count + 3) /\ Program
    BY DEF Random!CosimAssumption, CoInv, Executed, Program
<1>2. DOMAIN body = 1..Count
    BY <1>1
<1>3. CASE Random!RetirePrologue
    <2>1. at = 0 /\ counter' = loops /\ Random!Retire(Random!Following)
        BY <1>3 DEF Random!RetirePrologue, Random!Prologue
    <2>2. at \in 0..Count /\ Random!Following \in (at + 1)..Count
        BY <1>1, <2>1, Onward
    <2> QED BY <2>1, <2>2, BodyKeeps
<1>4. ASSUME at \in DOMAIN body, counter' = counter, Random!Retire(Random!Following)
      PROVE  Executed'
    <2>1. at \in 0..Count /\ at # 0
        BY <1>1, <1>2, <1>4
    <2>2. Random!Following \in (at + 1)..Count \/ Random!Following = Random!AfterBody
        BY <1>1, <2>1, Onward
    <2> QED BY <1>4, <2>1, <2>2, BodyKeeps
<1>5. CASE Random!RetireOp \/ Random!RetireMem
    <2>1. at \in DOMAIN body /\ body[at].rd # "counter"
        <3>1. at \in DOMAIN body
            BY <1>5 DEF Random!RetireOp, Random!RetireMem
        <3>2. body[at] \in Instr
            BY <1>1, <1>2, <3>1
        <3> QED BY <3>1, <3>2 DEF Instr
    <2>2. counter' = counter /\ Random!Retire(Random!Following)
        BY <1>5, <2>1 DEF Random!RetireOp, Random!RetireMem, Random!SetRegister
    <2> QED BY <1>4, <2>1, <2>2
<1>7. CASE Random!RetireBranch
    <2>1. PICK to : to = target[body[at].lab]
        OBVIOUS
    <2>2. /\ at \in DOMAIN body /\ body[at].kind = "br" /\ counter' = counter
          /\ \/ Random!Retire(Random!Following)
             \/ Random!Retire(IF to \in DOMAIN body THEN to ELSE Random!AfterBody)
        BY <1>7, <2>1 DEF Random!RetireBranch
    <2>3. to = 0 \/ to > at
        BY <1>1, <1>2, <2>1, <2>2 DEF Program
    <2>4. at \in 0..Count /\ at # 0
        BY <1>1, <1>2, <2>2
    <2>5. CASE Random!Retire(Random!Following)
        BY <1>4, <2>2, <2>5
    <2>6. CASE Random!Retire(to) /\ to \in DOMAIN body
        <3>1. to \in (at + 1)..Count
            BY <1>1, <1>2, <2>3, <2>4, <2>6
        <3> QED BY <2>2, <2>4, <2>6, <3>1, BodyKeeps
    <2>7. CASE Random!Retire(Random!AfterBody)
        BY <2>2, <2>4, <2>7, BodyKeeps
    <2> QED BY <2>2, <2>5, <2>6, <2>7
<1>8. CASE Random!RetireLoop
    BY <1>8, LoopKeeps
<1> QED BY <1>3, <1>5, <1>7, <1>8 DEF Random!Executes

\* At the end label the program has retired its architecture's instructions,
\* and fewer than the bound.
LEMMA AtTheEnd ==
    ASSUME Random!CosimAssumption, CoInv, at = Count + 3, Len(body) = Count
    PROVE  Architecture /\ Len(arch) + 1 <= Random!RetireBound /\ Random!RetireBound \in Nat
<1>1. /\ Count \in Nat /\ Slack \in Nat /\ loops \in Nat /\ Executed
    BY DEF Random!CosimAssumption, CoInv
<1>2. ~(at = 0) /\ ~(at \in 1..(Count + 1)) /\ at # Count + 2
    BY <1>1
<1>3. Len(arch) > 0 /\ Len(arch) <= Round(loops) + 1
    BY <1>2 DEF Executed, Retired, CoInv
<1>4. Architecture
    BY <1>1, <1>3 DEF Executed, Architecture
<1>5. Round(loops) + 2 <= Random!RetireBound /\ Round(loops) \in Nat
    BY <1>1, Rounds
<1>6. Random!RetireBound \in Nat
    BY <1>1 DEF Random!RetireBound
<1>7. Len(arch) \in Nat
    BY <1>4, ArchPlaces
<1> QED BY <1>3, <1>4, <1>5, <1>6, <1>7

LEMMA Finite ==
    ASSUME Random!CosimAssumption, CoInv
    PROVE  /\ IsFiniteSet(good \cap Finished)
           /\ Cardinality(good \cap Finished) \in Nat
           /\ seed \notin good \cap (1..(seed - 1))
<1>1. seed \in Nat
    BY DEF CoInv, Random!CosimAssumption
<1>2. IsFiniteSet(1..seed)
    BY <1>1, FS_Interval
<1>3. good \cap Finished \subseteq 1..seed
    BY DEF CoInv, SeedsCounted
<1> QED BY <1>1, <1>2, <1>3, FS_Subset, FS_CardinalityType

\* The logs are read by the program's parts that they are made of.
LEMMA SameLogs ==
    ASSUME UNCHANGED <<arch, spike, rtl_log, good, seed, body>>
    PROVE  /\ SpikeLog' = SpikeLog /\ RtlLog' = RtlLog
           /\ Architecture' = Architecture
BY DEF SpikeLog, RtlLog, Reads, Architecture, Random!Done, Entries, Inside

\* The steps that only move on, generating and building.
LEMMA CoGenerates ==
    ASSUME Random!CosimAssumption, CoInv,
           Random!Emit \/ Random!Write \/ Random!Build \/ Random!BuildFails
    PROVE  CoInv'
<1> USE DEF Random!program, Random!hart, Random!logs, Random!tally
<1>1. seed \in Nat \ {0} /\ Count \in Nat
    BY DEF Random!CosimAssumption, CoInv
<1>2. UNCHANGED <<seed, loops, at, counter, base, arch, good>>
    BY DEF Random!Emit, Random!Write, Random!Build, Random!BuildFails
<1>3. Executed'
    BY <1>2 DEF CoInv, Executed, Retired, Round, Entries, Inside, Random!Prologue
<1>4. CASE Random!Emit
    <2>1. Program'
        BY <1>4, EmitKeeps DEF CoInv
    <2>2. UNCHANGED <<co_pc, failed, passed>> /\ co_pc = "generate"
        BY <1>4 DEF Random!Emit
    <2>3. SeedsCounted'
        BY <1>2, <2>2 DEF CoInv, SeedsCounted, Finished
    <2> QED BY <1>2, <1>3, <2>1, <2>2, <2>3 DEF CoInv
<1>5. CASE Random!Write
    <2>1. Program'
        BY <1>5, WriteKeeps DEF CoInv
    <2>2. UNCHANGED <<failed, passed, body>> /\ co_pc = "generate" /\ co_pc' = "build"
          /\ Len(body) = Count
        BY <1>5 DEF Random!Write
    <2>3. SeedsCounted'
        BY <1>2, <2>2 DEF CoInv, SeedsCounted, Finished
    <2> QED BY <1>2, <1>3, <2>1, <2>2, <2>3 DEF CoInv
<1>6. CASE Random!Build
    <2>1. UNCHANGED <<failed, passed, body, target>> /\ co_pc = "build" /\ co_pc' = "spike"
        BY <1>6 DEF Random!Build
    <2>2. Program'
        BY <2>1 DEF CoInv, Program, Instr
    <2>3. SeedsCounted'
        BY <1>2, <2>1 DEF CoInv, SeedsCounted, Finished
    <2> QED BY <1>2, <1>3, <2>1, <2>2, <2>3 DEF CoInv
<1>7. CASE Random!BuildFails
    <2>1. /\ UNCHANGED <<passed, body, target>> /\ co_pc = "build" /\ co_pc' = "next"
          /\ failed' = failed \cup {seed}
        BY <1>7 DEF Random!BuildFails
    <2>2. Program'
        BY <2>1 DEF CoInv, Program, Instr
    <2>3. SeedsCounted'
        <3>1. /\ failed = (1..(seed - 1)) \ good /\ good \subseteq 1..(seed - 1)
              /\ passed = Cardinality(good \cap (1..(seed - 1)))
            BY <2>1 DEF CoInv, SeedsCounted, Finished
        <3>2. 1..seed = (1..(seed - 1)) \cup {seed} /\ seed \notin 1..(seed - 1)
            BY <1>1
        <3>3. failed' = (1..seed) \ good /\ good \cap (1..seed) = good \cap (1..(seed - 1))
            BY <2>1, <3>1, <3>2
        <3> QED BY <1>2, <2>1, <3>1, <3>2, <3>3 DEF SeedsCounted, Finished
    <2> QED BY <1>2, <1>3, <2>1, <2>2, <2>3 DEF CoInv
<1> QED BY <1>4, <1>5, <1>6, <1>7

\* The two executions of a program.
LEMMA CoExecutes ==
    ASSUME Random!CosimAssumption, CoInv, Random!Executes \/ Random!RunRtl
    PROVE  CoInv'
<1> USE DEF Random!program, Random!hart, Random!logs, Random!tally
<1>1. seed \in Nat \ {0} /\ Count \in Nat
    BY DEF Random!CosimAssumption, CoInv
<1>2. CASE Random!Executes /\ ~Random!SpikeEnds
    <2>1. /\ UNCHANGED <<co_pc, seed, loops, body, target, passed, failed, good>>
          /\ co_pc = "spike"
        BY <1>2 DEF Random!Executes, Random!RetirePrologue, Random!RetireOp, Random!RetireMem,
                    Random!RetireBranch, Random!RetireLoop, Random!Retire
    <2>2. Executed'
        BY <1>2, <2>1, ExecutesKeeps
    <2>3. Program' /\ SeedsCounted'
        BY <2>1 DEF CoInv, Program, Instr, SeedsCounted, Finished
    <2> QED BY <2>1, <2>2, <2>3 DEF CoInv
<1>3. CASE Random!SpikeEnds
    <2>1. /\ UNCHANGED <<seed, loops, body, target, at, counter, arch, passed, failed, good>>
          /\ co_pc = "spike" /\ co_pc' = "rtl" /\ at = Random!Done
        BY <1>3 DEF Random!SpikeEnds
    <2>2. Executed' /\ Program' /\ SeedsCounted'
        BY <2>1 DEF CoInv, Program, Instr, SeedsCounted, Finished, Executed, Retired, Round,
                    Entries, Inside, Random!Prologue
    <2>3. \E tail \in 1..2 :
              spike' = <<<<Random!Reset, "right">>>> \o arch
                       \o [i \in 1..tail |-> <<Random!Done, "right">>]
        BY <1>3 DEF Random!SpikeEnds
    <2>4. SpikeLog'
        BY <2>1, <2>3 DEF SpikeLog, Random!Done, Random!Reset
    <2>5. at = Count + 3 /\ Len(body) = Count
        BY <2>1 DEF CoInv, Random!Done
    <2> QED BY <2>1, <2>2, <2>4, <2>5 DEF CoInv
<1>4. CASE Random!RunRtl
    <2>1. /\ UNCHANGED <<seed, loops, body, target, at, counter, arch, spike, passed, failed>>
          /\ co_pc = "rtl" /\ co_pc' = "compare"
        BY <1>4 DEF Random!RunRtl
    <2>2. at = Count + 3 /\ SpikeLog /\ Len(body) = Count
        BY <2>1 DEF CoInv
    <2>3. Architecture /\ Len(arch) + 1 <= Random!RetireBound /\ Random!RetireBound \in Nat
        BY <2>2, AtTheEnd
    <2>4. PICK stream \in Random!Wrong \cup {Random!Right} :
              /\ rtl_log' = SubSeq(stream, 1, IF Len(stream) < Random!RetireBound THEN Len(stream)
                                              ELSE Random!RetireBound)
              /\ good' = IF stream = Random!Right THEN good \cup {seed} ELSE good
        BY <1>4 DEF Random!RunRtl
    <2>5. stream \in Seq(Told) /\ (Reads(stream) <=> stream = Random!Right)
        BY <2>3, RightIs, WrongMisses
    <2>6. PICK log : log = rtl_log'
        OBVIOUS
    <2>7. log \in Seq(Told) /\ (Reads(log) <=> Reads(stream))
        BY <2>3, <2>4, <2>5, <2>6, BoundReads
    <2>8. good \subseteq 1..(seed - 1) /\ seed \notin good
        BY <1>1, <2>1 DEF CoInv, SeedsCounted
    <2>9. Reads(log) <=> seed \in good'
        BY <2>4, <2>5, <2>7, <2>8
    <2>10. RtlLog'
        BY <2>1, <2>6, <2>7, <2>9 DEF RtlLog, Reads, Random!Done
    <2>11. Executed' /\ Program' /\ SpikeLog'
        BY <2>1, <2>2 DEF CoInv, Program, Instr, Executed, Retired, Round, SpikeLog, Entries,
                          Inside, Random!Prologue, Random!Done, Random!Reset
    <2>12. SeedsCounted'
        <3>1. /\ failed = (1..(seed - 1)) \ good
              /\ passed = Cardinality(good \cap (1..(seed - 1)))
            BY <2>1 DEF CoInv, SeedsCounted, Finished
        <3>2. seed \notin 1..(seed - 1) /\ 1..(seed - 1) \subseteq 1..seed /\ seed \in 1..seed
            BY <1>1
        <3>3. /\ (1..(seed - 1)) \ good' = (1..(seed - 1)) \ good
              /\ good' \cap (1..(seed - 1)) = good \cap (1..(seed - 1))
              /\ good' \subseteq 1..seed
            BY <2>4, <2>8, <3>2
        <3> QED BY <2>1, <3>1, <3>3 DEF SeedsCounted, Finished
    <2> QED BY <2>1, <2>2, <2>10, <2>11, <2>12 DEF CoInv
<1> QED BY <1>2, <1>3, <1>4

\* The judgement of a program and the next one.
LEMMA CoJudges ==
    ASSUME Random!CosimAssumption, CoInv,
           Random!Compare \/ Random!Tally \/ Random!NextSeed \/ Random!Finish
    PROVE  CoInv'
<1> USE DEF Random!program, Random!hart, Random!logs, Random!tally
<1>1. seed \in Nat \ {0} /\ Count \in Nat /\ Seeds \in Nat
    BY DEF Random!CosimAssumption, CoInv
<1>2. CASE Random!Compare
    <2>1. /\ UNCHANGED <<seed, loops, body, target, at, counter, arch, passed, failed, good>>
          /\ co_pc = "compare" /\ co_pc' = "judged"
        BY <1>2 DEF Random!Compare
    <2>2. at = Count + 3 /\ SpikeLog /\ RtlLog /\ Len(body) = Count
        BY <2>1 DEF CoInv
    <2>3. co_verdict' = "pass" <=> seed \in good
        BY <1>2, <2>2, AtTheEnd, ComparedRight
    <2>4. Executed' /\ Program' /\ SeedsCounted'
        BY <2>1 DEF CoInv, Program, Instr, Executed, Retired, Round, Entries, Inside,
                    Random!Prologue, SeedsCounted, Finished
    <2> QED BY <2>1, <2>2, <2>3, <2>4 DEF CoInv
<1>3. CASE Random!Tally
    <2>1. /\ UNCHANGED <<seed, loops, body, target, at, counter, arch, good>>
          /\ co_pc = "judged" /\ co_pc' = "next"
          /\ passed' = passed + (IF co_verdict = "pass" THEN 1 ELSE 0)
          /\ failed' = IF co_verdict = "pass" THEN failed ELSE failed \cup {seed}
        BY <1>3 DEF Random!Tally
    <2>2. Executed' /\ Program'
        BY <2>1 DEF CoInv, Program, Instr, Executed, Retired, Round, Entries, Inside,
                    Random!Prologue
    <2>3. /\ failed = (1..(seed - 1)) \ good /\ good \subseteq 1..seed
          /\ passed = Cardinality(good \cap (1..(seed - 1)))
          /\ co_verdict = "pass" <=> seed \in good
        BY <2>1 DEF CoInv, SeedsCounted, Finished
    <2>4. 1..seed = (1..(seed - 1)) \cup {seed} /\ seed \notin 1..(seed - 1)
        BY <1>1
    <2>5. PICK S : S = good \cap (1..(seed - 1))
        OBVIOUS
    <2>6. IsFiniteSet(S) /\ Cardinality(S) \in Nat /\ seed \notin S
        BY <2>1, <2>5, Finite DEF Finished
    <2>7. CASE seed \in good
        <3>1. good \cap (1..seed) = S \cup {seed} /\ (1..seed) \ good = (1..(seed - 1)) \ good
            BY <2>4, <2>5, <2>7
        <3>2. Cardinality(S \cup {seed}) = Cardinality(S) + 1
            BY <2>6, FS_AddElement
        <3>3. passed' = Cardinality(good \cap (1..seed)) /\ failed' = (1..seed) \ good
            BY <2>1, <2>3, <2>5, <2>7, <3>1, <3>2
        <3> QED BY <2>1, <2>2, <2>3, <3>3 DEF CoInv, SeedsCounted, Finished
    <2>8. CASE seed \notin good
        <3>1. good \cap (1..seed) = S /\ (1..seed) \ good = ((1..(seed - 1)) \ good) \cup {seed}
            BY <2>4, <2>5, <2>8
        <3>2. passed' = Cardinality(good \cap (1..seed)) /\ failed' = (1..seed) \ good
            <4>1. passed' = passed /\ passed = Cardinality(S)
                <5>1. passed = Cardinality(S)
                    BY <2>3, <2>5
                <5>2. passed' = passed + 0
                    BY <2>1, <2>3, <2>8
                <5> QED BY <2>6, <5>1, <5>2
            <4>2. failed' = failed \cup {seed}
                BY <2>1, <2>3, <2>8
            <4> QED BY <2>3, <3>1, <4>1, <4>2
        <3> QED BY <2>1, <2>2, <2>3, <3>2 DEF CoInv, SeedsCounted, Finished
    <2> QED BY <2>7, <2>8
<1>4. CASE Random!NextSeed
    <2>1. /\ UNCHANGED <<loops, passed, failed, good>>
          /\ seed' = seed + 1 /\ seed < Seeds /\ co_pc = "next" /\ co_pc' = "generate"
          /\ body' = <<>> /\ target' = <<>> /\ at' = 0 /\ arch' = <<>>
        BY <1>4 DEF Random!NextSeed, Random!Prologue
    <2>2. Len(<< >>) = 0
        OBVIOUS
    <2>3. Program' /\ Executed'
        BY <1>1, <2>1, <2>2 DEF Program, Executed, Retired
    <2>4. seed' - 1 = seed /\ seed' \in 1..Seeds /\ 1..seed \subseteq 1..(seed + 1)
        BY <1>1, <2>1
    <2>5. SeedsCounted'
        BY <2>1, <2>4 DEF CoInv, SeedsCounted, Finished
    <2> QED BY <2>1, <2>3, <2>4, <2>5 DEF CoInv
<1>5. CASE Random!Finish
    <2>1. /\ UNCHANGED <<seed, loops, body, target, at, counter, arch, passed, failed, good>>
          /\ co_pc = "next" /\ co_pc' = "end" /\ seed = Seeds
        BY <1>5 DEF Random!Finish
    <2>2. Executed' /\ Program' /\ SeedsCounted'
        BY <2>1 DEF CoInv, Program, Instr, Executed, Retired, Round, Entries, Inside,
                    Random!Prologue, SeedsCounted, Finished
    <2> QED BY <2>1, <2>2 DEF CoInv
<1> QED BY <1>2, <1>3, <1>4, <1>5

\* A regression counts as matching exactly the programs the core retired as the
\* architecture does, for any number of seeds, any length of the body and any
\* number of loops: whatever a core does wrong, and however long the program
\* ran, the comparison up to the end label decides it (cosim.py:205-240,
\* random_regress.py:84-92).
THEOREM RegressionIsExact ==
    ASSUME Random!CosimAssumption
    PROVE  Random!Spec => []RegressExact
<1>1. Random!Init => CoInv
    <2> SUFFICES ASSUME Random!Init PROVE CoInv
        OBVIOUS
    <2>1. Len(<< >>) = 0
        OBVIOUS
    <2>2. Program /\ Executed
        BY <2>1 DEF Random!Init, Random!CosimAssumption, Program, Executed, Retired, Random!Prologue
    <2>3. Cardinality({}) = 0 /\ 1..(1 - 1) = {}
        BY FS_EmptySet
    <2>4. SeedsCounted
        BY <2>3 DEF Random!Init, SeedsCounted, Finished
    <2>5. 1 \in 1..Seeds
        BY DEF Random!CosimAssumption
    <2> QED BY <2>2, <2>4, <2>5 DEF Random!Init, CoInv, Random!Prologue
<1>2. ASSUME CoInv, [Random!Next]_(Random!vars) PROVE CoInv'
    <2>1. CASE UNCHANGED Random!vars
        <3>1. UNCHANGED <<co_pc, seed, loops, body, target, at, counter, base, arch, spike,
                          rtl_log, co_verdict, passed, failed, good>>
            BY <2>1 DEF Random!vars, Random!program, Random!hart, Random!logs, Random!tally
        <3>2. Executed' /\ Program' /\ SeedsCounted' /\ (SpikeLog => SpikeLog') /\ (RtlLog => RtlLog')
            BY <1>2, <3>1, SameLogs DEF CoInv, Program, Instr, Executed, Retired, Round, Entries,
                        Inside, Random!Prologue, SeedsCounted, Finished
        <3> QED BY <1>2, <3>1, <3>2 DEF CoInv
    <2> QED BY <1>2, <2>1, CoGenerates, CoExecutes, CoJudges DEF Random!Next
<1>3. CoInv => RegressExact
    <2> SUFFICES ASSUME CoInv, co_pc = "end" PROVE RegressExact
        BY DEF RegressExact, Random!RegressExact
    <2>1. failed = (1..Seeds) \ good /\ passed = Cardinality(good \cap (1..Seeds))
          /\ good \subseteq 1..Seeds
        BY DEF CoInv, SeedsCounted, Finished
    <2>2. good \cap (1..Seeds) = good
        BY <2>1
    <2>3. \A S : Random!Cardinality(S) = Cardinality(S)
        BY DEF Random!Cardinality, Cardinality, Random!IsFiniteSet, IsFiniteSet
    <2> QED BY <2>1, <2>2, <2>3 DEF RegressExact, Random!RegressExact
<1> QED BY <1>1, <1>2, <1>3, PTL DEF Random!Spec

-----------------------------------------------------------------------------
(* The pad ring. *)

LEMMA PadSets ==
    /\ \A S : Pads!Cardinality(S) = Cardinality(S)
    /\ \A S : Pads!IsFiniteSet(S) <=> IsFiniteSet(S)
BY DEF Pads!Cardinality, Cardinality, Pads!IsFiniteSet, IsFiniteSet

SideSet == {"south", "east", "north", "west"}

LEMMA FourSides ==
    /\ Pads!ToSet(Pads!Sides) = SideSet
    /\ Pads!Sides[1] = "south" /\ Pads!Sides[2] = "east"
    /\ Pads!Sides[3] = "north" /\ Pads!Sides[4] = "west"
<1>1. PICK f : f = Pads!Sides
    OBVIOUS
<1>2. f = <<"south", "east", "north", "west">>
    BY <1>1 DEF Pads!Sides
<1>3. f[1] = "south" /\ f[2] = "east" /\ f[3] = "north" /\ f[4] = "west" /\ DOMAIN f = 1..4
    BY <1>2
<1>4. {f[i] : i \in DOMAIN f} = SideSet
    <2>1. 1..4 = {1, 2, 3, 4}
        OBVIOUS
    <2> QED BY <1>3, <2>1 DEF SideSet
<1> QED BY <1>1, <1>3, <1>4 DEF Pads!ToSet

\* Four rows joined, one after the other.
Joined(q) == ((q[1] \o q[2]) \o q[3]) \o q[4]

LEMMA FourJoined ==
    ASSUME NEW q, Len(q) = 4
    PROVE  Pads!FlattenSeq(q) = Joined(q)
<1> DEFINE Rows(f) == f = [i \in 1..Len(q) |-> IF i = 1 THEN q[i] ELSE f[i - 1] \o q[i]]
<1>1. \E f : Rows(f)
    <2>1. PICK f : f = [i \in 1..4 |-> CASE i = 1 -> q[1]
                                        [] i = 2 -> q[1] \o q[2]
                                        [] i = 3 -> (q[1] \o q[2]) \o q[3]
                                        [] i = 4 -> ((q[1] \o q[2]) \o q[3]) \o q[4]]
        OBVIOUS
    <2>2. /\ f[1] = q[1] /\ f[2] = q[1] \o q[2] /\ f[3] = (q[1] \o q[2]) \o q[3]
          /\ f[4] = ((q[1] \o q[2]) \o q[3]) \o q[4]
        BY <2>1, SMTT(40)
    <2>3. ASSUME NEW i \in 1..4 PROVE f[i] = IF i = 1 THEN q[i] ELSE f[i - 1] \o q[i]
        <3>1. CASE i = 1
            BY <2>2, <3>1
        <3>2. CASE i = 2
            <4>1. i - 1 = 1 /\ i # 1
                BY <3>2
            <4> QED BY <2>2, <3>2, <4>1
        <3>3. CASE i = 3
            <4>1. i - 1 = 2 /\ i # 1
                BY <3>3
            <4> QED BY <2>2, <3>3, <4>1
        <3>4. CASE i = 4
            <4>1. i - 1 = 3 /\ i # 1
                BY <3>4
            <4> QED BY <2>2, <3>4, <4>1
        <3> QED BY <3>1, <3>2, <3>3, <3>4
    <2>4. f = [i \in 1..4 |-> IF i = 1 THEN q[i] ELSE f[i - 1] \o q[i]]
        BY <2>1, <2>3
    <2> QED BY <2>4
<1>2. PICK f : f = CHOOSE g : Rows(g)
    OBVIOUS
<1>3. Rows(f)
    BY <1>1, <1>2
<1>4. Pads!FlattenSeq(q) = f[4]
    <2>1. Len(q) # 0
        OBVIOUS
    <2>2. Pads!FlattenSeq(q) = f[Len(q)]
        BY <1>2, <2>1, Zenon DEF Pads!FlattenSeq
    <2> QED BY <2>2
<1>5. f = [i \in 1..4 |-> IF i = 1 THEN q[i] ELSE f[i - 1] \o q[i]]
    BY <1>3
<1>6. f[1] = q[1] /\ f[2] = f[1] \o q[2] /\ f[3] = f[2] \o q[3] /\ f[4] = f[3] \o q[4]
    <2>1. \A i \in 1..4 : f[i] = IF i = 1 THEN q[i] ELSE f[i - 1] \o q[i]
        BY <1>5
    <2>2. f[1] = q[1]
        BY <2>1
    <2>3. \A i \in 1..4 : i # 1 => f[i] = f[i - 1] \o q[i]
        BY <2>1, Zenon
    <2>4. 2 \in 1..4 /\ 3 \in 1..4 /\ 4 \in 1..4 /\ 2 # 1 /\ 3 # 1 /\ 4 # 1
        OBVIOUS
    <2>5. f[2] = f[2 - 1] \o q[2] /\ f[3] = f[3 - 1] \o q[3] /\ f[4] = f[4 - 1] \o q[4]
        BY <2>3, <2>4, Zenon
    <2>6. 2 - 1 = 1 /\ 3 - 1 = 2 /\ 4 - 1 = 3
        OBVIOUS
    <2> QED BY <2>2, <2>5, <2>6
<1> QED BY <1>4, <1>6 DEF Joined

\* The rows of a side of the die, and where a pad of the die comes from.
Row(s) == Pads!Built(s)
Place == [i \in 1..(Len(Row("south")) + Len(Row("east")) + Len(Row("north"))
                    + Len(Row("west"))) |->
    LET a == Len(Row("south"))
        b == a + Len(Row("east"))
        c == b + Len(Row("north"))
    IN IF i <= a THEN <<"south", i>>
       ELSE IF i <= b THEN <<"east", i - a>>
       ELSE IF i <= c THEN <<"north", i - b>> ELSE <<"west", i - c>>]

PinoutType == pinout \in [SideSet -> Seq(Pads!AnyPad)]

LEMMA RowIs ==
    ASSUME PinoutType, NEW s \in SideSet
    PROVE  /\ Row(s) \in Seq({Row(s)[i] : i \in 1..Len(pinout[s])})
           /\ Len(Row(s)) = Len(pinout[s]) /\ Len(pinout[s]) \in Nat
           /\ DOMAIN pinout[s] = 1..Len(pinout[s])
           /\ \A i \in 1..Len(pinout[s]) :
                  Row(s)[i] = LET e == pinout[s][i]
                              IN IF e.kind = "sig" THEN Pads!Sig(expected, e.port, e.bit) ELSE e
<1>1. PICK n \in Nat : n = Len(pinout[s]) /\ DOMAIN pinout[s] = 1..n
    BY DEF PinoutType
<1>2. PICK r : r = Row(s)
    OBVIOUS
<1>3. r = [i \in 1..n |-> LET e == pinout[s][i]
                          IN IF e.kind = "sig" THEN Pads!Sig(expected, e.port, e.bit) ELSE e]
    BY <1>1, <1>2 DEF Row, Pads!Built
<1>4. r \in [1..n -> {r[i] : i \in 1..n}]
    BY <1>3
<1>5. r \in Seq({r[i] : i \in 1..n}) /\ Len(r) = n
    BY <1>3, <1>4
<1> QED BY <1>1, <1>2, <1>3, <1>5

\* The pads of the die in their order are those of the four rows.
LEMMA NumberedIs ==
    ASSUME PinoutType
    PROVE  /\ Pads!Numbered = Joined([k \in 1..4 |-> Row(Pads!Sides[k])])
           /\ Pads!Numbered = ((Row("south") \o Row("east")) \o Row("north")) \o Row("west")
<1>1. PICK q : q = [k \in 1..4 |-> Row(Pads!Sides[k])]
    OBVIOUS
<1>2. Len(q) = 4
    BY <1>1
<1>3. Pads!Numbered = Joined(q)
    BY <1>1, <1>2, FourJoined DEF Pads!Numbered, Row
<1>4. /\ q[1] = Row("south") /\ q[2] = Row("east") /\ q[3] = Row("north")
      /\ q[4] = Row("west")
    BY <1>1, FourSides
<1> QED BY <1>1, <1>3, <1>4 DEF Joined

\* Names of a row, entry by entry.
Naming(names, row) ==
    /\ \E S : names \in Seq(S)
    /\ \E S : row \in Seq(S)
    /\ Len(names) = Len(row)
    /\ \A i \in 1..Len(row) : names[i] = Pads!InstName(row[i])

LEMMA NamesJoin ==
    ASSUME NEW m, NEW a, NEW n, NEW b, Naming(m, a), Naming(n, b)
    PROVE  Naming(m \o n, a \o b)
<1>1. PICK M, A, N, B : m \in Seq(M) /\ a \in Seq(A) /\ n \in Seq(N) /\ b \in Seq(B)
    BY DEF Naming
<1>2. /\ m \in Seq(M \cup N) /\ n \in Seq(M \cup N)
      /\ a \in Seq(A \cup B) /\ b \in Seq(A \cup B)
    BY <1>1
<1>3. PICK S, T : S = M \cup N /\ T = A \cup B
    OBVIOUS
<1>4. /\ m \o n \in Seq(S) /\ Len(m \o n) = Len(m) + Len(n)
      /\ \A i \in 1..(Len(m) + Len(n)) :
             (m \o n)[i] = IF i <= Len(m) THEN m[i] ELSE n[i - Len(m)]
    BY <1>2, <1>3, ConcatProperties
<1>5. /\ a \o b \in Seq(T) /\ Len(a \o b) = Len(a) + Len(b)
      /\ \A i \in 1..(Len(a) + Len(b)) :
             (a \o b)[i] = IF i <= Len(a) THEN a[i] ELSE b[i - Len(a)]
    BY <1>2, <1>3, ConcatProperties
<1>6. Len(m) = Len(a) /\ Len(n) = Len(b) /\ Len(a) \in Nat /\ Len(b) \in Nat
    BY <1>1 DEF Naming
<1>7. ASSUME NEW i \in 1..Len(a \o b)
      PROVE  (m \o n)[i] = Pads!InstName((a \o b)[i])
    <2>1. i \in 1..(Len(a) + Len(b))
        BY <1>5
    <2>2. CASE i <= Len(a)
        <3>1. i \in 1..Len(a)
            BY <1>6, <2>1, <2>2
        <3>2. m[i] = Pads!InstName(a[i])
            BY <3>1 DEF Naming
        <3> QED BY <1>4, <1>5, <1>6, <2>1, <2>2, <3>2
    <2>3. CASE ~(i <= Len(a))
        <3>1. i - Len(a) \in 1..Len(b)
            BY <1>6, <2>1, <2>3
        <3>2. n[i - Len(a)] = Pads!InstName(b[i - Len(a)])
            BY <3>1 DEF Naming
        <3> QED BY <1>4, <1>5, <1>6, <2>1, <2>3, <3>2
    <2> QED BY <2>2, <2>3
<1> QED BY <1>4, <1>5, <1>6, <1>7 DEF Naming

\* What a run of the script has found and written, at each point of it.
PadInv ==
    /\ PinoutType
    /\ DOMAIN ports \subseteq Pads!Named /\ DOMAIN expected \subseteq Pads!Named
    /\ \A p \in DOMAIN ports : ports[p] \in Pads!Declaration
    /\ \A p \in Pads!HardCoded :
           /\ p \in DOMAIN ports /\ ports[p] = Ports[p]
           /\ p \in DOMAIN expected /\ expected[p] = Ports[p].is
    /\ pads_pc = "chip" => Pads!parse_ports = expected /\ Pads!PadChecks
    /\ pads_pc \in {"config", "doc"} => chip = Pads!Chip
    /\ pads_pc = "doc" => config = Pads!Config

\* A row stays a row of pads when one is put over another, taken out or put in.
LEMMA RowEdits ==
    ASSUME NEW A, NEW row \in Seq(A), NEW i \in 1..Len(row), NEW e \in A
    PROVE  /\ [row EXCEPT ![i] = e] \in Seq(A)
           /\ Pads!RemoveAt(row, i) \in Seq(A)
           /\ Pads!InsertAt(row, i, e) \in Seq(A)
           /\ \A r \in Seq(A) : Append(r, row[i]) \in Seq(A)
<1>1. PICK n \in Nat : n = Len(row) /\ i \in 1..n /\ \A k \in 1..n : row[k] \in A
    OBVIOUS
<1>2. /\ SubSeq(row, 1, i - 1) \in Seq(A) /\ SubSeq(row, i + 1, n) \in Seq(A)
      /\ SubSeq(row, i, n) \in Seq(A)
    <2>1. /\ i - 1 \in Int /\ i + 1 \in Int /\ i \in Int /\ n \in Int
          /\ \A k \in 1..(i - 1) : row[k] \in A
          /\ \A k \in (i + 1)..n : row[k] \in A
          /\ \A k \in i..n : row[k] \in A
        BY <1>1
    <2> QED BY <2>1, SubSeqProperties
<1>3. SubSeq(row, 1, i - 1) \o SubSeq(row, i + 1, n) \in Seq(A)
    BY <1>2, ConcatProperties
<1>4. (SubSeq(row, 1, i - 1) \o <<e>>) \o SubSeq(row, i, n) \in Seq(A)
    <2>1. <<e>> \in Seq(A)
        OBVIOUS
    <2>2. SubSeq(row, 1, i - 1) \o <<e>> \in Seq(A)
        BY <1>2, <2>1, ConcatProperties
    <2> QED BY <1>2, <2>2, ConcatProperties
<1>5. [row EXCEPT ![i] = e] \in Seq(A)
    BY ExceptSeq
<1>6. Pads!RemoveAt(row, i) \in Seq(A) /\ Pads!InsertAt(row, i, e) \in Seq(A)
    BY <1>1, <1>3, <1>4 DEF Pads!RemoveAt, Pads!InsertAt
<1>7. \A r \in Seq(A) : Append(r, row[i]) \in Seq(A)
    BY <1>1, AppendProperties
<1> QED BY <1>5, <1>6, <1>7

LEMMA PinoutEdited ==
    ASSUME PadInv, Pads!PadRingAssumption, Pads!EditPinout
    PROVE  PinoutType'
<1>1. PICK A : A = Pads!AnyPad
    OBVIOUS
<1>2. pinout \in [SideSet -> Seq(A)]
    BY <1>1 DEF PadInv, PinoutType
<1>3. PICK loc \in Pads!Entries :
          LET s == loc[1]  i == loc[2] IN
          \/ \E e \in Spare : pinout' = [pinout EXCEPT ![s][i] = e]
          \/ pinout' = [pinout EXCEPT ![s] = Pads!RemoveAt(@, i)]
          \/ \E e \in Spare : pinout' = [pinout EXCEPT ![s] = Pads!InsertAt(@, i, e)]
          \/ \E t \in Pads!ToSet(Pads!Sides) \ {s} :
                pinout' = [pinout EXCEPT ![s] = Pads!RemoveAt(@, i),
                                         ![t] = Append(@, pinout[s][i])]
    BY DEF Pads!EditPinout
<1>3a. PICK s \in SideSet : loc \in {<<s, i>> : i \in DOMAIN pinout[s]}
    BY <1>3, FourSides DEF Pads!Entries
<1>4. PICK i \in DOMAIN pinout[s] : loc = <<s, i>>
    BY <1>3a
<1>5. PICK row : row = pinout[s]
    OBVIOUS
<1>6. row \in Seq(A) /\ i \in 1..Len(row)
    BY <1>2, <1>4, <1>5
<1>7. Spare \subseteq A
    BY <1>1 DEF Pads!PadRingAssumption
<1>8. row[i] \in A
    BY <1>6
<1>9. /\ Pads!RemoveAt(row, i) \in Seq(A)
      /\ \A e \in A : [row EXCEPT ![i] = e] \in Seq(A) /\ Pads!InsertAt(row, i, e) \in Seq(A)
      /\ \A r \in Seq(A) : Append(r, row[i]) \in Seq(A)
    BY <1>6, <1>8, RowEdits
<1>10. CASE \E e \in Spare : pinout' = [pinout EXCEPT ![s][i] = e]
    <2>1. PICK e \in Spare : pinout' = [pinout EXCEPT ![s][i] = e]
        BY <1>10
    <2>2. pinout' = [pinout EXCEPT ![s] = [row EXCEPT ![i] = e]]
        BY <1>5, <2>1
    <2>3. [row EXCEPT ![i] = e] \in Seq(A)
        BY <1>7, <1>9, <2>1
    <2> QED BY <1>1, <1>2, <2>2, <2>3 DEF PinoutType
<1>11. CASE pinout' = [pinout EXCEPT ![s] = Pads!RemoveAt(@, i)]
    <2>1. pinout' = [pinout EXCEPT ![s] = Pads!RemoveAt(row, i)]
        BY <1>5, <1>11
    <2> QED BY <1>1, <1>2, <1>9, <2>1 DEF PinoutType
<1>12. CASE \E e \in Spare : pinout' = [pinout EXCEPT ![s] = Pads!InsertAt(@, i, e)]
    <2>1. PICK e \in Spare : pinout' = [pinout EXCEPT ![s] = Pads!InsertAt(row, i, e)]
        BY <1>5, <1>12
    <2>2. Pads!InsertAt(row, i, e) \in Seq(A)
        BY <1>7, <1>9, <2>1
    <2> QED BY <1>1, <1>2, <2>1, <2>2 DEF PinoutType
<1>13. CASE \E t \in Pads!ToSet(Pads!Sides) \ {s} :
                pinout' = [pinout EXCEPT ![s] = Pads!RemoveAt(@, i),
                                         ![t] = Append(@, pinout[s][i])]
    <2>1. PICK t \in SideSet \ {s} :
              pinout' = [pinout EXCEPT ![s] = Pads!RemoveAt(@, i),
                                       ![t] = Append(@, pinout[s][i])]
        BY <1>13, FourSides
    <2>2. PICK x, y : x = Pads!RemoveAt(row, i) /\ y = Append(pinout[t], row[i])
        OBVIOUS
    <2>3. x \in Seq(A) /\ y \in Seq(A)
        BY <1>2, <1>9, <2>2
    <2>4. pinout' = [pinout EXCEPT ![s] = x, ![t] = y]
        BY <1>2, <1>5, <2>1, <2>2
    <2> QED BY <1>1, <1>2, <2>3, <2>4 DEF PinoutType
<1> QED BY <1>3, <1>4, <1>10, <1>11, <1>12, <1>13

LEMMA PadStart == Pads!Init /\ Pads!PadRingAssumption => PadInv
<1> SUFFICES ASSUME Pads!Init, Pads!PadRingAssumption PROVE PadInv
    OBVIOUS
<1>1. /\ ports = Ports /\ expected = [p \in DOMAIN Ports |-> Ports[p].is]
      /\ pinout = FirstPinout /\ pads_pc = "idle"
    BY DEF Pads!Init
<1>2. PinoutType
    BY <1>1, FourSides DEF Pads!PadRingAssumption, PinoutType
<1>3. DOMAIN ports \subseteq Pads!Named /\ DOMAIN expected \subseteq Pads!Named
    BY <1>1 DEF Pads!Named
<1>4. \A p \in DOMAIN ports : ports[p] \in Pads!Declaration
    BY <1>1 DEF Pads!PadRingAssumption
<1>5. \A p \in Pads!HardCoded :
          /\ p \in DOMAIN ports /\ ports[p] = Ports[p]
          /\ p \in DOMAIN expected /\ expected[p] = Ports[p].is
    <2>1. Pads!HardCoded \subseteq DOMAIN Ports
        BY DEF Pads!PadRingAssumption
    <2> QED BY <1>1, <2>1
<1> QED BY <1>1, <1>2, <1>3, <1>4, <1>5 DEF PadInv

\* An edit of the ports or of the table leaves those the script knows alone.
LEMMA PortsEdited ==
    ASSUME PadInv, Pads!PadRingAssumption, Pads!EditPorts
    PROVE  /\ DOMAIN ports' \subseteq Pads!Named /\ DOMAIN expected' \subseteq Pads!Named
           /\ \A p \in DOMAIN ports' : ports'[p] \in Pads!Declaration
           /\ \A p \in Pads!HardCoded :
                  /\ p \in DOMAIN ports' /\ ports'[p] = Ports[p]
                  /\ p \in DOMAIN expected' /\ expected'[p] = Ports[p].is
<1>1. PICK p \in DOMAIN PortEdits :
          \/ /\ ports' \in {Pads!With(ports, p, d) : d \in PortEdits[p]}
                              \cup {Pads!Without(ports, p)}
             /\ UNCHANGED expected
          \/ /\ expected' \in {Pads!With(expected, p, d.is) : d \in PortEdits[p]}
                                 \cup {Pads!Without(expected, p)}
             /\ UNCHANGED ports
    BY DEF Pads!EditPorts
<1>2. p \in Pads!Named /\ p \notin Pads!HardCoded
    BY DEF Pads!PadRingAssumption, Pads!Named
<1>3. \A d \in PortEdits[p] : d \in Pads!Declaration
    BY DEF Pads!PadRingAssumption
<1>4. ASSUME NEW f, NEW d, NEW g, g = Pads!With(f, p, d) \/ g = Pads!Without(f, p),
             DOMAIN f \subseteq Pads!Named
      PROVE  /\ DOMAIN g \subseteq Pads!Named
             /\ \A q \in DOMAIN g : (q \in DOMAIN f /\ g[q] = f[q]) \/ g[q] = d
             /\ \A q \in DOMAIN f \ {p} : q \in DOMAIN g /\ g[q] = f[q]
    <2>1. CASE g = Pads!With(f, p, d)
        <3>1. g = [q \in DOMAIN f \cup {p} |-> IF q = p THEN d ELSE f[q]]
            BY <2>1 DEF Pads!With
        <3>2. DOMAIN g = DOMAIN f \cup {p}
            BY <3>1
        <3>3. \A q \in DOMAIN g : g[q] = IF q = p THEN d ELSE f[q]
            BY <3>1
        <3> QED BY <1>2, <1>4, <2>1, <3>2, <3>3
    <2>2. CASE g = Pads!Without(f, p)
        <3>1. g = [q \in DOMAIN f \ {p} |-> f[q]]
            BY <2>2 DEF Pads!Without
        <3>2. DOMAIN g = DOMAIN f \ {p} /\ \A q \in DOMAIN g : g[q] = f[q]
            BY <3>1
        <3> QED BY <1>4, <3>2
    <2> QED BY <1>4, <2>1, <2>2
<1>5. CASE UNCHANGED expected
    <2>1. PICK d : \/ d \in PortEdits[p] /\ ports' = Pads!With(ports, p, d)
                   \/ d \in Pads!Declaration /\ ports' = Pads!Without(ports, p)
                   \/ ports' = ports
        <3>1. CASE \E d \in PortEdits[p] : ports' = Pads!With(ports, p, d)
            BY <3>1
        <3>2. CASE ports' = Pads!Without(ports, p)
            <4>1. [is |-> <<"input", 1>>, line |-> "plain"] \in Pads!Declaration
                BY DEF Pads!Declaration
            <4> QED BY <3>2, <4>1
        <3>3. CASE UNCHANGED ports
            BY <3>3
        <3> QED BY <1>1, <3>1, <3>2, <3>3
    <2>2. CASE ports' = ports
        BY <1>5, <2>2 DEF PadInv
    <2>3. CASE ports' # ports
        <3>1. d \in Pads!Declaration
            BY <1>3, <2>1, <2>3
        <3>2. /\ DOMAIN ports' \subseteq Pads!Named
              /\ \A q \in DOMAIN ports' :
                     (q \in DOMAIN ports /\ ports'[q] = ports[q]) \/ ports'[q] = d
              /\ \A q \in DOMAIN ports \ {p} : q \in DOMAIN ports' /\ ports'[q] = ports[q]
            <4>1. DOMAIN ports \subseteq Pads!Named
                BY DEF PadInv
            <4>2. ports' = Pads!With(ports, p, d) \/ ports' = Pads!Without(ports, p)
                BY <2>1, <2>3
            <4>3. PICK g : g = ports'
                OBVIOUS
            <4>4. g = Pads!With(ports, p, d) \/ g = Pads!Without(ports, p)
                BY <4>2, <4>3
            <4>5. /\ DOMAIN g \subseteq Pads!Named
                  /\ \A q \in DOMAIN g : (q \in DOMAIN ports /\ g[q] = ports[q]) \/ g[q] = d
                  /\ \A q \in DOMAIN ports \ {p} : q \in DOMAIN g /\ g[q] = ports[q]
                BY <1>4, <4>1, <4>4
            <4> QED BY <4>3, <4>5
        <3> QED BY <1>2, <1>5, <3>1, <3>2 DEF PadInv
    <2> QED BY <2>2, <2>3
<1>6. CASE UNCHANGED ports
    <2>1. CASE UNCHANGED expected
        BY <1>6, <2>1 DEF PadInv
    <2>2. CASE expected' # expected
        <3>1. PICK d : \/ expected' = Pads!With(expected, p, d)
                       \/ expected' = Pads!Without(expected, p)
            <4>1. CASE \E e \in PortEdits[p] : expected' = Pads!With(expected, p, e.is)
                BY <4>1
            <4>2. CASE expected' = Pads!Without(expected, p)
                BY <4>2
            <4> QED BY <1>1, <2>2, <4>1, <4>2
        <3>2. PICK g : g = expected'
            OBVIOUS
        <3>3. g = Pads!With(expected, p, d) \/ g = Pads!Without(expected, p)
            BY <3>1, <3>2
        <3>4. DOMAIN expected \subseteq Pads!Named
            BY DEF PadInv
        <3>5. /\ DOMAIN g \subseteq Pads!Named
              /\ \A q \in DOMAIN expected \ {p} : q \in DOMAIN g /\ g[q] = expected[q]
            BY <1>4, <3>3, <3>4
        <3> QED BY <1>2, <1>6, <3>2, <3>5 DEF PadInv
    <2> QED BY <2>1, <2>2
<1> QED BY <1>1, <1>5, <1>6

LEMMA PadKept ==
    ASSUME PadInv, Pads!PadRingAssumption, [Pads!Next]_(Pads!vars)
    PROVE  PadInv'
<1>1. CASE Pads!EditPorts
    <2>1. pads_pc = "idle" /\ pads_pc' = "idle" /\ pinout' = pinout
        BY <1>1 DEF Pads!EditPorts, Pads!Edit
    <2> QED BY <1>1, <2>1, PortsEdited DEF PadInv, PinoutType
<1>2. CASE Pads!EditPinout
    <2>1. pads_pc' = "idle" /\ UNCHANGED <<ports, expected>>
        BY <1>2 DEF Pads!EditPinout, Pads!Edit
    <2> QED BY <1>2, <2>1, PinoutEdited DEF PadInv
<1>3. CASE Pads!EditConfig
    <2>1. pads_pc' = "idle" /\ UNCHANGED <<ports, expected, pinout>>
        BY <1>3 DEF Pads!EditConfig, Pads!Edit
    <2> QED BY <2>1 DEF PadInv, PinoutType
<1>4. CASE Pads!Checks
    <2>1. UNCHANGED <<ports, expected, pinout>>
        BY <1>4 DEF Pads!Checks
    <2>2. \/ pads_pc' = "idle"
          \/ pads_pc' = "chip" /\ Pads!parse_ports = expected /\ Pads!PadChecks
        BY <1>4 DEF Pads!Checks
    <2>4. Pads!parse_ports' = Pads!parse_ports
        BY <2>1 DEF Pads!parse_ports, Pads!MatchedLines, Pads!ParsedAs
    <2>3. Pads!PadChecks' <=> Pads!PadChecks
        BY <2>1 DEF Pads!PadChecks, Pads!EverySignalOnce, Pads!Padded, Pads!OfKind,
                    Pads!Entry, Pads!Entries
    <2> QED BY <2>1, <2>2, <2>3, <2>4 DEF PadInv, PinoutType
<1>5. CASE Pads!WriteChip \/ Pads!WriteConfig \/ Pads!WriteDoc
    <2>1. UNCHANGED <<ports, expected, pinout>>
        BY <1>5 DEF Pads!WriteChip, Pads!WriteConfig, Pads!WriteDoc
    <2>2. Pads!Chip' = Pads!Chip /\ Pads!Config' = Pads!Config
        BY <2>1 DEF Pads!Chip, Pads!Config, Pads!Numbered, Pads!Built
    <2>3. CASE Pads!WriteChip
        BY <2>1, <2>2, <2>3 DEF PadInv, PinoutType, Pads!WriteChip
    <2>4. CASE Pads!WriteConfig
        BY <2>1, <2>2, <2>4 DEF PadInv, PinoutType, Pads!WriteConfig, Pads!Stop
    <2>5. CASE Pads!WriteDoc
        BY <2>1, <2>5 DEF PadInv, PinoutType, Pads!WriteDoc, Pads!Stop
    <2> QED BY <1>5, <2>3, <2>4, <2>5
<1>6. CASE UNCHANGED Pads!vars
    <2>1. UNCHANGED <<ports, expected, pinout, pads_pc, chip, config>>
        BY <1>6 DEF Pads!vars
    <2>2. Pads!Chip' = Pads!Chip /\ Pads!Config' = Pads!Config
        BY <2>1 DEF Pads!Chip, Pads!Config, Pads!Numbered, Pads!Built
    <2>3. Pads!PadChecks' <=> Pads!PadChecks
        BY <2>1 DEF Pads!PadChecks, Pads!EverySignalOnce, Pads!Padded, Pads!OfKind,
                    Pads!Entry, Pads!Entries
    <2>4. Pads!parse_ports' = Pads!parse_ports
        BY <2>1 DEF Pads!parse_ports, Pads!MatchedLines, Pads!ParsedAs
    <2> QED BY <2>1, <2>2, <2>3, <2>4 DEF PadInv, PinoutType
<1> QED BY <1>1, <1>2, <1>3, <1>4, <1>5, <1>6 DEF Pads!Next

\* The names the flow places are those of the chip top and of the manual.
LEMMA NamesAgree ==
    ASSUME PadInv, pads_pc = "doc"
    PROVE  LET names == [i \in DOMAIN chip.pads |-> chip.pads[i].name]
           IN Pads!FlattenSeq(config.lists) = names /\ Pads!Doc.rows = names
<1>1. chip = Pads!Chip /\ config = Pads!Config /\ PinoutType
    BY DEF PadInv
<1>2. PICK num : num = Pads!Numbered
    OBVIOUS
<1>3. /\ DOMAIN chip.pads = DOMAIN num
      /\ \A i \in DOMAIN num : chip.pads[i].name = Pads!InstName(num[i])
    BY <1>1, <1>2 DEF Pads!Chip, Pads!Instance
<1>4. [i \in DOMAIN chip.pads |-> chip.pads[i].name]
          = [i \in DOMAIN num |-> Pads!InstName(num[i])]
    BY <1>3
<1>5. Pads!Doc.rows = [i \in DOMAIN num |-> Pads!InstName(num[i])]
    BY <1>2 DEF Pads!Doc
<1>6. PICK q : q = config.lists
    OBVIOUS
<1>7. q = [k \in 1..4 |-> [i \in DOMAIN pinout[Pads!Sides[k]] |->
                              Pads!InstName(pinout[Pads!Sides[k]][i])]]
    BY <1>1, <1>6 DEF Pads!Config
<1>8. ASSUME NEW k \in 1..4 PROVE Naming(q[k], Row(Pads!Sides[k]))
    <2>1. PICK s : s = Pads!Sides[k]
        OBVIOUS
    <2>2. s \in SideSet
        BY <2>1, FourSides DEF SideSet
    <2>3. PICK n \in Nat : n = Len(pinout[s]) /\ DOMAIN pinout[s] = 1..n
        BY <1>1, <2>2, RowIs
    <2>4. PICK m : m = q[k]
        OBVIOUS
    <2>5. m = [i \in 1..n |-> Pads!InstName(pinout[s][i])]
        BY <1>7, <2>1, <2>3, <2>4
    <2>6. m \in Seq({m[i] : i \in 1..n}) /\ Len(m) = n
        <3>1. m \in [1..n -> {m[i] : i \in 1..n}]
            BY <2>5
        <3> QED BY <2>5, <3>1
    <2>7. \E S : Row(s) \in Seq(S)
        BY <1>1, <2>2, RowIs
    <2>8. Len(Row(s)) = n
        BY <1>1, <2>2, <2>3, RowIs
    <2>9. ASSUME NEW i \in 1..n PROVE m[i] = Pads!InstName(Row(s)[i])
        <3>1. PICK e : e = pinout[s][i]
            OBVIOUS
        <3>2. Row(s)[i] = IF e.kind = "sig" THEN Pads!Sig(expected, e.port, e.bit) ELSE e
            BY <1>1, <2>2, <2>3, <3>1, RowIs
        <3>3. Pads!InstName(Row(s)[i]) = <<e.port, e.bit>>
            BY <3>2 DEF Pads!InstName, Pads!Sig
        <3> QED BY <2>5, <3>1, <3>3 DEF Pads!InstName
    <2> QED BY <2>1, <2>4, <2>6, <2>7, <2>8, <2>9 DEF Naming
<1>9. /\ Naming(q[1], Row("south")) /\ Naming(q[2], Row("east"))
      /\ Naming(q[3], Row("north")) /\ Naming(q[4], Row("west"))
    BY <1>8, FourSides
<1>10. Naming(q[1] \o q[2], Row("south") \o Row("east"))
    BY <1>9, NamesJoin
<1>11. Naming((q[1] \o q[2]) \o q[3], (Row("south") \o Row("east")) \o Row("north"))
    BY <1>9, <1>10, NamesJoin
<1>12. Naming(Joined(q), num)
    BY <1>1, <1>2, <1>9, <1>11, NamesJoin, NumberedIs DEF Joined
<1>13. Pads!FlattenSeq(q) = Joined(q)
    <2>1. Len(q) = 4
        BY <1>7
    <2> QED BY <2>1, FourJoined
<1>14. Joined(q) = [i \in DOMAIN num |-> Pads!InstName(num[i])]
    <2>1. PICK j : j = Joined(q)
        OBVIOUS
    <2>2. PICK n \in Nat : n = Len(num) /\ Len(j) = n /\ DOMAIN num = 1..n
        BY <1>12, <2>1 DEF Naming
    <2>3. PICK S : j \in Seq(S)
        BY <1>12, <2>1 DEF Naming
    <2>4. j = [i \in 1..n |-> j[i]]
        BY <2>2, <2>3
    <2>5. \A i \in 1..n : j[i] = Pads!InstName(num[i])
        BY <1>12, <2>1, <2>2 DEF Naming
    <2> QED BY <2>1, <2>2, <2>4, <2>5
<1> QED BY <1>4, <1>5, <1>6, <1>13, <1>14

\* Every place of the pinout is one place of the die, and the other way round.
Drawn(loc) == Row(loc[1])[loc[2]]

LEMMA EntriesAre ==
    ASSUME PinoutType
    PROVE  \A loc : loc \in Pads!Entries <=>
               \E s \in SideSet : \E i \in 1..Len(Row(s)) : loc = <<s, i>>
<1>1. \A s \in SideSet : DOMAIN pinout[s] = 1..Len(Row(s))
    BY RowIs
<1> QED BY <1>1, FourSides DEF Pads!Entries

LEMMA PlaceIs ==
    ASSUME PinoutType
    PROVE  LET num == Pads!Numbered IN
           /\ Len(num) \in Nat /\ DOMAIN num = 1..Len(num)
           /\ DOMAIN Place = DOMAIN num
           /\ \A i \in DOMAIN num : Place[i] \in Pads!Entries /\ num[i] = Drawn(Place[i])
           /\ \A loc \in Pads!Entries : \E i \in DOMAIN num : Place[i] = loc
           /\ \A i, k \in DOMAIN num : Place[i] = Place[k] => i = k
<1>1. PICK r1, r2, r3, r4 :
          r1 = Row("south") /\ r2 = Row("east") /\ r3 = Row("north") /\ r4 = Row("west")
    OBVIOUS
<1>2. PICK S : r1 \in Seq(S) /\ r2 \in Seq(S) /\ r3 \in Seq(S) /\ r4 \in Seq(S)
    <2>1. PICK S1, S2, S3, S4 : r1 \in Seq(S1) /\ r2 \in Seq(S2) /\ r3 \in Seq(S3) /\ r4 \in Seq(S4)
        BY <1>1, RowIs DEF SideSet
    <2>2. PICK S : S = S1 \cup S2 \cup S3 \cup S4
        OBVIOUS
    <2>3. S1 \subseteq S /\ S2 \subseteq S /\ S3 \subseteq S /\ S4 \subseteq S
        BY <2>2
    <2> QED BY <2>1, <2>3, SeqMonotonic
<1>3a. Len(r1) \in Nat /\ Len(r2) \in Nat /\ Len(r3) \in Nat /\ Len(r4) \in Nat
    BY <1>2, LenProperties
<1>3b. PICK a \in Nat : a = Len(r1)
    BY <1>3a
<1>3c. PICK b \in Nat : b = a + Len(r2)
    BY <1>3a
<1>3d. PICK c \in Nat : c = b + Len(r3)
    BY <1>3a
<1>3e. PICK n \in Nat : n = c + Len(r4)
    BY <1>3a
<1>3. a = Len(r1) /\ b = a + Len(r2) /\ c = b + Len(r3) /\ n = c + Len(r4)
    BY <1>3b, <1>3c, <1>3d, <1>3e
<1>4. Len(r1) = a /\ Len(r2) = b - a /\ Len(r3) = c - b /\ Len(r4) = n - c
      /\ a <= b /\ b <= c /\ c <= n
    BY <1>3a, <1>3
<1>5. /\ r1 \o r2 \in Seq(S) /\ Len(r1 \o r2) = b
      /\ \A i \in 1..b : (r1 \o r2)[i] = IF i <= a THEN r1[i] ELSE r2[i - a]
    BY <1>2, <1>3, ConcatProperties
<1>6. /\ (r1 \o r2) \o r3 \in Seq(S) /\ Len((r1 \o r2) \o r3) = c
      /\ \A i \in 1..c : ((r1 \o r2) \o r3)[i]
                             = IF i <= b THEN (r1 \o r2)[i] ELSE r3[i - b]
    BY <1>2, <1>3, <1>5, ConcatProperties
<1>7. PICK num : num = ((r1 \o r2) \o r3) \o r4
    OBVIOUS
<1>8. /\ num \in Seq(S) /\ Len(num) = n
      /\ \A i \in 1..n : num[i] = IF i <= c THEN ((r1 \o r2) \o r3)[i] ELSE r4[i - c]
    BY <1>2, <1>3, <1>6, <1>7, ConcatProperties
<1>9. DOMAIN num = 1..n
    BY <1>8
<1>10. Pads!Numbered = num
    BY <1>1, <1>7, NumberedIs
<1>11. Place = [i \in 1..n |-> IF i <= a THEN <<"south", i>>
                              ELSE IF i <= b THEN <<"east", i - a>>
                              ELSE IF i <= c THEN <<"north", i - b>> ELSE <<"west", i - c>>]
    BY <1>1, <1>3 DEF Place
<1>12. PICK place : place = Place
    OBVIOUS
<1>13. ASSUME NEW i \in 1..n
       PROVE  \/ i \in 1..a /\ place[i] = <<"south", i>> /\ num[i] = r1[i]
              \/ i \in (a + 1)..b /\ place[i] = <<"east", i - a>> /\ num[i] = r2[i - a]
              \/ i \in (b + 1)..c /\ place[i] = <<"north", i - b>> /\ num[i] = r3[i - b]
              \/ i \in (c + 1)..n /\ place[i] = <<"west", i - c>> /\ num[i] = r4[i - c]
    <2>0. place[i] = IF i <= a THEN <<"south", i>>
                     ELSE IF i <= b THEN <<"east", i - a>>
                     ELSE IF i <= c THEN <<"north", i - b>> ELSE <<"west", i - c>>
        BY <1>11, <1>12
    <2>1. CASE i <= a
        <3>1. i \in 1..a /\ i \in 1..b /\ i \in 1..c /\ i <= b /\ i <= c
            BY <1>3, <1>4, <2>1
        <3>2. num[i] = r1[i]
            BY <1>5, <1>6, <1>8, <2>1, <3>1
        <3>3. place[i] = <<"south", i>>
            BY <2>0, <2>1
        <3> QED BY <3>1, <3>2, <3>3
    <2>2. CASE ~(i <= a) /\ i <= b
        <3>1. i \in (a + 1)..b /\ i \in 1..b /\ i \in 1..c /\ i <= c
            BY <1>3, <1>4, <2>2
        <3>2. num[i] = r2[i - a]
            BY <1>5, <1>6, <1>8, <2>2, <3>1
        <3>3. place[i] = <<"east", i - a>>
            BY <2>0, <2>2
        <3> QED BY <3>1, <3>2, <3>3
    <2>3. CASE ~(i <= a) /\ ~(i <= b) /\ i <= c
        <3>1. i \in (b + 1)..c /\ i \in 1..c
            BY <1>3, <1>4, <2>3
        <3>2. num[i] = r3[i - b]
            BY <1>6, <1>8, <2>3, <3>1
        <3>3. place[i] = <<"north", i - b>>
            BY <2>0, <2>3
        <3> QED BY <3>1, <3>2, <3>3
    <2>4. CASE ~(i <= a) /\ ~(i <= b) /\ ~(i <= c)
        <3>1. i \in (c + 1)..n
            BY <1>3, <1>4, <2>4
        <3>2. num[i] = r4[i - c]
            BY <1>8, <2>4
        <3>3. place[i] = <<"west", i - c>>
            BY <2>0, <2>4
        <3> QED BY <3>1, <3>2, <3>3
    <2> QED BY <2>1, <2>2, <2>3, <2>4
<1>14. /\ \A k \in 1..a : place[k] = <<"south", k>>
       /\ \A k \in 1..(b - a) : k + a \in 1..n /\ place[k + a] = <<"east", k>>
       /\ \A k \in 1..(c - b) : k + b \in 1..n /\ place[k + b] = <<"north", k>>
       /\ \A k \in 1..(n - c) : k + c \in 1..n /\ place[k + c] = <<"west", k>>
       /\ 1..a \subseteq 1..n
    <2>1. \A k \in 1..a : k \in 1..n /\ place[k] = <<"south", k>>
        BY <1>3, <1>4, <1>11, <1>12
    <2>2. ASSUME NEW k \in 1..(b - a)
          PROVE  k + a \in 1..n /\ place[k + a] = <<"east", k>>
        <3>1. k + a \in 1..n /\ k + a \in (a + 1)..b /\ (k + a) - a = k
            BY <1>3, <1>4
        <3>2. place[k + a] = <<"east", (k + a) - a>>
            BY <1>3, <1>4, <1>11, <1>12, <3>1
        <3> QED BY <3>1, <3>2
    <2>3. ASSUME NEW k \in 1..(c - b)
          PROVE  k + b \in 1..n /\ place[k + b] = <<"north", k>>
        <3>1. k + b \in 1..n /\ k + b \in (b + 1)..c /\ (k + b) - b = k
            BY <1>3, <1>4
        <3>2. place[k + b] = <<"north", (k + b) - b>>
            BY <1>3, <1>4, <1>11, <1>12, <3>1
        <3> QED BY <3>1, <3>2
    <2>4. ASSUME NEW k \in 1..(n - c)
          PROVE  k + c \in 1..n /\ place[k + c] = <<"west", k>>
        <3>1. k + c \in 1..n /\ k + c \in (c + 1)..n /\ (k + c) - c = k
            BY <1>3, <1>4
        <3>2. place[k + c] = <<"west", (k + c) - c>>
            BY <1>3, <1>4, <1>11, <1>12, <3>1
        <3> QED BY <3>1, <3>2
    <2> QED BY <2>1, <2>2, <2>3, <2>4
<1>15. ASSUME NEW i \in 1..n
       PROVE  place[i] \in Pads!Entries /\ num[i] = Drawn(place[i])
    <2>1. \A s \in SideSet : \A k \in 1..Len(Row(s)) : <<s, k>> \in Pads!Entries
        BY EntriesAre
    <2>2. \A s, k : Drawn(<<s, k>>) = Row(s)[k]
        BY DEF Drawn
    <2>3. CASE i \in 1..a /\ place[i] = <<"south", i>> /\ num[i] = r1[i]
        BY <1>1, <1>4, <2>1, <2>2, <2>3 DEF SideSet
    <2>4. CASE i \in (a + 1)..b /\ place[i] = <<"east", i - a>> /\ num[i] = r2[i - a]
        <3>1. i - a \in 1..Len(r2)
            BY <1>3, <1>4, <2>4
        <3> QED BY <1>1, <2>1, <2>2, <2>4, <3>1 DEF SideSet
    <2>5. CASE i \in (b + 1)..c /\ place[i] = <<"north", i - b>> /\ num[i] = r3[i - b]
        <3>1. i - b \in 1..Len(r3)
            BY <1>3, <1>4, <2>5
        <3> QED BY <1>1, <2>1, <2>2, <2>5, <3>1 DEF SideSet
    <2>6. CASE i \in (c + 1)..n /\ place[i] = <<"west", i - c>> /\ num[i] = r4[i - c]
        <3>1. i - c \in 1..Len(r4)
            BY <1>3, <1>4, <2>6
        <3> QED BY <1>1, <2>1, <2>2, <2>6, <3>1 DEF SideSet
    <2> QED BY <1>13, <2>3, <2>4, <2>5, <2>6
<1>16. ASSUME NEW loc \in Pads!Entries PROVE \E i \in 1..n : place[i] = loc
    <2>1. PICK s \in SideSet, k \in Int : k \in 1..Len(Row(s)) /\ loc = <<s, k>>
        BY EntriesAre
    <2>2. CASE s = "south"
        BY <1>1, <1>4, <1>14, <2>1, <2>2
    <2>3. CASE s = "east"
        BY <1>1, <1>4, <1>14, <2>1, <2>3
    <2>4. CASE s = "north"
        BY <1>1, <1>4, <1>14, <2>1, <2>4
    <2>5. CASE s = "west"
        BY <1>1, <1>4, <1>14, <2>1, <2>5
    <2> QED BY <2>1, <2>2, <2>3, <2>4, <2>5 DEF SideSet
<1>17. ASSUME NEW i \in 1..n, NEW k \in 1..n, place[i] = place[k] PROVE i = k
    <2>1. \A x, y : <<"south", x>> = <<"south", y>> => x = y
        OBVIOUS
    <2>2. PICK t, u : place[i] = <<t, u>>
        BY <1>13
    <2>3. /\ t = "south" <=> i \in 1..a
          /\ t = "east" <=> i \in (a + 1)..b
          /\ t = "north" <=> i \in (b + 1)..c
          /\ t = "west" <=> i \in (c + 1)..n
          /\ u = IF i <= a THEN i ELSE IF i <= b THEN i - a ELSE IF i <= c THEN i - b ELSE i - c
        BY <1>3, <1>4, <1>13, <2>2, SMTT(40)
    <2>5. place[k] = <<t, u>>
        BY <1>17, <2>2
    <2>4. /\ t = "south" <=> k \in 1..a
          /\ t = "east" <=> k \in (a + 1)..b
          /\ t = "north" <=> k \in (b + 1)..c
          /\ t = "west" <=> k \in (c + 1)..n
          /\ u = IF k <= a THEN k ELSE IF k <= b THEN k - a ELSE IF k <= c THEN k - b ELSE k - c
        BY <1>3, <1>4, <1>13, <2>5, SMTT(40)
    <2> QED BY <1>3, <1>4, <2>3, <2>4
<1>18. DOMAIN place = 1..n
    BY <1>11, <1>12
<1>19. Len(Pads!Numbered) = n /\ DOMAIN Pads!Numbered = 1..n
    BY <1>8, <1>9, <1>10
<1>20. /\ \A i \in 1..n : Place[i] \in Pads!Entries /\ Pads!Numbered[i] = Drawn(Place[i])
       /\ \A loc \in Pads!Entries : \E i \in 1..n : Place[i] = loc
       /\ \A i, k \in 1..n : Place[i] = Place[k] => i = k
    BY <1>10, <1>12, <1>15, <1>16, <1>17
<1> QED BY <1>3, <1>12, <1>18, <1>19, <1>20

\* As many values as arguments: no two arguments share one.
LEMMA SameCount ==
    ASSUME NEW S, IsFiniteSet(S), NEW f, DOMAIN f = S,
           Cardinality({f[x] : x \in S}) = Cardinality(S),
           NEW x \in S, NEW y \in S, f[x] = f[y]
    PROVE  x = y
<1>1. PICK T : T = {f[z] : z \in S}
    OBVIOUS
<1>2. PICK g : g = [z \in S |-> f[z]]
    OBVIOUS
<1>3. g \in Surjection(S, T)
    BY <1>1, <1>2 DEF Surjection
<1>4. g \in Injection(S, T)
    BY <1>1, <1>3, FS_SurjSameCardinalityImpliesInj
<1>5. g[x] = g[y]
    BY <1>2
<1> QED BY <1>4, <1>5 DEF Injection, IsInjective

LEMMA EntriesFinite == PinoutType => IsFiniteSet(Pads!Entries)
<1> SUFFICES ASSUME PinoutType PROVE IsFiniteSet(Pads!Entries)
    OBVIOUS
<1>1. PICK num : num = Pads!Numbered
    OBVIOUS
<1>2. PICK n \in Nat : n = Len(num) /\ DOMAIN num = 1..n
    BY <1>1, PlaceIs
<1>3. PICK place : place = [i \in 1..n |-> Place[i]]
    OBVIOUS
<1>4. place \in Surjection(1..n, Pads!Entries)
    BY <1>1, <1>2, <1>3, PlaceIs DEF Surjection
<1>5. IsFiniteSet(1..n)
    BY FS_Interval
<1> QED BY <1>4, <1>5, FS_Surjection

\* The pads of the die that stand for a set of places of the pinout are none or
\* one when the places are.
LEMMA OnePlace ==
    ASSUME PinoutType, NEW loc \in Pads!Entries
    PROVE  Cardinality({i \in DOMAIN Pads!Numbered : Place[i] = loc}) = 1
<1>1. PICK i \in DOMAIN Pads!Numbered : Place[i] = loc
    BY PlaceIs
<1>2. {k \in DOMAIN Pads!Numbered : Place[k] = loc} = {i}
    BY <1>1, PlaceIs
<1> QED BY <1>2, FS_Singleton

\* What is written for a place.
Wire(loc) == Pads!Instance(Drawn(loc))
Label(loc) == Pads!InstName(Pads!Entry(loc))
IsInput(p) == p # "tdo_o" /\ expected[p][1] = "input"

SigWire(loc) ==
    LET e == Pads!Entry(loc)  w == Wire(loc) IN
    /\ e.kind = "sig" /\ e.port \in DOMAIN expected
    /\ w.cell \in {"in", "out", "tri"}
    /\ w.from = IF IsInput(e.port) THEN {Label(loc)} ELSE {}
    /\ w.to = IF e.port = "tdo_o" THEN {Label(loc), <<"tdo_oe_o", Pads!NoBit>>}
              ELSE IF IsInput(e.port) THEN {} ELSE {Label(loc)}
QioWire(loc) ==
    LET e == Pads!Entry(loc)  w == Wire(loc) IN
    /\ e.kind = "qio" /\ e.port = "qspi_io"
    /\ w.cell = "inout"
    /\ w.from = {<<"qspi_io_i", e.bit>>}
    /\ w.to = {<<"qspi_io_o", e.bit>>, <<"qspi_io_oe_o", e.bit>>}
PwrWire(loc) ==
    LET e == Pads!Entry(loc)  w == Wire(loc) IN
    /\ e.kind = "pwr" /\ e.port \notin DOMAIN expected \cup {"qspi_io"}
    /\ w.cell \in Pads!Supply
    /\ w.from = {} /\ w.to = {}

LEMMA WireIs ==
    ASSUME PadInv, Pads!PadRingAssumption, Pads!PadChecks, NEW loc \in Pads!Entries
    PROVE  /\ Wire(loc).name = Label(loc)
           /\ SigWire(loc) \/ QioWire(loc) \/ PwrWire(loc)
<1>1. PinoutType /\ DOMAIN expected \subseteq Pads!Named
    BY DEF PadInv
<1>2. PICK s \in SideSet, i \in Int : i \in 1..Len(Row(s)) /\ loc = <<s, i>>
    BY <1>1, EntriesAre
<1>3. PICK e : e = pinout[s][i]
    OBVIOUS
<1>4. Pads!Entry(loc) = e /\ Drawn(loc) = Row(s)[i]
    BY <1>2, <1>3 DEF Pads!Entry, Drawn
<1>5. i \in 1..Len(pinout[s])
    BY <1>1, <1>2, RowIs
<1>6. e \in Pads!AnyPad
    BY <1>1, <1>3, <1>5 DEF PinoutType
<1>7. Drawn(loc) = IF e.kind = "sig" THEN Pads!Sig(expected, e.port, e.bit) ELSE e
    BY <1>1, <1>3, <1>4, <1>5, RowIs
<1>8. Pads!SigFits(expected, e)
    BY <1>4 DEF Pads!PadChecks
<1>9. CASE e.kind = "sig"
    <2>1. PICK d : d = Drawn(loc)
        OBVIOUS
    <2>2. d = [kind |-> "sig", port |-> e.port, bit |-> e.bit,
               cell |-> IF e.port = "tdo_o" THEN "tri"
                        ELSE IF expected[e.port][1] = "input" THEN "in" ELSE "out"]
        BY <1>7, <1>9, <2>1 DEF Pads!Sig
    <2>3. d.port = e.port /\ d.bit = e.bit
        BY <2>2
    <2>4. Wire(loc).name = Label(loc)
        BY <1>4, <2>1, <2>3 DEF Wire, Label, Pads!Instance, Pads!InstName
    <2>5. e.port \in DOMAIN expected
        BY <1>8, <1>9 DEF Pads!SigFits
    <2>6. Label(loc) = <<e.port, e.bit>>
        BY <1>4 DEF Label, Pads!InstName
    <2>7. CASE e.port = "tdo_o"
        <3>1. d.cell = "tri" /\ ~IsInput(e.port)
            BY <2>2, <2>7 DEF IsInput
        <3> QED BY <1>4, <1>9, <2>1, <2>3, <2>4, <2>5, <2>6, <2>7, <3>1
                DEF SigWire, Wire, Pads!Instance
    <2>8. CASE e.port # "tdo_o" /\ expected[e.port][1] = "input"
        <3>1. d.cell = "in" /\ IsInput(e.port)
            BY <2>2, <2>8 DEF IsInput
        <3> QED BY <1>4, <1>9, <2>1, <2>3, <2>4, <2>5, <2>6, <2>8, <3>1
                DEF SigWire, Wire, Pads!Instance
    <2>9. CASE e.port # "tdo_o" /\ expected[e.port][1] # "input"
        <3>1. d.cell = "out" /\ ~IsInput(e.port)
            BY <2>2, <2>9 DEF IsInput
        <3> QED BY <1>4, <1>9, <2>1, <2>3, <2>4, <2>5, <2>6, <2>9, <3>1
                DEF SigWire, Wire, Pads!Instance
    <2> QED BY <2>7, <2>8, <2>9
<1>10. CASE e.kind # "sig"
    <2>1. Drawn(loc) = e
        BY <1>7, <1>10
    <2>2. Wire(loc).name = Label(loc)
        BY <1>4, <2>1 DEF Wire, Label, Pads!Instance, Pads!InstName
    <2>3. CASE e.kind = "qio"
        <3>1. e.port = "qspi_io" /\ e.cell = "inout"
            BY <1>6, <2>3 DEF Pads!AnyPad
        <3> QED BY <1>4, <2>1, <2>2, <2>3, <3>1 DEF QioWire, Wire, Pads!Instance
    <2>4. CASE e.kind = "pwr"
        <3>1. e.port \notin Pads!Named \cup {"qspi_io"} /\ e.cell \in Pads!Supply
            BY <1>6, <2>4 DEF Pads!AnyPad
        <3>2. e.cell \notin {"in", "out", "tri", "inout"}
            BY <3>1 DEF Pads!Supply
        <3> QED BY <1>1, <1>4, <2>1, <2>2, <2>4, <3>1, <3>2 DEF PwrWire, Wire, Pads!Instance
    <2>5. e.kind = "qio" \/ e.kind = "pwr"
        BY <1>6, <1>10 DEF Pads!AnyPad
    <2> QED BY <2>3, <2>4, <2>5
<1> QED BY <1>9, <1>10

\* No two signal pads have one name, no two bidirectional ones one bit.
LEMMA NamesDiffer ==
    ASSUME PadInv, Pads!PadChecks, NEW x \in Pads!Entries, NEW y \in Pads!Entries,
           Pads!Entry(x).kind = Pads!Entry(y).kind, Pads!Entry(x).kind \in {"sig", "qio"},
           Label(x) = Label(y)
    PROVE  x = y
<1>1. IsFiniteSet(Pads!Entries)
    BY EntriesFinite DEF PadInv
<1>2. CASE Pads!Entry(x).kind = "sig"
    <2>1. PICK S : S = Pads!OfKind("sig")
        OBVIOUS
    <2>2. IsFiniteSet(S) /\ x \in S /\ y \in S
        BY <1>1, <1>2, <2>1, FS_Subset DEF Pads!OfKind
    <2>3. PICK f : f = [loc \in S |-> Label(loc)]
        OBVIOUS
    <2>4. {f[z] : z \in S} = Pads!Padded
        BY <2>1, <2>3 DEF Pads!Padded, Label
    <2>5. Cardinality({f[z] : z \in S}) = Cardinality(S)
        BY <2>1, <2>4, PadSets DEF Pads!PadChecks
    <2>6. f[x] = f[y] /\ DOMAIN f = S
        BY <2>2, <2>3
    <2> QED BY <2>2, <2>5, <2>6, SameCount
<1>3. CASE Pads!Entry(x).kind = "qio"
    <2>1. PICK S : S = Pads!OfKind("qio")
        OBVIOUS
    <2>2. IsFiniteSet(S) /\ x \in S /\ y \in S
        BY <1>1, <1>3, <2>1, FS_Subset DEF Pads!OfKind
    <2>3. PICK f : f = [loc \in S |-> Pads!Entry(loc).bit]
        OBVIOUS
    <2>4. {f[z] : z \in S} = {Pads!Entry(loc).bit : loc \in S}
        BY <2>3
    <2>5. Cardinality({f[z] : z \in S}) = Cardinality(S)
        BY <2>1, <2>4, PadSets DEF Pads!PadChecks
    <2>6. f[x] = f[y] /\ DOMAIN f = S
        BY <2>2, <2>3 DEF Label, Pads!InstName
    <2> QED BY <2>2, <2>5, <2>6, SameCount
<1> QED BY <1>2, <1>3

-----------------------------------------------------------------------------
(* The pads at the bits of a port. *)

InRing(p, loc) == p \in Pads!QioPorts => Wire(loc).cell = "inout"
Drives(p, b) == {loc \in Pads!Entries : InRing(p, loc) /\ b \in Wire(loc).from}
Driven(p, b) == {loc \in Pads!Entries : InRing(p, loc) /\ b \in Wire(loc).to}

\* The pads a port is to have: none, or one for each bit on the side of its
\* direction.
PortIsWired(p, b) ==
    IF p \in Tied \cup Open THEN Drives(p, b) = {} /\ Driven(p, b) = {}
    ELSE IF expected[p][1] = "input"
         THEN (\E loc : Drives(p, b) = {loc}) /\ Driven(p, b) = {}
         ELSE (\E loc : Driven(p, b) = {loc}) /\ Drives(p, b) = {}

Bits(p) ==
    IF expected[p][2] = 1 THEN {<<p, Pads!NoBit>>}
    ELSE {<<p, b>> : b \in 0..(expected[p][2] - 1)}

\* The signal pads of a port that is not of the bidirectional bus.
LEMMA PaddedOnce ==
    ASSUME PadInv, Pads!PadChecks, NEW p \in DOMAIN expected \ Pads!QioPorts
    PROVE  /\ p \in Tied \cup Open \cup {"tdo_oe_o"} =>
                  \A loc \in Pads!OfKind("sig") : Pads!Entry(loc).port # p
           /\ p \notin Tied \cup Open \cup {"tdo_oe_o"} =>
                  \A b \in Bits(p) : \E loc \in Pads!OfKind("sig") : Label(loc) = b
<1>1. {k \in Pads!Padded : k[1] = p} =
          IF p \in Tied \cup Open \cup {"tdo_oe_o"} THEN {} ELSE Bits(p)
    BY DEF Pads!PadChecks, Pads!EverySignalOnce, Bits
<1>2. \A loc \in Pads!OfKind("sig") : Label(loc) \in Pads!Padded
    BY DEF Pads!Padded, Label
<1>3. \A loc : Label(loc)[1] = Pads!Entry(loc).port
    BY DEF Label, Pads!InstName
<1>4. \A k \in Pads!Padded : \E loc \in Pads!OfKind("sig") : Label(loc) = k
    BY DEF Pads!Padded, Label
<1> QED BY <1>1, <1>2, <1>3, <1>4

\* The bits of the names the script knows.
LEMMA KnownPorts ==
    ASSUME PadInv, Pads!PadRingAssumption
    PROVE  /\ Pads!HardCoded \cap (Tied \cup Open) = {}
           /\ Pads!HardCoded \subseteq DOMAIN expected
           /\ "qspi_io" \notin DOMAIN expected
           /\ \A p \in {"tdo_o", "tdo_oe_o"} :
                  expected[p][1] = "output" /\ Bits(p) = {<<p, Pads!NoBit>>}
           /\ \A p \in Pads!QioPorts :
                  /\ expected[p][1] = "input" <=> p = "qspi_io_i"
                  /\ Bits(p) = {<<p, b>> : b \in 0..(QioBits - 1)}
<1>0. \A p \in Pads!HardCoded : p \in DOMAIN expected /\ expected[p] = Ports[p].is
    BY DEF PadInv
<1>1. \A p \in {"tdo_o", "tdo_oe_o"} : expected[p] = <<"output", 1>>
    BY <1>0 DEF Pads!PadRingAssumption, Pads!HardCoded
<1>2. \A p \in Pads!QioPorts :
          expected[p] = <<IF p = "qspi_io_i" THEN "input" ELSE "output", QioBits>>
    BY <1>0 DEF Pads!PadRingAssumption, Pads!HardCoded
<1>3. QioBits # 1
    BY DEF Pads!PadRingAssumption
<1>4. \A p \in {"tdo_o", "tdo_oe_o"} :
                  expected[p][1] = "output" /\ Bits(p) = {<<p, Pads!NoBit>>}
    BY <1>1 DEF Bits
<1>5. \A p \in Pads!QioPorts :
          /\ expected[p][1] = "input" <=> p = "qspi_io_i"
          /\ Bits(p) = {<<p, b>> : b \in 0..(QioBits - 1)}
    BY <1>2, <1>3 DEF Bits
<1>6. Pads!HardCoded \cap (Tied \cup Open) = {} /\ "qspi_io" \notin DOMAIN expected
    BY DEF PadInv, Pads!PadRingAssumption
<1> QED BY <1>0, <1>4, <1>5, <1>6

LEMMA QioWired ==
    ASSUME PadInv, Pads!PadRingAssumption, Pads!PadChecks,
           NEW p \in Pads!QioPorts, NEW b \in Bits(p)
    PROVE  PortIsWired(p, b)
<1>1. PICK x \in 0..(QioBits - 1) : b = <<p, x>>
    BY KnownPorts
<1>2. PICK loc \in Pads!OfKind("qio") : Pads!Entry(loc).bit = x
    BY DEF Pads!PadChecks
<1>3. loc \in Pads!Entries /\ Pads!Entry(loc).kind = "qio"
    BY <1>2 DEF Pads!OfKind
<1>4. \A k \in Pads!Entries :
          /\ SigWire(k) \/ PwrWire(k) => ~InRing(p, k)
          /\ QioWire(k) => InRing(p, k)
    BY DEF SigWire, PwrWire, QioWire, InRing, Pads!Supply
<1>5. \A k \in Pads!Entries : InRing(p, k) <=> QioWire(k)
    BY <1>4, WireIs
<1>6. QioWire(loc)
    BY <1>3, WireIs DEF SigWire, PwrWire
<1>7. ASSUME NEW k \in Pads!Entries, QioWire(k), Pads!Entry(k).bit = x PROVE k = loc
    <2>1. Pads!Entry(k).kind = "qio" /\ Label(k) = Label(loc)
        BY <1>2, <1>6, <1>7 DEF QioWire, Label, Pads!InstName
    <2> QED BY <1>3, <2>1, NamesDiffer
<1>8. CASE p = "qspi_io_i"
    <2>1. \A k \in Pads!Entries : QioWire(k) =>
              (b \in Wire(k).from <=> Pads!Entry(k).bit = x) /\ b \notin Wire(k).to
        BY <1>1, <1>8 DEF QioWire
    <2>2. Drives(p, b) = {loc} /\ Driven(p, b) = {}
        BY <1>2, <1>3, <1>5, <1>6, <1>7, <2>1 DEF Drives, Driven
    <2> QED BY <1>8, <2>2, KnownPorts DEF PortIsWired, Pads!HardCoded
<1>9. CASE p # "qspi_io_i"
    <2>1. \A k \in Pads!Entries : QioWire(k) =>
              (b \in Wire(k).to <=> Pads!Entry(k).bit = x) /\ b \notin Wire(k).from
        BY <1>1, <1>9 DEF QioWire, Pads!QioPorts
    <2>2. Driven(p, b) = {loc} /\ Drives(p, b) = {}
        BY <1>2, <1>3, <1>5, <1>6, <1>7, <2>1 DEF Drives, Driven
    <2> QED BY <1>9, <2>2, KnownPorts DEF PortIsWired, Pads!HardCoded
<1> QED BY <1>8, <1>9

LEMMA SigWired ==
    ASSUME PadInv, Pads!PadRingAssumption, Pads!PadChecks,
           NEW p \in DOMAIN expected \ Pads!QioPorts, NEW b \in Bits(p)
    PROVE  PortIsWired(p, b)
<1>1. b[1] = p
    BY DEF Bits
<1>2. \A k : InRing(p, k)
    BY DEF InRing
<1>3. ASSUME NEW k \in Pads!Entries, ~SigWire(k)
      PROVE  b \notin Wire(k).from /\ b \notin Wire(k).to
    <2>1. CASE QioWire(k)
        <3>1. \A c \in Wire(k).from \cup Wire(k).to : c[1] \in Pads!QioPorts
            BY <2>1 DEF QioWire, Pads!QioPorts
        <3> QED BY <1>1, <3>1
    <2>2. CASE PwrWire(k)
        BY <2>2 DEF PwrWire
    <2> QED BY <1>3, <2>1, <2>2, WireIs
<1>4. ASSUME NEW k \in Pads!Entries, SigWire(k)
      PROVE  k \in Pads!OfKind("sig") /\ Label(k)[1] = Pads!Entry(k).port
    BY <1>4 DEF SigWire, Pads!OfKind, Label, Pads!InstName
<1>5. \A k \in Pads!OfKind("sig") : k \in Pads!Entries /\ SigWire(k)
    BY WireIs DEF Pads!OfKind, QioWire, PwrWire
<1>6. CASE p \in Tied \cup Open
    <2>1. p # "tdo_oe_o"
        BY <1>6, KnownPorts DEF Pads!HardCoded
    <2>2. \A k \in Pads!OfKind("sig") : Pads!Entry(k).port # p
        BY <1>6, PaddedOnce
    <2>3. \A k \in Pads!Entries : SigWire(k) =>
              b \notin Wire(k).from /\ b \notin Wire(k).to
        <3>1. ASSUME NEW k \in Pads!Entries, SigWire(k)
              PROVE  b \notin Wire(k).from /\ b \notin Wire(k).to
            <4>1. b # Label(k)
                BY <1>1, <1>4, <2>2, <3>1
            <4>2. b # <<"tdo_oe_o", Pads!NoBit>>
                BY <1>1, <2>1
            <4> QED BY <3>1, <4>1, <4>2 DEF SigWire
        <3> QED BY <3>1
    <2>4. Drives(p, b) = {} /\ Driven(p, b) = {}
        BY <1>3, <2>3 DEF Drives, Driven
    <2> QED BY <1>6, <2>4 DEF PortIsWired
<1>7. CASE p = "tdo_oe_o"
    <2>1. b = <<"tdo_oe_o", Pads!NoBit>> /\ expected[p][1] = "output"
          /\ p \notin Tied \cup Open
        BY <1>7, KnownPorts DEF Pads!HardCoded
    <2>2. \A k \in Pads!OfKind("sig") : Pads!Entry(k).port # p
        BY <1>7, PaddedOnce
    <2>3. \A k \in Pads!Entries : SigWire(k) => Label(k) # b
        BY <1>1, <1>4, <2>2
    <2>4. /\ "tdo_o" \in DOMAIN expected \ Pads!QioPorts
          /\ "tdo_o" \notin Tied \cup Open \cup {"tdo_oe_o"}
          /\ Bits("tdo_o") = {<<"tdo_o", Pads!NoBit>>}
        BY KnownPorts DEF Pads!HardCoded, Pads!QioPorts
    <2>5. PICK loc \in Pads!OfKind("sig") : Label(loc) = <<"tdo_o", Pads!NoBit>>
        BY <2>4, PaddedOnce
    <2>6. loc \in Pads!Entries /\ SigWire(loc) /\ Pads!Entry(loc).port = "tdo_o"
        BY <1>4, <1>5, <2>5
    <2>7. \A k \in Pads!Entries : SigWire(k) =>
              b \notin Wire(k).from /\ (b \in Wire(k).to <=> Pads!Entry(k).port = "tdo_o")
        BY <2>1, <2>3 DEF SigWire
    <2>8. ASSUME NEW k \in Pads!Entries, SigWire(k), Pads!Entry(k).port = "tdo_o"
          PROVE  k = loc
        <3>1. Label(k) = <<"tdo_o", Pads!NoBit>>
            <4>1. Pads!SigFits(expected, Pads!Entry(k)) /\ Pads!Entry(k).kind = "sig"
                BY <2>8 DEF Pads!PadChecks, SigWire
            <4>2. expected["tdo_o"][2] = 1
                <5>1. expected["tdo_o"] = <<"output", 1>>
                    <6>1. expected["tdo_o"] = Ports["tdo_o"].is
                        BY DEF PadInv, Pads!HardCoded
                    <6> QED BY <6>1 DEF Pads!PadRingAssumption
                <5> QED BY <5>1
            <4> QED BY <2>8, <4>1, <4>2 DEF Pads!SigFits, Label, Pads!InstName
        <3>2. Pads!Entry(k).kind = "sig" /\ Pads!Entry(loc).kind = "sig"
            BY <2>6, <2>8 DEF SigWire
        <3> QED BY <2>5, <2>6, <3>1, <3>2, NamesDiffer
    <2>9. Driven(p, b) = {loc} /\ Drives(p, b) = {}
        BY <1>2, <1>3, <2>6, <2>7, <2>8 DEF Drives, Driven
    <2> QED BY <2>1, <2>9 DEF PortIsWired
<1>8. CASE p \notin Tied \cup Open \cup {"tdo_oe_o"}
    <2>1. PICK loc \in Pads!OfKind("sig") : Label(loc) = b
        BY <1>8, PaddedOnce
    <2>2. loc \in Pads!Entries /\ SigWire(loc) /\ Pads!Entry(loc).port = p
        BY <1>1, <1>4, <1>5, <2>1
    <2>3. ASSUME NEW k \in Pads!Entries, SigWire(k), Label(k) = b PROVE k = loc
        <3>1. Pads!Entry(k).kind = "sig" /\ Pads!Entry(loc).kind = "sig"
            BY <2>2, <2>3 DEF SigWire
        <3> QED BY <2>1, <2>2, <2>3, <3>1, NamesDiffer
    <2>4. \A k \in Pads!Entries : SigWire(k) /\ Label(k) # b =>
              b \notin Wire(k).from /\ b \notin Wire(k).to
        <3>1. b # <<"tdo_oe_o", Pads!NoBit>>
            BY <1>1, <1>8
        <3> QED BY <3>1 DEF SigWire
    <2>5. CASE IsInput(p)
        <3>1. b \in Wire(loc).from /\ b \notin Wire(loc).to /\ expected[p][1] = "input"
            BY <2>1, <2>2, <2>5 DEF SigWire, IsInput
        <3>2. Drives(p, b) = {loc} /\ Driven(p, b) = {}
            BY <1>2, <1>3, <2>2, <2>3, <2>4, <3>1 DEF Drives, Driven
        <3> QED BY <1>8, <3>1, <3>2 DEF PortIsWired
    <2>6. CASE ~IsInput(p)
        <3>1. expected[p][1] # "input"
            BY <2>6, KnownPorts DEF IsInput
        <3>2. b \notin Wire(loc).from /\ b \in Wire(loc).to
            BY <2>1, <2>2, <2>6 DEF SigWire
        <3>3. Driven(p, b) = {loc} /\ Drives(p, b) = {}
            BY <1>2, <1>3, <2>2, <2>3, <2>4, <3>2 DEF Drives, Driven
        <3> QED BY <1>8, <3>1, <3>3 DEF PortIsWired
    <2> QED BY <2>5, <2>6
<1> QED BY <1>6, <1>7, <1>8

-----------------------------------------------------------------------------

\* What the script takes a port to be that it reads right, and one it does not.
LEMMA ReadingIs ==
    ASSUME Pads!parse_ports = expected, NEW p \in DOMAIN ports
    PROVE  /\ Pads!ReadRight(p) =>
                  /\ p \in DOMAIN expected /\ expected[p] = ports[p].is
                  /\ Pads!PortBits(p) = Bits(p)
           /\ ~Pads!ReadRight(p) /\ p \in DOMAIN expected =>
                  /\ ports[p].line = "param" /\ ports[p].is # expected[p]
                  /\ expected[p] = <<ports[p].is[1], ParamWidth>>
<1>1. /\ DOMAIN expected = Pads!MatchedLines
      /\ \A q \in Pads!MatchedLines : expected[q] = Pads!ParsedAs(ports[q])
    BY DEF Pads!parse_ports
<1>2. ASSUME Pads!ReadRight(p)
      PROVE  /\ p \in DOMAIN expected /\ expected[p] = ports[p].is
             /\ Pads!PortBits(p) = Bits(p)
    <2>1. p \in DOMAIN expected /\ expected[p] = ports[p].is
        BY <1>1, <1>2 DEF Pads!ReadRight
    <2> QED BY <2>1 DEF Pads!PortBits, Bits
<1>3. ASSUME ~Pads!ReadRight(p), p \in DOMAIN expected
      PROVE  /\ ports[p].line = "param" /\ ports[p].is # expected[p]
             /\ expected[p] = <<ports[p].is[1], ParamWidth>>
    <2>1. expected[p] = Pads!ParsedAs(ports[p]) /\ expected[p] # ports[p].is
        BY <1>1, <1>3 DEF Pads!ReadRight
    <2> QED BY <2>1 DEF Pads!ParsedAs
<1> QED BY <1>2, <1>3

\* The pads of a chip top that is written.
LEMMA ChipWired ==
    ASSUME PadInv, Pads!PadRingAssumption, Pads!PadChecks, Pads!parse_ports = expected
    PROVE  /\ \A p \in DOMAIN ports : Pads!ReadRight(p) =>
                  \A b \in Pads!PortBits(p) : Pads!Placed(Pads!Chip, p, b)
           /\ \A i, k \in DOMAIN Pads!Chip.pads :
                 i # k /\ Pads!Chip.pads[i].cell \notin Pads!Supply =>
                     Pads!Chip.pads[i].name # Pads!Chip.pads[k].name
<1>1. PICK D : D = DOMAIN Pads!Numbered
    OBVIOUS
<1>2. PinoutType
    BY DEF PadInv
<1>3. /\ DOMAIN Pads!Chip.pads = D
      /\ \A i \in D : Pads!Chip.pads[i] = Wire(Place[i]) /\ Place[i] \in Pads!Entries
    BY <1>1, <1>2, PlaceIs DEF Pads!Chip, Wire
<1>4. ASSUME NEW p \in DOMAIN ports, Pads!ReadRight(p), NEW b \in Pads!PortBits(p)
      PROVE  Pads!Placed(Pads!Chip, p, b)
    <2>1. PICK driving, driven :
              /\ driving = {i \in D : Place[i] \in Drives(p, b)}
              /\ driven = {i \in D : Place[i] \in Driven(p, b)}
        OBVIOUS
    <2>2. PICK loc : loc = {i \in DOMAIN Pads!Chip.pads :
                            p \in Pads!QioPorts => Pads!Chip.pads[i].cell = "inout"}
        OBVIOUS
    <2>3. \A i : i \in loc <=> i \in D /\ InRing(p, Place[i])
        BY <1>3, <2>2 DEF InRing
    <2>4. /\ {i \in loc : b \in Pads!Chip.pads[i].from} = driving
          /\ {i \in loc : b \in Pads!Chip.pads[i].to} = driven
        BY <1>3, <2>1, <2>3 DEF Drives, Driven
    <2>5. p \in DOMAIN expected /\ b \in Bits(p) /\ ports[p].is = expected[p]
        BY <1>4, ReadingIs
    <2>6. PortIsWired(p, b)
        BY <2>5, QioWired, SigWired
    <2>7. Pads!Chip.sub[p] = "core" <=> p \notin Tied \cup Open
        BY <2>5 DEF Pads!Chip, Pads!SubConnection
    <2>8. /\ Drives(p, b) = {} => driving = {}
          /\ Driven(p, b) = {} => driven = {}
        BY <2>1
    <2>9. ASSUME NEW k, Drives(p, b) = {k} PROVE Pads!Cardinality(driving) = 1
        <3>1. k \in Pads!Entries
            BY <2>9 DEF Drives
        <3>2. driving = {i \in D : Place[i] = k}
            BY <2>1, <2>9
        <3> QED BY <1>1, <1>2, <3>1, <3>2, OnePlace, PadSets
    <2>10. ASSUME NEW k, Driven(p, b) = {k} PROVE Pads!Cardinality(driven) = 1
        <3>1. k \in Pads!Entries
            BY <2>10 DEF Driven
        <3>2. driven = {i \in D : Place[i] = k}
            BY <2>1, <2>10
        <3> QED BY <1>1, <1>2, <3>1, <3>2, OnePlace, PadSets
    <2>11. IF Pads!Chip.sub[p] # "core" THEN driving \cup driven = {}
           ELSE IF ports[p].is[1] = "input"
                THEN Pads!Cardinality(driving) = 1 /\ driven = {}
           ELSE Pads!Cardinality(driven) = 1 /\ driving = {}
        BY <2>5, <2>6, <2>7, <2>8, <2>9, <2>10 DEF PortIsWired
    <2> QED BY <2>2, <2>4, <2>11 DEF Pads!Placed
<1>5. ASSUME NEW i \in DOMAIN Pads!Chip.pads, NEW k \in DOMAIN Pads!Chip.pads, i # k,
             Pads!Chip.pads[i].cell \notin Pads!Supply
      PROVE  Pads!Chip.pads[i].name # Pads!Chip.pads[k].name
    <2>1. PICK x, y : x = Place[i] /\ y = Place[k]
        OBVIOUS
    <2>2. x \in Pads!Entries /\ y \in Pads!Entries /\ x # y
        BY <1>1, <1>2, <1>3, <1>5, <2>1, PlaceIs
    <2>3. /\ Pads!Chip.pads[i].name = Label(x) /\ Pads!Chip.pads[k].name = Label(y)
          /\ Wire(x).cell \notin Pads!Supply
        BY <1>3, <1>5, <2>1, <2>2, WireIs
    <2>4. SUFFICES ASSUME Label(x) = Label(y) PROVE FALSE
        BY <2>3
    <2>5. Pads!Entry(x).port = Pads!Entry(y).port
        BY <2>4 DEF Label, Pads!InstName
    <2>6. "qspi_io" \notin DOMAIN expected
        BY KnownPorts
    <2>7. CASE SigWire(x)
        <3>1. SigWire(y)
            BY <2>2, <2>5, <2>6, <2>7, WireIs DEF SigWire, QioWire, PwrWire
        <3>2. Pads!Entry(x).kind = "sig" /\ Pads!Entry(y).kind = "sig"
            BY <2>7, <3>1 DEF SigWire
        <3> QED BY <2>2, <2>4, <3>2, NamesDiffer
    <2>8. CASE QioWire(x)
        <3>1. QioWire(y)
            BY <2>2, <2>5, <2>6, <2>8, WireIs DEF SigWire, QioWire, PwrWire
        <3>2. Pads!Entry(x).kind = "qio" /\ Pads!Entry(y).kind = "qio"
            BY <2>8, <3>1 DEF QioWire
        <3> QED BY <2>2, <2>4, <3>2, NamesDiffer
    <2>9. ~PwrWire(x)
        BY <2>3 DEF PwrWire
    <2> QED BY <2>2, <2>7, <2>8, <2>9, WireIs
<1> QED BY <1>1, <1>4, <1>5

\* The bits at the pads of a port that is not known by its name are those the
\* script takes it to have: none when its line is missed.
LEMMA ConnectedIs ==
    ASSUME PadInv, Pads!PadRingAssumption, Pads!PadChecks,
           NEW p, p \notin Pads!HardCoded \cup Tied \cup Open
    PROVE  Pads!Connected(Pads!Chip, p) = IF p \in DOMAIN expected THEN Bits(p) ELSE {}
<1>1. PICK D : D = DOMAIN Pads!Numbered
    OBVIOUS
<1>2. PinoutType
    BY DEF PadInv
<1>3. /\ DOMAIN Pads!Chip.pads = D
      /\ \A i \in D : Pads!Chip.pads[i] = Wire(Place[i]) /\ Place[i] \in Pads!Entries
      /\ \A loc \in Pads!Entries : \E i \in D : Place[i] = loc
    BY <1>1, <1>2, PlaceIs DEF Pads!Chip, Wire
<1>4. \A b : b \in Pads!Connected(Pads!Chip, p) <=>
          b[1] = p /\ \E loc \in Pads!Entries : b \in Wire(loc).from \cup Wire(loc).to
    <2>1. \A w : w \in Pads!ToSet(Pads!Chip.pads) <=> \E loc \in Pads!Entries : w = Wire(loc)
        BY <1>3 DEF Pads!ToSet
    <2> QED BY <2>1 DEF Pads!Connected
<1>5. ASSUME NEW loc \in Pads!Entries, NEW b, b \in Wire(loc).from \cup Wire(loc).to,
             b[1] = p
      PROVE  SigWire(loc) /\ b = Label(loc) /\ Pads!Entry(loc).port = p
    <2>1. p \notin Pads!QioPorts /\ p # "tdo_oe_o"
        BY DEF Pads!HardCoded
    <2>2. CASE SigWire(loc)
        <3>1. b = Label(loc) \/ b = <<"tdo_oe_o", Pads!NoBit>>
            BY <1>5, <2>2 DEF SigWire
        <3>2. b = Label(loc)
            BY <1>5, <2>1, <3>1
        <3> QED BY <1>5, <2>2, <3>2 DEF Label, Pads!InstName
    <2>3. CASE QioWire(loc)
        <3>1. \A c \in Wire(loc).from \cup Wire(loc).to : c[1] \in Pads!QioPorts
            BY <2>3 DEF QioWire, Pads!QioPorts
        <3> QED BY <1>5, <2>1, <3>1
    <2>4. CASE PwrWire(loc)
        BY <1>5, <2>4 DEF PwrWire
    <2> QED BY <2>2, <2>3, <2>4, WireIs
<1>6. CASE p \notin DOMAIN expected
    <2>1. \A b : b \notin Pads!Connected(Pads!Chip, p)
        BY <1>4, <1>5, <1>6 DEF SigWire
    <2> QED BY <1>6, <2>1
<1>7. CASE p \in DOMAIN expected
    <2>1. p \notin Pads!QioPorts /\ p # "tdo_oe_o" /\ p # "tdo_o"
        BY DEF Pads!HardCoded
    <2>2. {k \in Pads!Padded : k[1] = p} = Bits(p)
        BY <1>7, <2>1 DEF Pads!PadChecks, Pads!EverySignalOnce, Bits
    <2>3. ASSUME NEW b \in Pads!Connected(Pads!Chip, p) PROVE b \in Bits(p)
        <3>1. PICK loc \in Pads!Entries : SigWire(loc) /\ b = Label(loc)
            BY <1>4, <1>5
        <3>2. Label(loc) \in Pads!Padded
            BY <3>1 DEF SigWire, Pads!Padded, Pads!OfKind, Label
        <3>3. b[1] = p
            BY <1>4
        <3> QED BY <2>2, <3>1, <3>2, <3>3
    <2>4. ASSUME NEW b \in Bits(p) PROVE b \in Pads!Connected(Pads!Chip, p)
        <3>1. b[1] = p
            BY DEF Bits
        <3>2. PICK loc \in Pads!OfKind("sig") : Label(loc) = b
            BY <2>2 DEF Pads!Padded, Label
        <3>3. loc \in Pads!Entries /\ SigWire(loc)
            BY <3>2, WireIs DEF Pads!OfKind, QioWire, PwrWire
        <3>4. b \in Wire(loc).from \cup Wire(loc).to
            BY <3>2, <3>3 DEF SigWire
        <3> QED BY <1>4, <3>1, <3>3, <3>4
    <2> QED BY <1>7, <2>3, <2>4
<1> QED BY <1>6, <1>7

\* A port that is not read right is not wired as it is.
LEMMA ChipDrifts ==
    ASSUME PadInv, Pads!PadRingAssumption, Pads!PadChecks, Pads!parse_ports = expected,
           NEW p \in DOMAIN ports \ (Tied \cup Open), ~Pads!ReadRight(p)
    PROVE  Pads!Connected(Pads!Chip, p) # Pads!PortBits(p)
<1>1. ASSUME p \in Pads!HardCoded PROVE FALSE
    <2>1. ports[p] = Ports[p] /\ Ports[p].line = "plain" /\ p \in DOMAIN expected
        BY <1>1 DEF PadInv, Pads!PadRingAssumption
    <2> QED BY <2>1, ReadingIs
<1>2. Pads!Connected(Pads!Chip, p) = IF p \in DOMAIN expected THEN Bits(p) ELSE {}
    BY <1>1, ConnectedIs
<1>3. PICK w \in Nat \ {0} : w = ports[p].is[2]
    BY DEF PadInv, Pads!Declaration
<1>4. Pads!PortBits(p) = IF w = 1 THEN {<<p, Pads!NoBit>>} ELSE {<<p, b>> : b \in 0..(w - 1)}
    BY <1>3 DEF Pads!PortBits
<1>5. CASE p \notin DOMAIN expected
    <2>1. 0 \in 0..(w - 1)
        BY <1>3
    <2>2. Pads!PortBits(p) # {}
        BY <1>4, <2>1
    <2> QED BY <1>2, <1>5, <2>2
<1>6. CASE p \in DOMAIN expected
    <2>1. PICK v \in Nat \ {0} : v = ParamWidth
        BY DEF Pads!PadRingAssumption
    <2>2. expected[p] = <<ports[p].is[1], v>> /\ ports[p].is # expected[p]
        BY <1>6, <2>1, ReadingIs
    <2>3. v # w
        <3>1. PICK d : d = ports[p].is
            OBVIOUS
        <3>2. d \in {"input", "output"} \X (Nat \ {0})
            BY <3>1 DEF PadInv, Pads!Declaration
        <3>3. d = <<d[1], d[2]>>
            BY <3>2
        <3> QED BY <1>3, <2>2, <3>1, <3>3
    <2>4. Bits(p) = IF v = 1 THEN {<<p, Pads!NoBit>>} ELSE {<<p, b>> : b \in 0..(v - 1)}
        BY <2>2 DEF Bits
    <2>5. Pads!NoBit = -1
        BY DEF Pads!NoBit
    <2>6. \A x, y : <<p, x>> = <<p, y>> => x = y
        OBVIOUS
    <2>7. CASE v = 1
        <3>1. 0 \in 0..(w - 1) /\ w # 1
            BY <1>3, <2>3, <2>7
        <3>2. <<p, 0>> \in Pads!PortBits(p) /\ <<p, 0>> \notin Bits(p)
            BY <1>4, <2>4, <2>5, <2>6, <2>7, <3>1
        <3> QED BY <1>2, <1>6, <3>2
    <2>8. CASE w = 1
        <3>1. v # 1 /\ -1 \notin 0..(v - 1)
            BY <2>1, <2>3, <2>8
        <3>2. <<p, -1>> \in Pads!PortBits(p) /\ <<p, -1>> \notin Bits(p)
            BY <1>4, <2>4, <2>5, <2>6, <2>8, <3>1
        <3> QED BY <1>2, <1>6, <3>2
    <2>9. CASE v # 1 /\ w # 1
        <3>1. \A b : (<<p, b>> \in Pads!PortBits(p) <=> b \in 0..(w - 1))
                  /\ (<<p, b>> \in Bits(p) <=> b \in 0..(v - 1))
            BY <1>4, <2>4, <2>6, <2>9
        <3>2. \/ w - 1 \in 0..(w - 1) /\ w - 1 \notin 0..(v - 1)
              \/ v - 1 \in 0..(v - 1) /\ v - 1 \notin 0..(w - 1)
            BY <1>3, <2>1, <2>3
        <3>3. Pads!PortBits(p) # Bits(p)
            BY <3>1, <3>2
        <3> QED BY <1>2, <1>6, <3>3
    <2> QED BY <2>7, <2>8, <2>9
<1> QED BY <1>5, <1>6

\* The chip top that is written and the manual's table, step by step.
LEMMA ChipWritten ==
    ASSUME PadInv, Pads!PadRingAssumption, Pads!WriteChip
    PROVE  /\ \A p \in DOMAIN ports : Pads!ReadRight(p) =>
                  \A b \in Pads!PortBits(p) : Pads!Placed(chip', p, b)
           /\ \A i, k \in DOMAIN chip'.pads :
                 i # k /\ chip'.pads[i].cell \notin Pads!Supply =>
                     chip'.pads[i].name # chip'.pads[k].name
           /\ \A p \in DOMAIN ports \ (Tied \cup Open) :
                 ~Pads!ReadRight(p) => Pads!Connected(chip', p) # Pads!PortBits(p)
<1>1. chip' = Pads!Chip /\ pads_pc = "chip"
    BY DEF Pads!WriteChip
<1>2. Pads!parse_ports = expected /\ Pads!PadChecks
    BY <1>1 DEF PadInv
<1> QED BY <1>1, <1>2, ChipWired, ChipDrifts

LEMMA PadInvariant == Pads!Spec => []PadInv
<1>1. PadInv /\ [Pads!Next]_(Pads!vars) => PadInv'
    BY PadKept, ToolConstants
<1>2. Pads!Init => PadInv
    BY PadStart, ToolConstants
<1> QED BY <1>1, <1>2, PTL DEF Pads!Spec

\* Whatever was edited before, in the ports, in the table of the script and in
\* the pinout: a chip top that is written gives every bit of every port that the
\* script reads as it is declared its one pad in the direction of the RTL, and no
\* two signals a pad of one name; a port that is not read so, because the pattern
\* misses its line or the parameter is not the script's, it never gives its pads;
\* and a run that gets to its end leaves three files of one pinout
\* (scripts/gen_padring.py:15-18, 69-91, 223).
THEOREM EveryPortHasItsPad == Pads!Spec => ChipIsWired
<1>1. ASSUME PadInv, [Pads!Next]_(Pads!vars)
      PROVE  chip' # chip => Pads!WriteChip
    <2>1. Pads!EditPorts \/ Pads!EditPinout \/ Pads!EditConfig => chip' = chip
        BY DEF Pads!EditPorts, Pads!EditPinout, Pads!EditConfig, Pads!Edit
    <2>2. Pads!Checks \/ Pads!WriteConfig \/ Pads!WriteDoc => chip' = chip
        BY DEF Pads!Checks, Pads!WriteConfig, Pads!WriteDoc
    <2>3. UNCHANGED Pads!vars => chip' = chip
        BY DEF Pads!vars
    <2> QED BY <1>1, <2>1, <2>2, <2>3 DEF Pads!Next
<1>2. ASSUME PadInv, [Pads!Next]_(Pads!vars)
      PROVE  doc' # doc => Pads!WriteDoc
    <2>1. Pads!EditPorts \/ Pads!EditPinout \/ Pads!EditConfig => doc' = doc
        BY DEF Pads!EditPorts, Pads!EditPinout, Pads!EditConfig, Pads!Edit
    <2>2. Pads!Checks \/ Pads!WriteChip \/ Pads!WriteConfig => doc' = doc
        BY DEF Pads!Checks, Pads!WriteChip, Pads!WriteConfig
    <2>3. UNCHANGED Pads!vars => doc' = doc
        BY DEF Pads!vars
    <2> QED BY <1>2, <2>1, <2>2, <2>3 DEF Pads!Next
<1>3. ASSUME PadInv, Pads!WriteDoc, doc' # doc
      PROVE  LET names == [i \in DOMAIN chip.pads |-> chip.pads[i].name]
             IN Pads!FlattenSeq(config.lists) = names /\ doc'.rows = names
    <2>1. doc' = Pads!Doc /\ pads_pc = "doc"
        BY <1>3 DEF Pads!WriteDoc
    <2> QED BY <1>3, <2>1, NamesAgree
<1>4. Pads!Spec => Pads!ChipIsWired
    <2>1. PadInv /\ [Pads!Next]_(Pads!vars) =>
              [chip' # chip =>
               /\ \A p \in DOMAIN ports : Pads!ReadRight(p) =>
                      \A b \in Pads!PortBits(p) : Pads!Placed(chip', p, b)
               /\ \A i, k \in DOMAIN chip'.pads :
                     i # k /\ chip'.pads[i].cell \notin Pads!Supply =>
                         chip'.pads[i].name # chip'.pads[k].name]_(Pads!vars)
        BY <1>1, ChipWritten, ToolConstants
    <2> QED BY <2>1, PadInvariant, PTL DEF Pads!Spec, Pads!ChipIsWired
<1>5. Pads!Spec => Pads!DriftIsWritten
    <2>1. PadInv /\ [Pads!Next]_(Pads!vars) =>
              [chip' # chip =>
               \A p \in DOMAIN ports \ (Tied \cup Open) :
                  ~Pads!ReadRight(p) => Pads!Connected(chip', p) # Pads!PortBits(p)]_(Pads!vars)
        BY <1>1, ChipWritten, ToolConstants
    <2> QED BY <2>1, PadInvariant, PTL DEF Pads!Spec, Pads!DriftIsWritten
<1>6. Pads!Spec => Pads!FilesAgree
    <2>1. PadInv /\ [Pads!Next]_(Pads!vars) =>
              [doc' # doc =>
               LET names == [i \in DOMAIN chip.pads |-> chip.pads[i].name]
               IN Pads!FlattenSeq(config.lists) = names /\ doc'.rows = names]_(Pads!vars)
        BY <1>2, <1>3
    <2> QED BY <2>1, PadInvariant, PTL DEF Pads!Spec, Pads!FilesAgree
<1> QED BY <1>4, <1>5, <1>6 DEF ChipIsWired

=============================================================================
