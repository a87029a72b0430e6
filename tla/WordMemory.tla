---------------------------- MODULE WordMemory -----------------------------
(***************************************************************************)
(* What a tightly coupled memory promises its masters: every accepted      *)
(* access takes effect at once, a partial store included, and the next     *)
(* cycle answers it.  A word may be lost to two flipped bits; it is then   *)
(* never returned as data, and the access that ends the loss is answered   *)
(* with an error.                                                          *)
(***************************************************************************)
CONSTANTS
    Addr, Lane, Value   \* words, byte lanes of a word, values of a byte

Word == [Lane -> Value]
Merge(old, new, be) == [l \in Lane |-> IF l \in be THEN new[l] ELSE old[l]]

VARIABLES
    req,        \* the access requested, a set of at most one; the masters' own
    contents,   \* {word} for each address, or {} when it is lost
    reply       \* {} or the answer of this cycle

memoryVars == <<contents, reply>>

Done == [err |-> FALSE, data |-> {}]
Failed == [err |-> TRUE, data |-> {}]
Data(word) == [err |-> FALSE, data |-> {word}]

Init ==
    /\ contents \in [Addr -> { {} } \cup { {w} : w \in Word }]
    /\ reply = {}

Load(acc) ==
    /\ ~acc.we
    /\ reply' = IF contents[acc.addr] = {} THEN {Failed}
                ELSE { Data(w) : w \in contents[acc.addr] }
    /\ UNCHANGED contents

StoreFull(acc) ==
    /\ acc.we /\ acc.be = Lane
    /\ contents' = [contents EXCEPT ![acc.addr] = {acc.wdata}]
    /\ reply' = {Done}

\* A partial store on a lost word stores an arbitrary rest, and says so.
StorePart(acc) ==
    /\ acc.we /\ acc.be # Lane
    /\ \E old \in IF contents[acc.addr] = {} THEN Word ELSE contents[acc.addr] :
           contents' = [contents EXCEPT ![acc.addr] = {Merge(old, acc.wdata, acc.be)}]
    /\ reply' = IF contents[acc.addr] = {} THEN {Failed} ELSE {Done}

\* No request, or one that is not accepted yet.
NoAccess == reply' = {} /\ UNCHANGED contents

Lose(a) == contents' = [contents EXCEPT ![a] = {}] /\ UNCHANGED reply

Next ==
    \/ \E acc \in req : Load(acc) \/ StoreFull(acc) \/ StorePart(acc)
    \/ NoAccess
    \/ \E a \in Addr : Lose(a)

Spec == Init /\ [][Next]_memoryVars

=============================================================================
