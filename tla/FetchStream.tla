---------------------------- MODULE FetchStream ----------------------------
(***************************************************************************)
(* What the word prefetcher promises to the realigner below it, whatever   *)
(* its buffering: a stream of words, one after the other in address order  *)
(* from the latest redirect target.  The word on offer stays put until it  *)
(* is taken or a redirect withdraws it, no word is skipped or repeated,    *)
(* and nothing requested before a redirect is offered after it.            *)
(***************************************************************************)

CONSTANTS
    Pc,       \* word addresses
    NextPc,   \* the address after each one: pc + 4, modulo 2^32
    Garbage   \* data words that come with an error: not a memory content

VARIABLES
    pos,      \* the address the stream has reached
    offer     \* the set of the one word on offer, or {}

streamVars == <<pos, offer>>

\* The entries that may stand for the word at address p: its own content,
\* read since the latest redirect, or a marked error.
Words(p) ==
    { [pc |-> p, word |-> p, err |-> e, fresh |-> TRUE] : e \in BOOLEAN }
    \cup { [pc |-> p, word |-> g, err |-> TRUE, fresh |-> TRUE] : g \in Garbage }

Init ==
    /\ pos \in Pc
    /\ offer = {}

Offer ==
    /\ offer = {}
    /\ \E w \in Words(pos) : offer' = {w}
    /\ UNCHANGED pos

Take ==
    /\ offer # {}
    /\ pos' = NextPc[pos]
    /\ \/ offer' = {}
       \/ \E w \in Words(pos') : offer' = {w}

Redirect ==
    /\ pos' \in Pc
    /\ offer' = {}

Next == Offer \/ Take \/ Redirect

Spec == Init /\ [][Next]_streamVars

=============================================================================
