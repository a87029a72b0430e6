---------------------------- MODULE RemoteAccess ----------------------------
(***************************************************************************)
(* What the debug bridge promises the TAP: an accepted request is          *)
(* performed exactly once in the system domain, and the answer that frees  *)
(* the caller is what that very access read.                               *)
(***************************************************************************)
EXTENDS Naturals

CONSTANTS
    Request,   \* address, write data and direction of an access
    Sample     \* what the window may hold when it is read

VARIABLES
    waiting,   \* a request is outstanding
    request,   \* the request accepted last
    performed, \* how often it has been performed
    result,    \* what the access read
    answer     \* what the caller was told last

remoteVars == <<waiting, request, performed, result, answer>>

Init ==
    /\ waiting = FALSE
    /\ performed = 0
    /\ result = {}
    /\ answer = {}
    /\ request \in Request

Ask ==
    /\ ~waiting
    /\ waiting' = TRUE
    /\ request' \in Request
    /\ performed' = 0
    /\ UNCHANGED <<result, answer>>

Perform ==
    /\ waiting
    /\ performed = 0
    /\ performed' = 1
    /\ \E s \in Sample : result' = {<<request, s>>}
    /\ UNCHANGED <<waiting, request, answer>>

Answer ==
    /\ waiting
    /\ performed = 1
    /\ waiting' = FALSE
    /\ answer' = result
    /\ UNCHANGED <<request, performed, result>>

Next == Ask \/ Perform \/ Answer

Spec == Init /\ [][Next]_remoteVars

=============================================================================
