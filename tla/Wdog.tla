-------------------------------- MODULE Wdog --------------------------------
(***************************************************************************)
(* The windowed watchdog, cdriscv_32s_20_wdog.  One step is one edge of    *)
(* clk with at most one register write of the APB; the counter moves on    *)
(* every edge.  Configuration parity is the subject of SafetyCtrl.         *)
(***************************************************************************)
EXTENDS Naturals

CONSTANT Max    \* the largest count, 2^32 - 1 in the code
ASSUME MaxAssumption == Max \in Nat \ {0}

Count == 0..Max
Key == {"A", "B", "other"}

VARIABLES
    enable_q, window_q, lock_q, rst_en_q,
    period_q, window_val_q, count_q,
    sts_timeout_q, sts_badsvc_q, key_armed_q,
    quiet,      \* history: edges counted since the count was last reloaded
    lastKey     \* history: the last write to SERVICE, "none" at first and
                \* once a service has completed

ctrlVars == <<enable_q, window_q, lock_q, rst_en_q>>
cfgVars == <<ctrlVars, period_q, window_val_q>>
stsVars == <<sts_timeout_q, sts_badsvc_q>>
keyVars == <<key_armed_q, lastKey>>
vars == <<cfgVars, count_q, stsVars, keyVars, quiet>>

-----------------------------------------------------------------------------

Timeout == enable_q /\ count_q = 0

InWindowAlways == TRUE                            \* mutant: no early check
InWindow == ~window_q \/ count_q <= window_val_q

\* The write of a key to SERVICE: completing, in time, or at fault.
SvcDone(key) == key = "B" /\ key_armed_q
SvcEarly(key) == SvcDone(key) /\ ~InWindow
SvcBadKey(key) == ~(key = "A" \/ SvcDone(key))
SvcGood(key) == SvcDone(key) /\ InWindow
SvcFault(key) == SvcBadKey(key) \/ SvcEarly(key)

CfgWr == ~lock_q

CountDown == IF ~enable_q THEN count_q
             ELSE IF count_q = 0 THEN period_q ELSE count_q - 1

\* An accepted service reloads the counter; a refused one must not.
ReloadEarly(key) == SvcDone(key)                  \* mutant: early service too
Reload(key) == SvcGood(key)

KeyArmed(key) == key = "A"

-----------------------------------------------------------------------------

Init ==
    /\ enable_q = FALSE
    /\ window_q = FALSE
    /\ lock_q = FALSE
    /\ rst_en_q = FALSE
    /\ period_q = Max
    /\ window_val_q = Max \div 2
    /\ count_q = Max
    /\ sts_timeout_q = FALSE
    /\ sts_badsvc_q = FALSE
    /\ key_armed_q = FALSE
    /\ quiet = 0
    /\ lastKey = "none"

\* What an edge does to the counter and the time-out flag when no write of
\* this edge overrides it.
Tick ==
    /\ count_q' = CountDown
    /\ quiet' = IF Timeout THEN 0 ELSE IF enable_q THEN quiet + 1 ELSE quiet
TimeoutSticks == sts_timeout_q' = (sts_timeout_q \/ Timeout)

Idle ==
    /\ Tick
    /\ TimeoutSticks
    /\ UNCHANGED <<cfgVars, sts_badsvc_q, keyVars>>

WriteCtrl(enable, window, lock, rstEn) ==
    /\ IF CfgWr
       THEN enable_q' = enable /\ window_q' = window /\ rst_en_q' = rstEn
       ELSE UNCHANGED <<enable_q, window_q, rst_en_q>>
    /\ lock_q' = (lock_q \/ lock)
    /\ Tick
    /\ TimeoutSticks
    /\ UNCHANGED <<period_q, window_val_q, sts_badsvc_q, keyVars>>

\* A new period restarts the counter.
WritePeriod(value) ==
    /\ IF CfgWr
       THEN period_q' = value /\ count_q' = value /\ quiet' = 0
       ELSE UNCHANGED period_q /\ Tick
    /\ TimeoutSticks
    /\ UNCHANGED <<ctrlVars, window_val_q, sts_badsvc_q, keyVars>>

WriteWindow(value) ==
    /\ window_val_q' = IF CfgWr THEN value ELSE window_val_q
    /\ Tick
    /\ TimeoutSticks
    /\ UNCHANGED <<ctrlVars, period_q, sts_badsvc_q, keyVars>>

Service(key) ==
    /\ IF Reload(key)
       THEN count_q' = period_q
       ELSE count_q' = CountDown
    /\ quiet' = IF SvcGood(key) \/ Timeout THEN 0
                ELSE IF enable_q THEN quiet + 1 ELSE quiet
    /\ key_armed_q' = KeyArmed(key)
    /\ lastKey' = IF SvcGood(key) THEN "none" ELSE key
    /\ TimeoutSticks
    /\ sts_badsvc_q' = (sts_badsvc_q \/ SvcFault(key))
    /\ UNCHANGED cfgVars

\* Write one to clear; the clear wins over a time-out on the same edge.
ClearStatus(timeout, badsvc) ==
    /\ IF timeout THEN sts_timeout_q' = FALSE ELSE TimeoutSticks
    /\ sts_badsvc_q' = (sts_badsvc_q /\ ~badsvc)
    /\ Tick
    /\ UNCHANGED <<cfgVars, keyVars>>

WriteAny ==
    \/ \E e, w, l, r \in BOOLEAN : WriteCtrl(e, w, l, r)
    \/ \E v \in Count : WritePeriod(v)
    \/ \E v \in Count : WriteWindow(v)
    \/ \E key \in Key : Service(key)
    \/ \E t, b \in BOOLEAN : ClearStatus(t, b)

Next == Idle \/ WriteAny

Spec == Init /\ [][Next]_vars

-----------------------------------------------------------------------------

TypeOK ==
    /\ enable_q \in BOOLEAN /\ window_q \in BOOLEAN
    /\ lock_q \in BOOLEAN /\ rst_en_q \in BOOLEAN
    /\ period_q \in Count /\ window_val_q \in Count /\ count_q \in Count
    /\ sts_timeout_q \in BOOLEAN /\ sts_badsvc_q \in BOOLEAN
    /\ key_armed_q \in BOOLEAN
    /\ quiet \in Count
    /\ lastKey \in Key \cup {"none"}

\* An enabled watchdog is never quiet for longer than its period: before
\* the period has passed there is an accepted service or a time-out.
NeverQuietForLong == quiet <= period_q

\* In window mode a KEY_B that follows KEY_A is a service exactly if at most
\* window_val_q edges of the period are left, counted from the last reload, in
\* whatever order services, periods and windows are written.  With exactly
\* window_val_q left it is one (wdog.sv:76), where register_map.md:137 says
\* "accepted only below this count".
WindowKept ==
    [][window_q /\ lastKey = "A" /\ lastKey' \in {"none", "B"}
         => (lastKey' = "none" <=> period_q <= quiet + window_val_q)]_vars

\* The sequence detector is armed exactly while the last write to SERVICE
\* was KEY_A and has not been used: a service takes both keys, in order,
\* with nothing else written between them.
ArmedByKeyA == key_armed_q <=> lastKey = "A"

=============================================================================
