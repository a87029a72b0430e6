------------------------------ MODULE MCSafety ------------------------------
(***************************************************************************)
(* The safety controller alone, against every order of faults, writes and  *)
(* one upset, or the reaction loop of the subsystem, in which it runs      *)
(* behind the watchdog, the reset tree and the core that writes to both.   *)
(* One of the two runs, chosen at the start; they share the registers of   *)
(* the controller.  Masks of nothing and of everything, the pin in one     *)
(* mode, one divider or two; two-stage synchronisers, a warm reset of two  *)
(* cycles, and periods just long enough for the core to restart in them.   *)
(***************************************************************************)
EXTENDS SafetyCtrl, ResetTree, TLC

CONSTANTS
    wd, f,       \* the watchdog's fault and another one
    Max, Periods

VARIABLES
    wd_enable, wd_window, wd_lock, wd_rst_en, wd_period, wd_window_val,
    wd_count, wd_timeout, wd_badsvc, wd_key_armed, quiet, lastKey,
    apb,
    running      \* "ctrl" or "system"

loopState == <<resetVars, wd_enable, wd_window, wd_lock, wd_rst_en, wd_period,
               wd_window_val, wd_count, wd_timeout, wd_badsvc, wd_key_armed,
               quiet, lastKey, apb>>

McMasks == [reg \in MaskReg \cup {"INJECT"} |->
                IF reg \in {"REACT_IRQ", "REACT_PIN"} THEN {Fault} ELSE {{}, Fault}]
McLevelPin == [en : BOOLEAN, inv : {FALSE}, tog : {FALSE}]
McParity == 0 :> 0 @@ 1 :> 1

System == INSTANCE SafetySystem WITH
    Faults <- {CfgFault, wd, f}, WdogFault <- wd,
    Clears <- {{wd, f}, {wd}}, RstMasks <- {{}, {wd, f}, {f}}

ASSUME SystemConstants == System!SystemAssumption

\* The part that does not run rests in its reset state.
McInit ==
    /\ System!Wd!Init /\ ResetInit /\ apb = "IDLE"
    /\ \/ running = "ctrl" /\ Init
       \/ running = "system" /\ System!Sfty!Init

OnCtrl == running = "ctrl" /\ UNCHANGED <<loopState, running>>
OnSystem == running = "system" /\ UNCHANGED running
McNext == (OnCtrl /\ Next) \/ (OnSystem /\ System!Next)

\* The clock runs: it is always enabled and never stops.  (A step that is
\* neither an upset nor the release of the external reset is an edge of it.)
McSpec ==
    /\ McInit /\ [][McNext]_<<vars, loopState, running>>
    /\ []<><<upsets' = upsets /\ rst_ni' = rst_ni>>_<<vars, loopState>>

\* A healthy subsystem in toggle mode keeps its error pin moving.
PinKeepsMoving == (running = "ctrl") => PinAlive

\* Whatever faults arrive and whatever is configured, the core runs again.
CoreRunsAgain == (running = "system") => System!CoreRunsAgain

\* When the core comes out of a requested reset, a status flag says why.
CauseVisible == System!CauseVisible
=============================================================================
