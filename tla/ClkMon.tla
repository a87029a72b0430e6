------------------------------- MODULE ClkMon -------------------------------
(***************************************************************************)
(* The clock monitor, cdriscv_32s_20_clkmon: a heartbeat of the system     *)
(* clock, counted by the reference clock and compared with a window.  A    *)
(* step is an edge of one of the clocks.  They run at a fixed ratio that   *)
(* may change a few times.  COUNT, the measured value on its way back, is  *)
(* left out.                                                               *)
(***************************************************************************)
EXTENDS Sync

CONSTANTS
    HbDiv,          \* system cycles of half a heartbeat
    MaxCount,       \* the reset value of MAX
    Mins, Maxs,     \* what software writes to MIN and MAX
    Rates, Good,    \* ratios <<system edges, then reference edges>>, and those
                    \*   that are not out of every window of Mins and Maxs
    MaxDrifts       \* bound: changes of the ratio

ClkMonAssumption ==
    /\ HbDiv \in Nat \ {0}
    /\ Mins \cup Maxs \subseteq 0..MaxCount
    /\ Rates \subseteq (Nat \ {0}) \X (Nat \ {0}) /\ Good \subseteq Rates
    /\ MaxDrifts \in Nat

VARIABLES
    enable_q, min_q, max_q, sts_range_q, hb_cnt_q, hb_toggle_q,
    clear_toggle, fault_sync, sys_fault_q,                     \* clk
    en_sync, hb_sync, ref_hb_q, ref_cnt_q, ref_fault_q, ref_armed_q,
    ref_min_q, ref_max_q, clear_sync, clear_last,              \* ref_clk
    rate, phase, drifts

cfgVars == <<enable_q, min_q, max_q>>
sysVars == <<cfgVars, sts_range_q, hb_cnt_q, hb_toggle_q, clear_toggle,
             fault_sync, sys_fault_q>>
refVars == <<en_sync, hb_sync, ref_hb_q, ref_cnt_q, ref_fault_q, ref_armed_q,
             ref_min_q, ref_max_q, clear_sync, clear_last>>
vars == <<sysVars, refVars, rate, phase, drifts>>

-----------------------------------------------------------------------------

SysFault == Output(2, fault_sync)       \* fault_o
RefEnable == Output(2, en_sync)
RefHb == Output(2, hb_sync)
RefHbEdge == RefHb # ref_hb_q
RefSaturate == ref_cnt_q >= ref_max_q
RefClear == Toggled(2, clear_sync, clear_last)
OutOfRange == ref_cnt_q < ref_min_q \/ ref_cnt_q > ref_max_q
Measured == RefEnable /\ RefHbEdge
ClockLost == RefEnable /\ ~RefHbEdge /\ RefSaturate

Measures == Measured /\ ref_armed_q

ClearLevel == Output(2, clear_sync)               \* mutant: level of the toggle
ClearNow == RefClear

\* The clear wins over a fault that is found on the same edge.
FaultNext ==
    IF ClearNow THEN FALSE
    ELSE ref_fault_q \/ (Measures /\ OutOfRange) \/ ClockLost

-----------------------------------------------------------------------------

Init ==
    /\ enable_q = FALSE /\ min_q = 0 /\ max_q = MaxCount
    /\ sts_range_q = FALSE
    /\ hb_cnt_q = 0 /\ hb_toggle_q = FALSE
    /\ clear_toggle = FALSE
    /\ fault_sync = Cleared(2) /\ sys_fault_q = FALSE
    /\ en_sync = Cleared(2) /\ hb_sync = Cleared(2)
    /\ ref_hb_q = FALSE /\ ref_cnt_q = 0
    /\ ref_fault_q = FALSE /\ ref_armed_q = FALSE
    /\ ref_min_q = 0 /\ ref_max_q = MaxCount
    /\ clear_sync = Cleared(2) /\ clear_last = FALSE
    /\ rate \in Good
    /\ phase = 0
    /\ drifts = 0

Heartbeat ==
    IF ~enable_q THEN UNCHANGED <<hb_cnt_q, hb_toggle_q>>
    ELSE /\ hb_cnt_q' = (hb_cnt_q + 1) % HbDiv
         /\ hb_toggle_q' = IF hb_cnt_q = HbDiv - 1 THEN ~hb_toggle_q ELSE hb_toggle_q

StatusSet == sts_range_q \/ (SysFault /\ ~sys_fault_q)
KeepStatus == sts_range_q' = StatusSet /\ UNCHANGED clear_toggle

Idle == KeepStatus /\ UNCHANGED cfgVars
WriteCtrl(en) == enable_q' = en /\ KeepStatus /\ UNCHANGED <<min_q, max_q>>
\* The window is quasi-static: written while the monitor is disabled.
WriteMin(v) == ~enable_q /\ min_q' = v /\ KeepStatus /\ UNCHANGED <<enable_q, max_q>>
WriteMax(v) == ~enable_q /\ max_q' = v /\ KeepStatus /\ UNCHANGED <<enable_q, min_q>>
\* Software clears a status it has read as set.
ClearStatus ==
    /\ sts_range_q
    /\ sts_range_q' = FALSE
    /\ clear_toggle' = ~clear_toggle
    /\ UNCHANGED cfgVars

SysDue == phase < rate[1]
SysEdge ==
    /\ SysDue
    /\ Heartbeat
    /\ fault_sync' = ShiftIn(fault_sync, ref_fault_q)
    /\ sys_fault_q' = SysFault
    /\ \/ Idle
       \/ \E en \in BOOLEAN : WriteCtrl(en)
       \/ \E v \in Mins : WriteMin(v)
       \/ \E v \in Maxs : WriteMax(v)
       \/ ClearStatus
    /\ phase' = phase + 1
    /\ UNCHANGED <<refVars, rate, drifts>>

Measure ==
    /\ ref_cnt_q' = IF ~RefEnable \/ RefHbEdge \/ RefSaturate THEN 0 ELSE ref_cnt_q + 1
    /\ ref_armed_q' = (RefEnable /\ (RefHbEdge \/ ref_armed_q))
    /\ IF ~RefEnable \/ RefHbEdge
       THEN ref_min_q' = min_q /\ ref_max_q' = max_q
       ELSE UNCHANGED <<ref_min_q, ref_max_q>>
    /\ ref_fault_q' = FaultNext

RefEdge ==
    /\ ~SysDue
    /\ Measure
    /\ ref_hb_q' = RefHb
    /\ en_sync' = ShiftIn(en_sync, enable_q)
    /\ hb_sync' = ShiftIn(hb_sync, hb_toggle_q)
    /\ clear_sync' = ShiftIn(clear_sync, clear_toggle)
    /\ clear_last' = Output(2, clear_sync)
    /\ phase' = (phase + 1) % (rate[1] + rate[2])
    /\ UNCHANGED <<sysVars, rate, drifts>>

\* One of the clocks changes its frequency.
Drift ==
    /\ drifts < MaxDrifts
    /\ phase = 0
    /\ rate' \in Rates \ {rate}
    /\ drifts' = drifts + 1
    /\ UNCHANGED <<sysVars, refVars, phase>>

Next == SysEdge \/ RefEdge \/ Drift

Spec == Init /\ [][Next]_vars

-----------------------------------------------------------------------------

\* A clock that stays out of the window while the monitor stays enabled is
\* reported again and again: a fault that a clear wipes out on the edge that
\* finds it is found anew.
Watched == enable_q /\ min_q \in Mins /\ max_q \in Maxs
BadClockReported == <>[](Watched /\ rate \notin Good) => []<>SysFault

=============================================================================
