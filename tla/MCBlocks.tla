------------------------------ MODULE MCBlocks ------------------------------
(***************************************************************************)
(* Eight blocks that share no state, each with every environment of its    *)
(* own module.  One of them runs, chosen at the start; the others rest in  *)
(* their reset state.  The constants of the blocks are those of this       *)
(* module; their values in the run, at its end, are                        *)
(*   wdog      two-bit counters, every period and window, zero included    *)
(*   mbist     a march over three words with every fault of the array      *)
(*   irq       two interrupt sources                                       *)
(*   clint     half words of three values, a prescaler of one bit          *)
(*   ams       two channels, two time-outs, one period                     *)
(*   clkmon    the two clocks at one ratio inside and two outside the      *)
(*             window, with one change of the ratio                        *)
(*   lockstep  two edges of delay, a core of three states, one upset       *)
(*   boot      words of two bytes, memories of two words, one retry, and   *)
(*             one glitch more than that                                   *)
(***************************************************************************)
EXTENDS Wdog, Integers, Sequences

\* As in the modules of the blocks.
CONSTANTS
    Depth, AutoStart,
    NumSrc,
    Base, PrescBase, TimeWrites, Order,
    NumCh, Periods, Timeouts,
    HbDiv, MaxCount, Mins, Maxs, Rates, Good, MaxDrifts,
    Delay, State, Reset, Input, ZeroInput, StepTo, Out, ZeroOut, MaxUpsets,
    WordBytes, RetryMax, ItcmBase, ItcmBytes, DtcmBase, DtcmBytes, Arguments,
    Misread, Values, MaxGlitches

VARIABLES
    running,     \* the block that runs
    march_q, elem_q, op_q, addr_q, fail_q, fail_addr_q, start_q,
    abort_q, auto_start_q, mem, rdata, fault, clean,
    irq_enable, mode_q, pending_q, irq_msip, irq_sync, src_sync_q, owed,
    mtime_q, mtimecmp_q, clint_msip, presc_q, presc_cnt_q, todo, deadline, former,
    state_q, period_cnt_q, to_cnt_q, ch_q, seq_en_q, cont_q, irq_en_q,
    ams_period, chmask_q, timeout_q, sts_done_q, ams_timeout, ams_range,
    adc, abandoned, exceeded,
    mon_enable, min_q, max_q, mon_range, hb_cnt_q, hb_toggle_q, clear_toggle,
    fault_sync, sys_fault_q, en_sync, hb_sync, ref_hb_q, ref_cnt_q, ref_fault_q,
    ref_armed_q, ref_min_q, ref_max_q, clear_sync, clear_last, rate, phase, drifts,
    rst_ni, main, checker, in_vec, in_pipe_q, out_pipe_q, rst_pipe_q, inj_en,
    upsets, struck, ideal,
    args, boot_state, gap, hdr_q, bytes_left_q, read, crc_q, word_q, cur_addr_q,
    seg_left_q, in_seg1_q, wr_pending_q, wr_gntd_q, wr_addr_q, wr_data_q,
    retries_q, boot_done_q, boot_fault_q, bist, tcm, glitches

marchState == <<march_q, elem_q, op_q, addr_q, fail_q, fail_addr_q, start_q,
                abort_q, auto_start_q, mem, rdata, fault, clean>>
irqState == <<irq_enable, mode_q, pending_q, irq_msip, irq_sync, src_sync_q, owed>>
clintState == <<mtime_q, mtimecmp_q, clint_msip, presc_q, presc_cnt_q, todo,
                deadline, former>>
amsState == <<state_q, period_cnt_q, to_cnt_q, ch_q, seq_en_q, cont_q, irq_en_q,
              ams_period, chmask_q, timeout_q, sts_done_q, ams_timeout, ams_range,
              adc, abandoned, exceeded>>
monState == <<mon_enable, min_q, max_q, mon_range, hb_cnt_q, hb_toggle_q,
              clear_toggle, fault_sync, sys_fault_q, en_sync, hb_sync, ref_hb_q,
              ref_cnt_q, ref_fault_q, ref_armed_q, ref_min_q, ref_max_q,
              clear_sync, clear_last, rate, phase, drifts>>
lockState == <<rst_ni, main, checker, in_vec, in_pipe_q, out_pipe_q, rst_pipe_q,
               inj_en, upsets, struck, ideal>>
bootState == <<args, boot_state, gap, hdr_q, bytes_left_q, read, crc_q, word_q,
               cur_addr_q, seg_left_q, in_seg1_q, wr_pending_q, wr_gntd_q, wr_addr_q,
               wr_data_q, retries_q, boot_done_q, boot_fault_q, bist, tcm, glitches>>

March == INSTANCE Mbist WITH state_q <- march_q
Irqs == INSTANCE IrqCtrl WITH
    enable_q <- irq_enable, msip_q <- irq_msip, sync <- irq_sync
Timer == INSTANCE Clint WITH msip_q <- clint_msip
Ams == INSTANCE AmsIf WITH
    period_q <- ams_period, sts_timeout_q <- ams_timeout, sts_range_q <- ams_range
Monitor == INSTANCE ClkMon WITH enable_q <- mon_enable, sts_range_q <- mon_range
Cores == INSTANCE Lockstep
Boot == INSTANCE BootLoader WITH state_q <- boot_state

ASSUME BlockConstants ==
    /\ March!MbistAssumption /\ Irqs!IrqAssumption /\ Timer!ClintAssumption
    /\ Ams!AmsAssumption /\ Monitor!ClkMonAssumption /\ Cores!LockstepAssumption
    /\ Boot!BootAssumption

-----------------------------------------------------------------------------

\* A block that rests does so in one of its initial states.
McInit ==
    /\ running \in {"wdog", "mbist", "irq", "clint", "ams", "clkmon", "lockstep",
                  "boot"}
    /\ Init
    /\ March!Init
    /\ running # "mbist" => fault.kind = "none" /\ mem = [a \in March!Addr |-> 0]
    /\ Irqs!Init
    /\ Timer!Init
    /\ Ams!Init
    /\ running # "ams" => timeout_q = CHOOSE t \in Timeouts : TRUE
    /\ Monitor!Init
    /\ Cores!Init
    /\ running # "lockstep" => in_vec = ZeroInput
    /\ Boot!Init
    /\ running # "boot" => bist = "idle" /\ args = CHOOSE a \in Arguments : Boot!Packs(a)

Others(block) ==
    /\ UNCHANGED running
    /\ block = "wdog" \/ UNCHANGED vars
    /\ block = "mbist" \/ UNCHANGED marchState
    /\ block = "irq" \/ UNCHANGED irqState
    /\ block = "clint" \/ UNCHANGED clintState
    /\ block = "ams" \/ UNCHANGED amsState
    /\ block = "clkmon" \/ UNCHANGED monState
    /\ block = "lockstep" \/ UNCHANGED lockState
    /\ block = "boot" \/ UNCHANGED bootState
Runs(block) == running = block /\ Others(block)

McNext ==
    \/ Runs("wdog") /\ Next
    \/ Runs("mbist") /\ March!Next
    \/ Runs("irq") /\ Irqs!Next
    \/ Runs("clint") /\ Timer!Next
    \/ Runs("ams") /\ Ams!Next
    \/ Runs("clkmon") /\ Monitor!Next
    \/ Runs("lockstep") /\ Cores!Next
    \/ Runs("boot") /\ Boot!Next

\* The clocks run, and the boot loader is fair as in its module.
McSpec ==
    /\ McInit
    /\ [][McNext]_<<running, vars, marchState, irqState, clintState, amsState,
                    monState, lockState, bootState>>
    /\ WF_clintState(Runs("clint") /\ Timer!Next)
    /\ WF_monState(Runs("clkmon") /\ (Monitor!SysEdge \/ Monitor!RefEdge))
    /\ WF_bootState(Runs("boot") /\ Boot!LoaderSteps)
    /\ WF_bootState(Runs("boot") /\ Boot!BusSteps)
    /\ WF_bootState(Runs("boot") /\ Boot!BistEnds)

-----------------------------------------------------------------------------
\* The properties of the blocks, each about the block that runs.

\* A march that nothing cut short reports the memory bad exactly if it is.
VerdictRight == March!VerdictRight

\* An edge stays pending until it is cleared, whatever races the clear.
EdgeKept == Irqs!EdgeKept

\* Moving the deadline in three writes raises no interrupt in between.
NoSpuriousTimer == Timer!NoSpuriousTimer

\* Time goes on unless software keeps writing the prescaler.
TimeMoves == running = "clint" => Timer!TimeMoves

\* A result goes to the channel it was converted for, unless a conversion was
\* abandoned.
ResultOwn == Ams!ResultOwn

\* A clock that stays bad is reported again and again.
BadClockReported == running = "clkmon" => Monitor!BadClockReported

\* The comparator reports exactly the outputs that are wrong.
MismatchExact == Cores!MismatchExact

\* The core is released on the payload of the flash, nothing was written
\* elsewhere, and the loader gave up only for cause.
DeliversPayload == Boot!DeliversPayload /\ Boot!NeverWild /\ Boot!GivesUpForCause

\* The core is never released on an image that lies elsewhere than it says.
CorruptHeaderFails == Boot!CorruptHeaderFails

\* The loader ends.
BootEnds == running = "boot" => Boot!BootEnds

-----------------------------------------------------------------------------
(* The values of the run. *)

McRates == {<<1, 1>>, <<2, 1>>, <<1, 2>>}
McGood == {<<1, 1>>}

McStep == [p \in (0..2) \X {0, 1} |-> (p[1] + 1 + p[2]) % 3]
McOut == [p \in (0..2) \X {0, 1} |-> (p[1] \div 2) * 2 + p[2]]

McSeg(dest, data) == [dest |-> dest, data |-> data]
McArgs(segs, quad, pad0) == [segs |-> segs, quad |-> quad, pad0 |-> pad0]
McArguments ==
    {McArgs(<<McSeg(0, <<1>>)>>, FALSE, 1),
     McArgs(<<McSeg(2, <<1, 0>>)>>, TRUE, 0),
     McArgs(<<McSeg(0, <<1, 0, 1>>), McSeg(8, <<1>>)>>, FALSE, 0),
     McArgs(<<McSeg(8, <<0, 1>>), McSeg(2, <<1, 1>>)>>, TRUE, 0),
     McArgs(<<McSeg(0, <<1, 1>>), McSeg(10, <<1, 0, 0, 1>>)>>, FALSE, 0),
     McArgs(<<McSeg(4, <<1>>)>>, FALSE, 0), McArgs(<<McSeg(1, <<1>>)>>, FALSE, 0),
     McArgs(<<McSeg(0, <<>>)>>, FALSE, 1), McArgs(<<McSeg(0, <<>>)>>, FALSE, 0)}
=============================================================================
