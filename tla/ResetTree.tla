----------------------------- MODULE ResetTree ------------------------------
(***************************************************************************)
(* Reset generation of cdriscv_32s_20_subsys: the external reset through a *)
(* reset synchroniser, the warm reset counter, and the reset of the core   *)
(* through a second one.  A reset synchroniser asserts at once and         *)
(* releases after Stages edges of clk.                                     *)
(***************************************************************************)
EXTENDS Sync

CONSTANTS
    Stages,      \* flip-flops of a reset synchroniser
    WarmRstLen   \* cycles of the warm reset

ASSUME ResetAssumption ==
    /\ Stages \in Nat \ {0}
    /\ WarmRstLen \in Nat \ {0}

VARIABLES
    rst_ni,          \* the external reset, active low
    rst_sync,        \* u_rst_sync
    warm_cnt_q,
    core_sync,       \* u_core_rst_sync
    sincePower,      \* history: edges since rst_ni was released
    sinceReq         \* history: edges since the last request of a reset,
                     \* both counted up to where they stop to matter

resetVars == <<rst_ni, rst_sync, warm_cnt_q, core_sync, sincePower, sinceReq>>

RstN == Output(Stages, rst_sync)
WarmRstN == RstN /\ warm_cnt_q = 0
CoreRstN == Output(Stages, core_sync)

Limit == WarmRstLen + 2 * Stages
UpTo(limit, n) == IF n < limit THEN n + 1 ELSE limit

ResetInit ==
    /\ rst_ni = FALSE
    /\ rst_sync = Cleared(Stages)
    /\ warm_cnt_q = 0
    /\ core_sync = Cleared(Stages)
    /\ sincePower = 0
    /\ sinceReq = Limit

WarmRestart(req) ==                               \* mutant: not reloaded
    IF warm_cnt_q # 0 THEN warm_cnt_q - 1
    ELSE IF req THEN WarmRstLen ELSE 0
WarmNext(req) ==
    IF req THEN WarmRstLen
    ELSE IF warm_cnt_q # 0 THEN warm_cnt_q - 1 ELSE 0

\* The core's synchroniser is cleared for as long as its input is low, the
\* instant after the edge included.
SyncNext(held) == IF held THEN Cleared(Stages) ELSE ShiftIn(core_sync, TRUE)

ClkEdge(req) ==
    /\ rst_sync' = IF rst_ni THEN ShiftIn(rst_sync, TRUE) ELSE Cleared(Stages)
    /\ warm_cnt_q' = IF RstN THEN WarmNext(req) ELSE 0
    /\ core_sync' = SyncNext(~(WarmRstN /\ warm_cnt_q' = 0))
    /\ sincePower' = IF rst_ni THEN UpTo(Limit, sincePower) ELSE 0
    /\ sinceReq' = IF RstN /\ req THEN 0 ELSE UpTo(Limit, sinceReq)
    /\ UNCHANGED rst_ni

\* rst_ni is asserted at any time and takes everything with it.
PowerReset ==
    /\ rst_ni
    /\ rst_ni' = FALSE
    /\ rst_sync' = Cleared(Stages)
    /\ warm_cnt_q' = 0
    /\ core_sync' = Cleared(Stages)
    /\ sincePower' = 0
    /\ sinceReq' = Limit

PowerRelease ==
    /\ ~rst_ni
    /\ rst_ni' = TRUE
    /\ UNCHANGED <<rst_sync, warm_cnt_q, core_sync, sincePower, sinceReq>>

ResetNext ==
    \/ \E req \in BOOLEAN : ClkEdge(req)
    \/ PowerReset
    \/ PowerRelease

ResetSpec == ResetInit /\ [][ResetNext]_resetVars

-----------------------------------------------------------------------------

ResetTypeOK ==
    /\ rst_ni \in BOOLEAN
    /\ rst_sync \in Chain(Stages)
    /\ warm_cnt_q \in 0..WarmRstLen
    /\ core_sync \in Chain(Stages)
    /\ sincePower \in 0..Limit
    /\ sinceReq \in 0..Limit

\* The core is out of reset exactly when both resets are long enough ago:
\* each request holds it for WarmRstLen + Stages edges however the requests
\* overlap, and a release of the external reset for twice the stages.
HeldExactly ==
    CoreRstN <=> /\ sincePower >= 2 * Stages
                 /\ sinceReq >= WarmRstLen + Stages

=============================================================================
