------------------------------ MODULE Backends ------------------------------
(***************************************************************************)
(* The two execution backends of a paper session (live/execution.py) fed   *)
(* the same ticks and the same wishes of the strategy: the paper engine,   *)
(* and the dry-run live path, which puts the pre-trade risk check and an   *)
(* order intent in front of the same engine.                               *)
(*                                                                         *)
(* Each backend runs its own session (run_paper_session_tracked), which    *)
(* ends when that backend is killed.  A strategy sees the position and the *)
(* cash of its session, so that the wishes are the same only as long as    *)
(* the two states are; after that at most one of the sessions still runs,  *)
(* and what the other would have wished does not matter.                   *)
(***************************************************************************)
EXTENDS PaperEngine

CONSTANTS
  Targets,      \* what desired_shares may return
  MaxTicks      \* max_ticks of the session

ASSUME BackendAssumption == Targets \subseteq Int /\ MaxTicks \in Nat
ASSUME BackendSaleAssumption == SalesPay

VARIABLES
  paper,        \* the PaperState of the session on PaperExecutionBackend
  raised,       \* that session ended in the ValueError of _clamp_want
  dry,          \* the PaperState of the session on DryRunLiveBackend
  logged,       \* DryRunBroker.order_log: shares it says bought less sold
  ticks, mark   \* ticks handed out, and the price of the last one

vars == <<paper, raised, dry, logged, ticks, mark>>

Init ==
  /\ paper = StartState /\ raised = FALSE
  /\ dry = StartState /\ logged = 0
  /\ ticks = 0
  /\ mark = CHOOSE p \in Prices : TRUE

-----------------------------------------------------------------------------
\* Fault: the position is not part of the equity the check is given.
VerdictCashOnly(s, want, p) ==
  CheckPretrade(want, s.shares, s.cash, p, s.cash, Larger(s.peak, s.cash))

Verdict(s, want, p) ==
  LET equity == EquityAt(s.cash, s.shares, p)
  IN  CheckPretrade(want, s.shares, s.cash, p, equity, Larger(s.peak, equity))

\* Fault: a hard refusal only sets the kill.
HardKillKeeps(s, p) == [s EXCEPT !.killed = "risk"]

\* A hard refusal: one more tick of the engine with the position as target,
\* then the kill, whatever that tick did.
HardKill(s, p) == [ApplyTick(s, s.shares, p) EXCEPT !.killed = "risk"]

DryTick(s, want, p) ==
  LET target == Verdict(s, want, p).target
  IN  IF target = None THEN HardKill(s, p) ELSE ApplyTick(s, target, p)

\* Fault: the intent is for the wish and not for the clamped target.
LoggedWish(s, want, p) ==
  IF Verdict(s, want, p).target = None THEN 0 ELSE want - s.shares

\* DryRunBroker.submit fills every order in its log, whatever the engine does.
LoggedBy(s, want, p) ==
  LET target == Verdict(s, want, p).target
  IN  IF target = None THEN 0 ELSE target - s.shares

PaperRuns == ~ raised /\ paper.killed = "no"
DryRuns   == dry.killed = "no"

\* Fault: a negative target is not refused.
PaperStepShorts(want, p) ==
  /\ paper' = IF PaperRuns THEN ApplyTick(paper, want, p) ELSE paper
  /\ UNCHANGED raised

PaperStep(want, p) ==
  IF PaperRuns
    THEN IF want < 0 THEN raised' = TRUE /\ UNCHANGED paper
                     ELSE paper' = ApplyTick(paper, want, p) /\ UNCHANGED raised
    ELSE UNCHANGED <<paper, raised>>

DryStep(want, p) ==
  IF DryRuns
    THEN /\ dry' = DryTick(dry, want, p)
         /\ logged' = logged + LoggedBy(dry, want, p)
    ELSE UNCHANGED <<dry, logged>>

Tick(want, p) ==
  /\ ticks < MaxTicks /\ (PaperRuns \/ DryRuns)
  /\ PaperStep(want, p)
  /\ DryStep(want, p)
  /\ ticks' = ticks + 1
  /\ mark' = p

Ended ==
  /\ ticks = MaxTicks \/ ~ (PaperRuns \/ DryRuns)
  /\ UNCHANGED vars

Next == Ended \/ \E want \in Targets, p \in Prices : Tick(want, p)

Spec == Init /\ [][Next]_vars

-----------------------------------------------------------------------------
TypeOK ==
  /\ paper \in PaperState /\ dry \in PaperState
  /\ raised \in BOOLEAN
  /\ logged \in Int
  /\ ticks \in Nat /\ mark \in Prices

\* As long as the paper session is not killed, its rehearsal is not either, and
\* is in the same state to the cent, clamps and fees included: the pre-trade
\* check of the dry-run path stops no session that the engine lets go on.
Lockstep == PaperRuns => DryRuns /\ paper = dry

Within(s) ==
  /\ s.cash >= 0
  /\ MaxPosition # None => s.shares <= MaxPosition
  /\ MaxNotional # None => s.shares * mark <= MaxNotional
  /\ ~ LossBreached(s.peak, EquityAt(s.cash, s.shares, mark))

\* A tick that kills neither session leaves both within all limits, at that
\* tick's mark and after the costs of its own fill.
RunningWithinLimits ==
  (PaperRuns => Within(paper)) /\ (DryRuns => Within(dry))

\* With flatten_on_kill, a paper session that was killed holds nothing.
PaperKilledFlat == FlattenOnKill /\ paper.killed # "no" => paper.shares = 0

\* A hard refusal for a drawdown is to "hold position for this tick, then
\* freeze".  The tick of the engine it is given may clamp the position once more;
\* it does not, because a drawdown comes with a mark at which the limits that
\* held before still do.  With flatten_on_kill that tick sells all of it: the
\* engine sees the drawdown the check saw, also after its own fills.  A refusal of
\* a negative wish is no such kill, but the costs of its clamp may look like one.
HardKillHolds ==
  /\ FlattenOnKill \/ Targets \subseteq Nat
  /\ dry.killed = "risk"
  /\ LossBreached(dry.peak, EquityAt(dry.cash, dry.shares, mark))
  => dry.shares = IF FlattenOnKill THEN 0 ELSE logged

\* Until the session is killed, the order log accounts for the position.
LogExplainsWhileRunning == DryRuns => logged = dry.shares
=============================================================================
