--------------------------- MODULE EquityRuntime ----------------------------
(***************************************************************************)
(* LiveEquityRuntime.on_tick (live/runtime.py): one tick of the live       *)
(* equities loop, feed -> risk -> order -> broker -> reconcile -> flatten. *)
(*                                                                         *)
(* on_tick is synchronous, and it calls the broker up to three times:      *)
(* submit for the rebalance, snapshot for the reconcile, submit for the    *)
(* flatten order.  A tick is cut at those calls and nowhere else that a    *)
(* broker could tell: pc says which part of on_tick comes next, and "idle" *)
(* is between two ticks, "raised" after a call that left on_tick with an   *)
(* exception and ended the session.  The broker is another module, which   *)
(* composes with the actions that take an acknowledgement or a snapshot.   *)
(***************************************************************************)
EXTENDS Risk, Orders, Account, Sequences

CONSTANTS
  InitialCash,
  Targets,          \* what a strategy's desired_shares may return
  MaxTicks,         \* --max-ticks
  RthOnly,          \* --rth-only: the clock refuses ticks outside the session
  FlattenOnKill,    \* --flatten-on-kill
  ReconcileEvery,   \* --reconcile-every, 0 = never
  KillOnMismatch,   \* kill_on_reconcile_fail
  EnforceBudgets,   \* --enforce-latency-budgets: decision and tick-to-order
  EnforceFeedLag    \* the feed-lag budget given to the runtime has a hard limit

ASSUME RuntimeAssumption ==
  /\ InitialCash \in Nat
  /\ Targets \subseteq Int
  /\ MaxTicks \in Nat
  /\ ReconcileEvery \in Nat
  /\ {RthOnly, FlattenOnKill, KillOnMismatch, EnforceBudgets, EnforceFeedLag}
       \subseteq BOOLEAN

VARIABLES
  account,    \* state.account: what the program believes it holds
  paper,      \* state.paper: the mirror the run bundle is written from
  book,       \* state.order_book, in the order of _order_seq
  killed,     \* state.killed with the reason it was last given, or "no"
  ticks,      \* state.tick_count
  failures,   \* state.reconcile_failures
  tick,       \* the tick being handled, or the last one
  pc          \* the part of on_tick that comes next

runtimeVars == <<account, paper, book, killed, ticks, failures, tick, pc>>

KillReasons ==
  {"feed lag", "decision latency", "risk", "fill refused", "order refused",
   "order latency", "drawdown", "reconcile"}

InitRuntime ==
  /\ account = [cash |-> InitialCash, shares |-> 0, peak |-> InitialCash]
  /\ paper = [cash |-> InitialCash, shares |-> 0, peak |-> InitialCash,
              killed |-> FALSE, filled |-> 0]
  /\ book = << >>
  /\ killed = "no"
  /\ ticks = 0
  /\ failures = 0
  /\ tick = [price |-> CHOOSE p \in Prices : TRUE, rth |-> FALSE]
  /\ pc = "idle"

\* Fault: the loop goes on after a kill.
ReadyWhenKilled == pc = "idle" /\ ticks < MaxTicks

\* run_live_equities_session hands over the next tick.
Ready == pc = "idle" /\ killed = "no" /\ ticks < MaxTicks

-----------------------------------------------------------------------------
(* The part of on_tick before any order.                                   *)

\* Outside the session: the account is marked, nothing is traded.
OffHours(p) ==
  /\ Ready /\ RthOnly
  /\ account' = MarkEquity(account, p)
  /\ ticks' = ticks + 1
  /\ tick' = [price |-> p, rth |-> FALSE]
  /\ UNCHANGED <<paper, book, killed, failures, pc>>

FeedLagKill ==
  /\ Ready /\ EnforceFeedLag
  /\ killed' = "feed lag"
  /\ UNCHANGED <<account, paper, book, ticks, failures, tick, pc>>

\* From here on the account is marked at the new price before anything else.
Marked(p) == MarkEquity(account, p)

Verdict(p, want) ==
  CheckPretrade(want, account.shares, account.cash, p,
                EquityAt(account.cash, account.shares, p), Marked(p).peak)

Consider(p) ==
  /\ Ready
  /\ account' = Marked(p)
  /\ tick' = [price |-> p, rth |-> TRUE]

\* The three early returns and the normal path share Consider.  The decision
\* budget is looked at before the verdict.
DecisionKill(p) ==
  /\ EnforceBudgets
  /\ Consider(p)
  /\ killed' = "decision latency"
  /\ UNCHANGED <<paper, book, ticks, failures, pc>>

RiskKill(p, want) ==
  /\ Verdict(p, want).target = None
  /\ Consider(p)
  /\ killed' = "risk"
  /\ ticks' = ticks + 1
  /\ UNCHANGED <<paper, book, failures, pc>>

Hold(p, want) ==
  /\ Verdict(p, want).target = account.shares
  /\ Consider(p)
  /\ pc' = "close"
  /\ UNCHANGED <<paper, book, killed, ticks, failures>>

\* A target other than the position is registered as an order for the broker.
PlaceOrder(p, want) ==
  LET target == Verdict(p, want).target
      order  == IF target > account.shares
                  THEN NewOrder("BUY", target - account.shares)
                  ELSE NewOrder("SELL", account.shares - target)
  IN  /\ target \notin {None, account.shares}
      /\ Consider(p)
      /\ book' = Append(book, order)
      /\ pc' = "submit"
      /\ UNCHANGED <<paper, killed, ticks, failures>>

-----------------------------------------------------------------------------
(* The broker calls and what follows each of them.                         *)

Pending == book[Len(book)]

\* The broker answered the rebalance order, perhaps too slowly.  A fill is
\* applied to the account; one the account refuses is a kill, and so is a
\* refusal for insufficient cash or shares.  The latency reason comes last.
Settle(ack, slow) ==
  LET applies == /\ ack.status = "FILLED"
                 /\ CanApplyFill(account, Pending.side, ack.filled, ack.price,
                                 ack.fee)
  IN  /\ pc = "submit"
      /\ slow => EnforceBudgets
      /\ book' = [book EXCEPT ![Len(book)] = ApplyResult(@, ack)]
      /\ account' = IF applies THEN ApplyFill(account, Pending.side, ack.filled,
                                              ack.price, ack.fee)
                               ELSE account
      /\ paper' = IF applies
                    THEN [paper EXCEPT !.filled =
                            @ + Signed(Pending.side, ack.filled)]
                    ELSE paper
      /\ killed' = CASE slow -> "order latency"
                     [] ~ slow /\ ack.status = "FILLED" /\ ~ applies ->
                          "fill refused"
                     [] ~ slow /\ ack.status \in {"REJECTED", "CANCELED"}
                               /\ ack.reason = "insufficient" ->
                          "order refused"
                     [] OTHER -> killed
      /\ pc' = "close"
      /\ UNCHANGED <<ticks, failures, tick>>

\* Fault: only the drawdown kill flattens.
AfterCloseDrawdown(reason) ==
  IF reason = "drawdown" /\ FlattenOnKill /\ account.shares > 0
    THEN "flatten" ELSE "idle"

AfterClose(reason) ==
  IF reason # "no" /\ FlattenOnKill /\ account.shares > 0
    THEN "flatten" ELSE "idle"

\* Sync the mirror, mark again, stop on the drawdown, count the tick.
CloseTick ==
  LET marked == MarkEquity(account, tick.price)
      equity == EquityAt(account.cash, account.shares, tick.price)
      reason == IF LossBreached(marked.peak, equity) THEN "drawdown" ELSE killed
  IN  /\ pc = "close"
      /\ account' = marked
      /\ killed' = reason
      /\ paper' = [paper EXCEPT !.cash = account.cash,
                                !.shares = account.shares,
                                !.peak = account.peak,
                                !.killed = (reason # "no")]
      /\ ticks' = ticks + 1
      /\ pc' = IF ReconcileEvery > 0 /\ (ticks + 1) % ReconcileEvery = 0
                 THEN "reconcile" ELSE AfterClose(reason)
      /\ UNCHANGED <<book, failures, tick>>

\* Fault: the first mismatch is only counted.
ReconcileLenient(snap) ==
  LET ok     == Reconciles(account, snap)
      reason == IF ~ ok /\ failures > 0 /\ KillOnMismatch THEN "reconcile"
                                                         ELSE killed
  IN  /\ pc = "reconcile"
      /\ failures' = IF ok THEN failures ELSE failures + 1
      /\ killed' = reason
      /\ pc' = AfterClose(reason)
      /\ UNCHANGED <<account, paper, book, ticks, tick>>

Reconcile(snap) ==
  LET ok     == Reconciles(account, snap)
      reason == IF ~ ok /\ KillOnMismatch THEN "reconcile" ELSE killed
  IN  /\ pc = "reconcile"
      /\ failures' = IF ok THEN failures ELSE failures + 1
      /\ killed' = reason
      /\ paper' = [paper EXCEPT !.killed = IF ~ ok /\ KillOnMismatch THEN TRUE
                                                                     ELSE @]
      /\ pc' = AfterClose(reason)
      /\ UNCHANGED <<account, book, ticks, tick>>

FlattenOrder == NewOrder("SELL", account.shares)

\* Fault: the mirror is not told about the flatten fill.
FlattenUnmirrored(ack) ==
  /\ pc = "flatten"
  /\ book' = Append(book, ApplyResult(FlattenOrder, ack))
  /\ account' = IF ack.status = "FILLED"
                  THEN ApplyFill(account, "SELL", ack.filled, ack.price, ack.fee)
                  ELSE account
  /\ pc' = "idle"
  /\ UNCHANGED <<paper, killed, ticks, failures, tick>>

\* Sell what the account holds; a fill the account refuses is ignored.
Flatten(ack) ==
  LET applies == /\ ack.status = "FILLED"
                 /\ CanApplyFill(account, "SELL", ack.filled, ack.price, ack.fee)
      after   == IF applies
                   THEN ApplyFill(account, "SELL", ack.filled, ack.price,
                                  ack.fee)
                   ELSE account
  IN  /\ pc = "flatten"
      /\ book' = Append(book, ApplyResult(FlattenOrder, ack))
      /\ account' = after
      /\ paper' = [paper EXCEPT !.cash = after.cash, !.shares = after.shares]
      /\ pc' = "idle"
      /\ UNCHANGED <<killed, ticks, failures, tick>>

-----------------------------------------------------------------------------
\* The steps that involve no broker.
LocalStep ==
  \/ FeedLagKill
  \/ CloseTick
  \/ \E p \in Prices :
       \/ OffHours(p)
       \/ DecisionKill(p)
       \/ \E want \in Targets :
            RiskKill(p, want) \/ Hold(p, want) \/ PlaceOrder(p, want)

\* The session loop ends on a kill or when the ticks it was given are used up.
SessionOver == pc = "idle" /\ (killed # "no" \/ ticks = MaxTicks)

RuntimeTypeOK ==
  /\ account \in [cash : Int, shares : Nat, peak : Int]
  /\ paper \in [cash : Int, shares : Nat, peak : Int, killed : BOOLEAN,
                filled : Int]
  /\ book \in Seq(Order)
  /\ killed \in KillReasons \cup {"no"}
  /\ ticks \in Nat
  /\ failures \in Nat
  /\ tick \in [price : Prices, rth : BOOLEAN]
  /\ pc \in {"idle", "submit", "close", "reconcile", "flatten", "raised"}
=============================================================================
