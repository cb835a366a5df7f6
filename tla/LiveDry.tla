------------------------------ MODULE LiveDry -------------------------------
(***************************************************************************)
(* The live equities loop over DryRunEquityBroker (live/equity_broker.py), *)
(* the default broker: it fills every order it can pay for, at once and in *)
(* full, out of its own cash and positions.  Broker and account are two    *)
(* books kept by different code; the point of this module is that they     *)
(* never disagree, and that the limits of the run hold on both.            *)
(***************************************************************************)
EXTENDS EquityRuntime

\* A sale brings in more than its fees.
ASSUME SaleAssumption == SalesPay

VARIABLE broker      \* the broker's own [cash, shares]

vars == <<account, paper, book, killed, ticks, failures, tick, pc, broker>>

Init ==
  /\ InitRuntime
  /\ broker = [cash |-> InitialCash, shares |-> 0]

-----------------------------------------------------------------------------
\* Fault: the fee is not part of what a purchase needs.
AcceptsGross(side, qty, p) ==
  IF side = "BUY" THEN qty * ExecPrice("BUY", p) <= broker.cash
                  ELSE qty <= broker.shares

\* What submit checks before it fills an order.
Accepts(side, qty, p) ==
  IF side = "BUY"
    THEN qty * ExecPrice("BUY", p) + FeeFor(qty) <= broker.cash
    ELSE qty <= broker.shares

\* The acknowledgement submit returns.
DryAck(side, qty, p) ==
  IF qty > 0 /\ Accepts(side, qty, p)
    THEN [status |-> "FILLED", filled |-> qty, price |-> ExecPrice(side, p),
          fee |-> FeeFor(qty), reason |-> "none"]
    ELSE [status |-> "REJECTED", filled |-> 0, price |-> 0, fee |-> 0,
          reason |-> IF qty > 0 THEN "insufficient" ELSE "other"]

\* Faults: the broker charges no fee; the broker trades at the bare mark.
DryBookNoFee(side, qty, p) ==
  IF ~ (qty > 0 /\ Accepts(side, qty, p)) THEN broker
  ELSE IF side = "BUY"
    THEN [cash   |-> broker.cash - qty * ExecPrice("BUY", p),
          shares |-> broker.shares + qty]
    ELSE [cash   |-> broker.cash + qty * ExecPrice("SELL", p),
          shares |-> broker.shares - qty]
DryBookAtMark(side, qty, p) ==
  IF ~ (qty > 0 /\ Accepts(side, qty, p)) THEN broker
  ELSE [cash   |-> broker.cash - Signed(side, qty) * p * Scale - FeeFor(qty),
        shares |-> broker.shares + Signed(side, qty)]

\* What submit does to the broker's own book.
DryBook(side, qty, p) ==
  IF ~ (qty > 0 /\ Accepts(side, qty, p)) THEN broker
  ELSE IF side = "BUY"
    THEN [cash   |-> broker.cash - (qty * ExecPrice("BUY", p) + FeeFor(qty)),
          shares |-> broker.shares + qty]
    ELSE [cash   |-> broker.cash + (qty * ExecPrice("SELL", p) - FeeFor(qty)),
          shares |-> broker.shares - qty]

Submit ==
  LET ack == DryAck(Pending.side, Pending.qty, tick.price)
  IN  /\ \E slow \in BOOLEAN : Settle(ack, slow)
      /\ broker' = DryBook(Pending.side, Pending.qty, tick.price)

CheckBooks == Reconcile(broker) /\ UNCHANGED broker

SubmitFlatten ==
  /\ Flatten(DryAck("SELL", account.shares, tick.price))
  /\ broker' = DryBook("SELL", account.shares, tick.price)

RunLocal == LocalStep /\ UNCHANGED broker

Ended == SessionOver /\ UNCHANGED vars

Next == RunLocal \/ Submit \/ CheckBooks \/ SubmitFlatten \/ Ended

Spec == Init /\ [][Next]_vars

-----------------------------------------------------------------------------
TypeOK ==
  /\ RuntimeTypeOK
  /\ broker \in [cash : Int, shares : Nat]

\* The account that on_tick updates from acknowledgements and the broker's own
\* book are equal at every broker call and between ticks, whatever mix of
\* fills, refusals, latency kills and flatten orders came before.
BooksAgree ==
  account.cash = broker.cash /\ account.shares = broker.shares

\* Over this broker the reconcile never counts a mismatch, so a run of the
\* default configuration is never stopped by its own bookkeeping.
ReconcileNeverFails == failures = 0 /\ killed # "reconcile"

\* The two books never go below zero cash: no order is filled on credit, and a
\* fill whose fees push it over the cash the risk check allowed is refused.
CashNonNegative == account.cash >= 0 /\ broker.cash >= 0

\* max_position_shares is a bound on what is held at all times, also while an
\* order is out and after a kill.
PositionCap == MaxPosition # None => account.shares <= MaxPosition

\* A tick of the session that ends without a kill ends within the limits: the
\* drawdown does not exceed max_loss_usd and the position is worth at most
\* max_notional_usd at that tick's mark, even when the mark has just moved.
QuietTickWithinLimits ==
  pc = "idle" /\ tick.rth /\ killed = "no" =>
    /\ ~ LossBreached(account.peak,
                      EquityAt(account.cash, account.shares, tick.price))
    /\ MaxNotional # None => account.shares * tick.price <= MaxNotional

\* Between ticks the mirror the run bundle is written from has the account's
\* cash and shares, also after a flatten order.
MirrorAgrees ==
  pc = "idle" => paper.cash = account.cash /\ paper.shares = account.shares

\* The position is what the order book says was bought less what was sold.
BookExplainsPosition == NetFilled(book) = account.shares

\* With --flatten-on-kill, a kill decided after the order of the tick leaves
\* nothing held.
LateKillFlattens ==
  /\ pc = "idle" /\ FlattenOnKill
  /\ killed \in {"order latency", "order refused", "fill refused", "drawdown",
                "reconcile"}
  => account.shares = 0

\* Once killed the position can only shrink: no step after the kill buys.
KilledNeverBuys == [][killed # "no" => account'.shares <= account.shares]_vars

\* The broker's book is the trading book of the abstract specification, stopped
\* when the runtime is: every step of a tick is one trade, stop or unwinding of
\* it, or none.
Abstract == INSTANCE TradingBook WITH cash <- broker.cash, shares <- broker.shares,
                                      stopped <- (killed # "no")
ImplementsTradingBook == Abstract!Spec

-----------------------------------------------------------------------------
(* What the documentation says and the code does not do.                   *)

\* docs/ROADMAP.md marks "Flatten-on-kill" done for this path, and the option
\* is described as "Virtually flatten position when kill switch trips".
KilledMeansFlat ==
  pc = "idle" /\ FlattenOnKill /\ killed # "no" => account.shares = 0
=============================================================================
