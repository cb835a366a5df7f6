------------------------------ MODULE Backtest ------------------------------
(***************************************************************************)
(* run_backtest over bars and replay_ticks over ticks, and the metrics     *)
(* that are computed from what they return.  Each engine keeps a portfolio *)
(* of its own: the backtest fills at the close that gave the signal or,    *)
(* with a latency of one bar, at the next open, and takes a fee in basis   *)
(* points; the replay fills at the tick's price and takes a fee per share. *)
(* What they return is stored as a bundle, and crucibo report computes the *)
(* metrics again from the files.                                           *)
(*                                                                         *)
(* Money counts in units of 1/Scale^2, the fee of the backtest in parts of *)
(* Scale.                                                                  *)
(***************************************************************************)
EXTENDS Strategies, RunFiles, Market

CONSTANTS
  Bars,          \* bars that may occur, [open, close]; a tick's price is a close
  MaxBars,       \* bound on the length of a run
  FeeBps,        \* fee_bps of the backtest; the replay's fee_per_share is Fee
  InitialCash,
  Caps           \* values of max_position_shares, which nothing validates, with None

ASSUME BacktestAssumption ==
  /\ Bars \subseteq [open : Prices, close : Prices] /\ MaxBars \in Nat
  /\ FeeBps \in Nat
  /\ InitialCash \in Nat \ {0} /\ Caps \subseteq Int \cup {None}
  /\ \A t \in {0, Target}, i \in 1 .. MaxBars : [target |-> t, signal |-> i] # None
\* In the replay, and in the backtest, a sale brings in at least its fee.
ASSUME BacktestSaleAssumption == SalesPay /\ FeeBps <= Scale

VARIABLES
  engine,        \* "backtest" or "replay"
  strategy,
  latency, cap,  \* of EconomicsConfig
  bars,          \* the bars by close time, or the ticks by event time
  next,          \* index of the next bar
  book,          \* [cash, shares, peak, fills]
  pending,       \* target waiting for the next open, [target, signal] or None
  curve,         \* equity after each bar
  worst,         \* largest drawdown of the equity curve
  pc,            \* "run", "write", "over", "failed", "crashed"
  files, todo    \* the bundle, [file -> age], and the files still to be written

config == <<engine, strategy, latency, cap, bars>>
run    == <<next, book, pending, curve, worst>>
vars   == <<config, run, pc, files, todo>>

Registry == {"ma_crossover", "mean_reversion"}
TickStrategies == {"flat", "buy_hold", "neural"}

Bundle == IF engine = "backtest" THEN BacktestFiles ELSE ReplayFiles

\* What may already be in the directory.  A backtest's has a new name; that of
\* a replay may be given, and an older run may have written there, or have
\* crashed while it did.
Older ==
  IF engine = "backtest" THEN {<<>>} ELSE Prefixes(BacktestFiles) \cup Prefixes(ReplayFiles)

\* Two of the strategies refuse a negative target when they are built.
Init ==
  /\ \/ engine = "backtest" /\ strategy \in Registry /\ latency \in {0, 1} /\ cap \in Caps
     \/ engine = "replay" /\ strategy \in TickStrategies /\ latency = 0 /\ cap = None
  /\ Target < 0 => strategy \notin {"ma_crossover", "buy_hold"}
  /\ bars \in BoundedSeq(Bars, MaxBars)
  /\ next = 1 /\ pending = None /\ curve = <<>> /\ worst = 0 /\ pc = "run"
  /\ book = [cash |-> InitialCash, shares |-> 0, peak |-> InitialCash, fills |-> <<>>]
  /\ \E older \in Older :
       files = [f \in TableNames |-> IF f \in ToSet(older) THEN "old" ELSE "none"]
  /\ todo = Bundle

Closes == [i \in DOMAIN bars |-> bars[i].close]

\* What the strategy may want at bar i.
Wanted(i) ==
  CASE strategy = "ma_crossover"   -> {CrossoverSignals(Closes)[i]}
    [] strategy = "mean_reversion" -> {ReversionSignals(Closes)[i]}
    [] strategy = "flat"           -> {0}
    [] strategy = "buy_hold"       -> {Target}
    [] strategy = "neural"         -> ModelChoices(i)

-----------------------------------------------------------------------------
(* The simulated broker.                                                   *)

FeeCash(side, qty, p) ==
  IF engine = "replay" THEN FeeFor(qty) * Scale ELSE qty * ExecPrice(side, p) * FeeBps

Equity(b, p) == b.cash + b.shares * p * Scale * Scale

Side(b, target) == IF target > b.shares THEN "BUY" ELSE "SELL"
Qty(b, target)  == IF target > b.shares THEN target - b.shares ELSE b.shares - target

\* What the shares come to at the price moved by the slippage, and the cash after
\* them and their fee.
Gross(b, target, price) == Qty(b, target) * ExecPrice(Side(b, target), price) * Scale

FeeOf(b, target, price) == FeeCash(Side(b, target), Qty(b, target), price)

CashAfter(b, target, price) ==
  IF target > b.shares
  THEN b.cash - (Gross(b, target, price) + FeeOf(b, target, price))
  ELSE b.cash + (Gross(b, target, price) - FeeOf(b, target, price))

\* The replay stores no notional with its fills.
FillOf(b, target, price, signal) ==
  [side |-> Side(b, target), qty |-> Qty(b, target), price |-> price,
   bar |-> next, signal |-> signal,
   notional |-> IF engine = "replay" THEN None ELSE Gross(b, target, price),
   fee |-> FeeOf(b, target, price),
   cash |-> CashAfter(b, target, price), shares |-> target]

Clamped(wish) == IF cap = None \/ wish <= cap THEN wish ELSE cap

\* Fault: the purchase is compared with the cash before its fee.
RefusesGross(b, wish, price) ==
  \/ wish < 0
  \/ Clamped(wish) > b.shares /\ Gross(b, Clamped(wish), price) > b.cash

\* rebalance_to raises: no target may be negative, but it is clamped after that
\* check; and the cash has to cover a purchase and its fee.
Refuses(b, wish, price) ==
  \/ wish < 0
  \/ /\ Clamped(wish) > b.shares
     /\ Gross(b, Clamped(wish), price) + FeeOf(b, Clamped(wish), price) > b.cash

Traded(b, target, price, signal) ==
  [b EXCEPT !.shares = target,
            !.fills  = Append(@, FillOf(b, target, price, signal)),
            !.cash   = CashAfter(b, target, price)]

\* rebalance_to gives the book after it, and None where it raises.
Rebalanced(b, wish, price, signal) ==
  IF Refuses(b, wish, price) THEN None
  ELSE IF Clamped(wish) = b.shares THEN b
  ELSE Traded(b, Clamped(wish), price, signal)

\* update_peak at the close.
Marked(b, p) == [b EXCEPT !.peak = IF Equity(b, p) > @ THEN Equity(b, p) ELSE @]

-----------------------------------------------------------------------------
(* One bar: what waits from the last one, the strategy, its order, the     *)
(* mark.  An order that raises ends the run without a result.              *)

\* The order of the bar before, at this open.
Opened ==
  IF pending = None THEN book
  ELSE Rebalanced(book, pending.target, bars[next].open, pending.signal)

Refused(b) == b = None /\ pc' = "failed" /\ UNCHANGED <<next, book, pending, curve, worst>>

Close(b) ==
  LET p == bars[next].close
      m == Marked(b, p)
  IN  /\ b # None
      /\ book' = m /\ curve' = Append(curve, Equity(m, p))
      /\ worst' = IF m.peak - Equity(m, p) > worst THEN m.peak - Equity(m, p) ELSE worst
      /\ next' = next + 1 /\ UNCHANGED pc

AtClose ==
  /\ latency = 0
  /\ \E want \in Wanted(next) :
       LET b == Rebalanced(book, want, bars[next].close, next)
       IN  Refused(b) \/ (Close(b) /\ UNCHANGED pending)

AtNextOpen ==
  /\ latency = 1
  /\ \/ Refused(Opened)
     \/ /\ Close(Opened)
        /\ \E want \in Wanted(next) : pending' = [target |-> want, signal |-> next]

Bar ==
  /\ pc = "run" /\ next <= Len(bars)
  /\ AtClose \/ AtNextOpen
  /\ UNCHANGED <<config, files, todo>>

\* An empty backtest is an error, an empty replay a result.
Finish ==
  /\ pc = "run" /\ next > Len(bars)
  /\ pc' = IF bars = <<>> /\ engine = "backtest" THEN "failed" ELSE "write"
  /\ UNCHANGED <<config, run, files, todo>>

-----------------------------------------------------------------------------
(* The bundle and its reader.                                              *)

WriteFile ==
  /\ pc = "write"
  /\ files' = [files EXCEPT ![Head(todo)] = "new"]
  /\ todo' = Tail(todo)
  /\ pc' = IF todo' = <<>> THEN "over" ELSE "write"
  /\ UNCHANGED <<config, run>>

Crash ==
  /\ pc = "write"
  /\ pc' = "crashed"
  /\ UNCHANGED <<config, run, files, todo>>

\* crucibo report: at any time, of any directory that loads.  With --output its
\* metrics go elsewhere and the directory stays as it is.
Report ==
  /\ Loads(files)
  /\ files' = [files EXCEPT !["metrics"] = "new"]
  /\ UNCHANGED <<config, run, pc, todo>>

Ended == pc \in {"over", "failed", "crashed"} /\ UNCHANGED vars

Next == Bar \/ Finish \/ WriteFile \/ Crash \/ Report \/ Ended

Spec == Init /\ [][Next]_vars
-----------------------------------------------------------------------------
(* reporting/metrics.py                                                    *)

BrokerFills == [side : {"BUY", "SELL"}, qty : Nat, price : Nat, bar : Nat, signal : Nat,
                notional : Nat, fee : Nat, cash : Nat, shares : Int]
Trips == [pnls : Seq(Int), entry : Int]
NoTrips == [pnls |-> <<>>, entry |-> 0]

\* Fault: the entry cost is not reset after a sale.
TurnKeepsEntry ==
  [t \in Trips |-> [f \in BrokerFills |->
     IF f.side = "BUY" THEN [t EXCEPT !.entry = @ + f.notional + f.fee]
     ELSE [t EXCEPT !.pnls = Append(@, f.notional - f.fee - t.entry)]]]

\* Purchases add up to an entry cost; any sale closes the trip.
Turn ==
  [t \in Trips |-> [f \in BrokerFills |->
     IF f.side = "BUY" THEN [t EXCEPT !.entry = @ + f.notional + f.fee]
     ELSE [pnls |-> Append(t.pnls, f.notional - f.fee - t.entry), entry |-> 0]]]

RoundTrips(fills) == Folded(Turn, NoTrips, fills)

\* max_drawdown of compute_metrics, whose peak begins at the first equity.
Fall ==
  [a \in [peak : Int, dd : Int] |-> [e \in Int |->
     LET peak == IF e > a.peak THEN e ELSE a.peak
     IN  [peak |-> peak, dd |-> IF peak - e > a.dd THEN peak - e ELSE a.dd]]]

MaxDrawdown(equity) == Folded(Fall, [peak |-> equity[1], dd |-> 0], equity).dd

-----------------------------------------------------------------------------
(* Properties.                                                             *)

\* A negative cap makes every target negative, after the check of it.
Short == cap # None /\ cap < 0

\* Well-typed state: never on credit, and in no position but none and the clamped
\* targets that are not refused.
TypeOK ==
  /\ engine \in {"backtest", "replay"} /\ strategy \in Registry \cup TickStrategies
  /\ next \in 1 .. Len(bars) + 1 /\ pc \in {"run", "write", "over", "failed", "crashed"}
  /\ \A f \in TableNames : files[f] \in Ages
  /\ book.cash \in Nat /\ book.peak \in Nat /\ worst \in Nat
  /\ book.shares \in {0} \cup {Clamped(wish) : wish \in {0, Target} \cap Nat}
  /\ Len(curve) = next - 1
  /\ pending = None \/ pending.signal = next - 1

\* What each strategy wants of a history, told from the history alone: the mean
\* reversion is long if the last close that left the band left it below.
WishOf(history) ==
  LET n == Len(history)
      left == {j \in Lookback .. n : Beyond(SubSeq(history, j + 1 - Lookback, j)) # "no"}
      last == CHOOSE j \in left : \A k \in left : k <= j
  IN  IF strategy = "ma_crossover"
      THEN IF n >= Slow /\ Slow * Total(SubSeq(history, n + 1 - Fast, n))
                             > Fast * Total(SubSeq(history, n + 1 - Slow, n))
           THEN Target ELSE 0
      ELSE IF left # {} /\ Beyond(SubSeq(history, last + 1 - Lookback, last)) = "below"
           THEN Target ELSE 0

\* "no lookahead" (docs/ROADMAP.md), in a backtest: after any number of bars the
\* position is what the strategy wants of the closes up to the signal's bar,
\* whatever comes later, and every fill is at the close of that bar or at the open
\* after it.
NoLookahead ==
  engine = "backtest" =>
    LET known == next - 1 - latency IN
    /\ pc = "run" /\ known >= 1 =>
         book.shares = Clamped(WishOf(SubSeq(Closes, 1, known)))
    /\ \A k \in DOMAIN book.fills :
         LET f == book.fills[k] IN
         /\ f.bar = f.signal + latency
         /\ f.price = IF latency = 0 THEN bars[f.signal].close ELSE bars[f.signal + 1].open

\* The cash whenever no shares are held: at first, and after the fills that leave
\* none.
Settled ==
  [c \in Seq(Int) |-> [f \in BrokerFills |->
     IF f.shares = 0 THEN Append(c, f.cash) ELSE c]]

FlatCash(fills) == Folded(Settled, <<InitialCash>>, fills)

\* "Long-only round trips: BUY opens, SELL closes" (metrics.py): the profits that
\* trade_stats counts as wins and losses are one for each way from a portfolio
\* without shares to the next one, and each is what the broker's cash, which
\* knows nothing of trips, gained on the way; what the open trip has cost is
\* missing from the cash.  A sale of a part would close a trip with shares left.
TripsAreFlatToFlat ==
  engine = "backtest" /\ ~Short =>
    LET trips == RoundTrips(book.fills)
        flat  == FlatCash(book.fills)
    IN  /\ Len(flat) = Len(trips.pnls) + 1
        /\ \A k \in DOMAIN trips.pnls : trips.pnls[k] = flat[k + 1] - flat[k]
        /\ trips.entry = flat[Len(flat)] - book.cash

\* What a report makes of a backtest's directory is what the run returned: a
\* directory loads only with all the fills, although the reader does not insist
\* on them; the drawdown found in the equity curve is the one measured against a
\* peak that began with the cash; and the profit counts from that cash, because
\* no strategy trades on its first bar, unless a negative cap makes it sell.
ReportMatchesOutcome ==
  engine = "backtest" /\ Loads(files) =>
    /\ files["fills"] = "new"
    /\ ~Short => MaxDrawdown(curve) = worst /\ curve[1] = InitialCash
=============================================================================
