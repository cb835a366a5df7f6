----------------------------- MODULE BacktestMC -----------------------------
(* A small instance of Backtest. *)
EXTENDS Backtest

\* Quiet, rising and falling bars, with opens away from the close before.
SmallBars ==
  {[open |-> 2, close |-> 2], [open |-> 3, close |-> 4],
   [open |-> 4, close |-> 2], [open |-> 2, close |-> 3]}

SmallPrices == 2 .. 4

\* None, fewer shares than the target, and a negative number.
SmallCaps == {None, 1, -1}
=============================================================================
