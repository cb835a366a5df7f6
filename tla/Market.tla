------------------------------- MODULE Market -------------------------------
(***************************************************************************)
(* Fill economics shared by every execution path: a market order is filled *)
(* at the mark moved by the slippage, and pays a fee per share.            *)
(*                                                                         *)
(* Amounts are integers.  A mark is an integer number of price units, an   *)
(* execution price and every cash amount is in units of 1/Scale of a price *)
(* unit, so that mark * (1 +- slip_bps / 10000) is the integer             *)
(* p * (Scale +- Slip).  The code computes with floats and absorbs their   *)
(* rounding with a tolerance of 1e-9; with integers the comparisons are    *)
(* exact and the tolerance disappears.                                     *)
(***************************************************************************)
EXTENDS Builtins

CONSTANTS
  Scale,    \* cash units per price unit (the 10_000 of the basis points)
  Slip,     \* slip_bps
  Fee,      \* fee_per_share, in cash units
  Prices    \* the marks a tick can carry

ASSUME ScaleAssumption  == Scale \in Nat \ {0}
ASSUME SlipAssumption   == Slip \in 0 .. Scale
ASSUME FeeAssumption    == Fee \in Nat
ASSUME PricesAssumption == Prices # {} /\ Prices \subseteq Nat \ {0}

Sides == {"BUY", "SELL"}

\* Execution price of a market order against mark p.
ExecPrice(side, p) ==
  IF side = "BUY" THEN p * (Scale + Slip) ELSE p * (Scale - Slip)

FeeFor(qty) == qty * Fee

\* What a fill of qty shares adds to the cash of whoever sent the order.
CashFlow(side, qty, p) ==
  IF side = "BUY" THEN -(qty * ExecPrice(side, p) + FeeFor(qty))
                  ELSE qty * ExecPrice(side, p) - FeeFor(qty)

\* Value of a book at mark p, and the peak that follows it.
EquityAt(cash, shares, p) == cash + shares * p * Scale

Larger(a, b) == IF a >= b THEN a ELSE b

\* At every mark a sale brings in at least its fee.  Nothing in the program sees
\* to that: it is a condition on the fee and the prices of an instance.
SalesPay == \A p \in Prices : Fee <= p * (Scale - Slip)
=============================================================================
