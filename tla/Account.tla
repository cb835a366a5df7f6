------------------------------ MODULE Account -------------------------------
(***************************************************************************)
(* LocalAccount (live/account.py) and reconcile_account                    *)
(* (live/reconcile.py), for the one symbol a session trades.  An account   *)
(* is [cash, shares, peak]; average cost and realised profit, which no     *)
(* decision of the program reads, are left out.                            *)
(***************************************************************************)
EXTENDS Market

CONSTANT CashTol      \* cash_tol of reconcile_account, in cash units
ASSUME CashTolAssumption == CashTol \in Nat

\* mark_equity: reading the equity also raises the peak.
MarkEquity(acct, p) ==
  [acct EXCEPT !.peak = Larger(@, EquityAt(acct.cash, acct.shares, p))]

\* apply_fill raises ValueError when this does not hold, and changes nothing.
CanApplyFill(acct, side, qty, price, fee) ==
  /\ qty > 0
  /\ side = "BUY"  => qty * price + fee <= acct.cash
  /\ side = "SELL" => qty <= acct.shares

\* Fault: the side is mixed up.
ApplyFillWrongSide(acct, side, qty, price, fee) ==
  IF side = "SELL"
    THEN [acct EXCEPT !.shares = @ + qty, !.cash = @ - (qty * price + fee)]
    ELSE [acct EXCEPT !.shares = @ - qty, !.cash = @ + (qty * price - fee)]

ApplyFill(acct, side, qty, price, fee) ==
  IF side = "BUY"
    THEN [acct EXCEPT !.shares = @ + qty, !.cash = @ - (qty * price + fee)]
    ELSE [acct EXCEPT !.shares = @ - qty, !.cash = @ + (qty * price - fee)]

\* reconcile_account: cash is compared only if the snapshot has it.
Reconciles(acct, snap) ==
  /\ snap.cash # None => /\ acct.cash - snap.cash <= CashTol
                         /\ snap.cash - acct.cash <= CashTol
  /\ acct.shares = snap.shares
=============================================================================
