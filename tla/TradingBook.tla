---------------------------- MODULE TradingBook -----------------------------
(***************************************************************************)
(* What an execution path of the program promises about the one position   *)
(* it trades, whatever the broker, the limits or the order of its checks:  *)
(* a long-only book that pays for what it buys at the execution price of   *)
(* some mark, never on credit and never above the position cap, until it   *)
(* is stopped; after that it can only be sold off, whole, once.            *)
(***************************************************************************)
EXTENDS Market

CONSTANTS InitialCash, MaxPosition

VARIABLES cash, shares, stopped

bookVars == <<cash, shares, stopped>>

Init == cash = InitialCash /\ shares = 0 /\ stopped = FALSE

WithinCap == MaxPosition # None => shares' <= MaxPosition

Buy(p) ==
  /\ ~ stopped
  /\ shares' > shares /\ WithinCap
  /\ cash' = cash + CashFlow("BUY", shares' - shares, p)
  /\ cash' >= 0
  /\ stopped' \in BOOLEAN

Sell(p) ==
  /\ ~ stopped
  /\ shares' >= 0 /\ shares' < shares
  /\ cash' = cash + CashFlow("SELL", shares - shares', p)
  /\ stopped' \in BOOLEAN

Stop == ~ stopped /\ stopped' = TRUE /\ UNCHANGED <<cash, shares>>

Unwind(p) ==
  /\ stopped /\ shares > 0
  /\ shares' = 0
  /\ cash' = cash + CashFlow("SELL", shares, p)
  /\ UNCHANGED stopped

Next == Stop \/ \E p \in Prices : Buy(p) \/ Sell(p) \/ Unwind(p)

Spec == Init /\ [][Next]_bookVars
=============================================================================
