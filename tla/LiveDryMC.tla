----------------------------- MODULE LiveDryMC ------------------------------
(***************************************************************************)
(* Small instances of LiveDry.  A price unit is 10 cash units, slippage is *)
(* a tenth of the mark and the fee a tenth of a price unit: coarse, so     *)
(* that one order's cost can cross the loss limit, and a target whose      *)
(* value the cash covers can cost more than the cash.                      *)
(*                                                                         *)
(* The built-in strategies return 0 or their target_shares, which nothing  *)
(* stops a model checkpoint from giving as negative; TickStrategy is a     *)
(* protocol, and another one may return any integer at any tick.           *)
(***************************************************************************)
EXTENDS LiveDry

MCPrices  == {7, 9, 10}
MCTargets == {-1, 0, 1, 3, 4}
=============================================================================
