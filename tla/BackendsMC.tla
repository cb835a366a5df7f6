----------------------------- MODULE BackendsMC -----------------------------
(***************************************************************************)
(* A small instance of Backends, with the economics of LiveDryMC: at marks *)
(* 9 and 10 a target's value can be covered by the cash that its slippage  *)
(* and fees exceed.                                                        *)
(***************************************************************************)
EXTENDS Backends

MCTargets == {-1, 0, 1, 2, 3, 4}
=============================================================================
