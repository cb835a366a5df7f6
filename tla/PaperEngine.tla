---------------------------- MODULE PaperEngine -----------------------------
(***************************************************************************)
(* The paper engine (paper/engine.py): apply_tick moves the position of a  *)
(* virtual book to a clamped target, kills the session on missing cash or  *)
(* on the drawdown, and may flatten what it holds in the same tick.        *)
(*                                                                         *)
(* A state of it is [cash, shares, peak, killed], the last one the kind of *)
(* the kill_reason, or "no".  The fills it lists are its position changes, *)
(* and the equity curve and latency samples are only ever written.         *)
(***************************************************************************)
EXTENDS Risk

CONSTANTS InitialCash, FlattenOnKill

ASSUME PaperAssumption == InitialCash \in Nat /\ FlattenOnKill \in BOOLEAN

PaperKills == {"no", "cash", "drawdown", "risk"}

PaperState == [cash : Int, shares : Nat, peak : Int, killed : PaperKills]

StartState ==
  [cash |-> InitialCash, shares |-> 0, peak |-> InitialCash, killed |-> "no"]

-----------------------------------------------------------------------------
\* _virtual_fill: trade the whole difference to the target, or kill the session
\* and trade nothing when a purchase with its slippage and fees exceeds cash.
VirtualFill(s, want, p) ==
  LET bought == s.cash + CashFlow("BUY", want - s.shares, p)
      sold   == s.cash + CashFlow("SELL", s.shares - want, p)
  IN  CASE want = s.shares               -> s
        [] want > s.shares /\ bought < 0 -> [s EXCEPT !.killed = "cash"]
        [] want > s.shares /\ bought >= 0 ->
             [s EXCEPT !.cash = bought, !.shares = want]
        [] want < s.shares -> [s EXCEPT !.cash = sold, !.shares = want]

\* _maybe_kill_drawdown: mark, raise the peak, and kill on the drawdown; its
\* reason replaces an earlier one.
MaybeKillDrawdown(s, p) ==
  LET equity == EquityAt(s.cash, s.shares, p)
      peak   == Larger(s.peak, equity)
  IN  [s EXCEPT !.peak = peak,
                !.killed = IF LossBreached(peak, equity) THEN "drawdown" ELSE @]

\* Fault: only a drawdown kill flattens.
FlattenedOnDrawdown(s, p) ==
  IF s.killed = "drawdown" /\ FlattenOnKill /\ s.shares # 0
    THEN [VirtualFill([s EXCEPT !.killed = "no"], 0, p) EXCEPT
            !.killed = s.killed]
    ELSE s

\* A killed session sells what it holds, if asked to, and stays killed.
Flattened(s, p) ==
  IF s.killed # "no" /\ FlattenOnKill /\ s.shares # 0
    THEN [VirtualFill([s EXCEPT !.killed = "no"], 0, p) EXCEPT
            !.killed = s.killed]
    ELSE s

\* apply_tick on a session that is not killed, for a target that is not
\* negative (_clamp_want raises on those).  The drawdown is looked at before
\* and after the flattening; without one the second look changes nothing.
ApplyTick(s, want, p) ==
  MaybeKillDrawdown(
    Flattened(MaybeKillDrawdown(VirtualFill(s, Clamp(want, p), p), p), p), p)
=============================================================================
