-------------------------------- MODULE Risk --------------------------------
(***************************************************************************)
(* Pre-trade risk: the limits of a run and the verdict check_pretrade      *)
(* returns on a target, from live/risk.py.  A limit that is not set, and   *)
(* the missing clamped target of a hard refusal, are None.                 *)
(***************************************************************************)
EXTENDS Market

CONSTANTS
  MaxLoss,        \* max_loss_usd, in cash units, or None
  MaxPosition,    \* max_position_shares, or None
  MaxNotional     \* max_notional_usd, in price units, or None

ASSUME LimitsAssumption ==
  /\ MaxLoss \in Nat \cup {None}
  /\ MaxPosition \in Nat \cup {None}
  /\ MaxNotional \in Nat \cup {None}

\* Faults: the position cap is left out; the notional cap rounds up.
ClampNotionalOnly(want, p) ==
  IF MaxNotional # None /\ MaxNotional \div p < want THEN MaxNotional \div p
                                                    ELSE want
ClampCeil(want, p) ==
  LET capped == IF MaxPosition # None /\ MaxPosition < want THEN MaxPosition
                                                            ELSE want
  IN  IF MaxNotional # None /\ (MaxNotional + p - 1) \div p < capped
        THEN (MaxNotional + p - 1) \div p ELSE capped

\* The smaller of the target and of the caps that are set.
Clamp(want, p) ==
  LET capped == IF MaxPosition # None /\ MaxPosition < want THEN MaxPosition
                                                            ELSE want
  IN  IF MaxNotional # None /\ MaxNotional \div p < capped
        THEN MaxNotional \div p ELSE capped

LossBreached(peak, equity) == MaxLoss # None /\ peak - equity > MaxLoss

\* ok with a clamped target; refused with no target (a kill); or refused with
\* the present position as target, when cash does not cover the increase.
CheckPretrade(want, position, cash, p, equity, peak) ==
  LET goal == Clamp(want, p)
  IN  IF want < 0 \/ LossBreached(peak, equity)
        THEN [ok |-> FALSE, target |-> None]
      ELSE IF goal > position /\ (goal - position) * p * Scale > cash
        THEN [ok |-> FALSE, target |-> position]
      ELSE [ok |-> TRUE, target |-> goal]
=============================================================================
