----------------------------- MODULE Strategies -----------------------------
(***************************************************************************)
(* The strategies of the backtest and of the replay, as functions of the   *)
(* closes.  Averages and deviations are compared multiplied out, so that   *)
(* they stay integers.                                                     *)
(***************************************************************************)
EXTENDS Builtins, SequencesExt

CONSTANTS
  Fast, Slow,    \* periods of the crossover
  Lookback,      \* window of the mean reversion and of the features
  EntryZ,        \* deviations at which the mean reversion acts
  Target         \* target_shares

ASSUME StrategiesAssumption ==
  /\ Fast \in Nat \ {0} /\ Slow \in Nat /\ Fast < Slow
  /\ Lookback \in Nat /\ Lookback >= 2
  /\ EntryZ \in Nat \ {0} /\ Target \in Int

\* Fault: the window ends one close later.
WindowAhead(closes, i, n) ==
  IF i < Len(closes) THEN SubSeq(closes, i + 2 - n, i + 1) ELSE SubSeq(closes, i + 1 - n, i)

\* The last n closes up to and with the i-th.
Window(closes, i, n) == SubSeq(closes, i + 1 - n, i)

\* Long while the fast average is above the slow one.
CrossoverSignals(closes) ==
  [i \in DOMAIN closes |->
     IF i >= Slow /\ Slow * Total(Window(closes, i, Fast))
                     > Fast * Total(Window(closes, i, Slow))
     THEN Target ELSE 0]

\* The z-score of the last element of a window is beyond EntryZ: n times its
\* distance from the mean, squared, against n^2 times the variance.  A tie does
\* not count, because of the 1e-12 added to the deviation.
Beyond(w) ==
  LET n == Len(w)
      d == n * Last(w) - Total(w)
      v == n * Total([j \in DOMAIN w |-> w[j] * w[j]]) - Total(w) * Total(w)
  IN  IF d * d <= EntryZ * EntryZ * v THEN "no" ELSE IF d < 0 THEN "below" ELSE "above"

\* Long from below the band until above it, and as before in between.
ReversionSignals(closes) ==
  LET signal[i \in 0 .. Len(closes)] ==
        IF i < Lookback THEN 0
        ELSE IF Beyond(Window(closes, i, Lookback)) = "below" THEN Target
        ELSE IF Beyond(Window(closes, i, Lookback)) = "above" THEN 0
        ELSE signal[i - 1]
  IN  [i \in DOMAIN closes |-> signal[i]]

\* A model decides once there are Lookback returns; what it answers to the
\* features of prices, position and cash is left open.
ModelChoices(i) == IF i < Lookback + 1 THEN {0} ELSE {0, Target}
=============================================================================
