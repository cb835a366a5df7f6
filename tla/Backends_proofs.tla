--------------------------- MODULE Backends_proofs --------------------------
(***************************************************************************)
(* The paper session and its dry-run rehearsal, for every choice of        *)
(* prices, costs, limits and wishes, and for sessions of any length.       *)
(***************************************************************************)
EXTENDS Backends, Shared_proofs

(***************************************************************************)
(* The paper engine: a fill, a mark, and a whole tick of it.               *)
(***************************************************************************)
LEMMA StateFields ==
  ASSUME NEW s \in PaperState
  PROVE  /\ s.cash \in Int /\ s.shares \in Nat /\ s.peak \in Int
         /\ s.killed \in PaperKills
  BY DEF PaperState

\* The moves of a virtual fill: a purchase or a kill, a sale, nothing.
LEMMA FillBuys ==
  ASSUME NEW s \in PaperState, NEW want \in Nat, NEW p \in Prices,
         NEW r, r = VirtualFill(s, want, p), want > s.shares,
         NEW cash, cash = s.cash + CashFlow("BUY", want - s.shares, p)
  PROVE  /\ cash \in Int
         /\ cash < 0 => r = [s EXCEPT !.killed = "cash"]
         /\ cash >= 0 => /\ r \in PaperState /\ r.cash = cash /\ r.shares = want
                        /\ r.peak = s.peak /\ r.killed = s.killed
<1>1. s.cash \in Int /\ s.shares \in Nat
  BY StateFields
<1>2. want - s.shares \in Nat /\ want # s.shares /\ ~ (want < s.shares)
  BY <1>1, SMT
<1>3. cash \in Int
  BY <1>1, <1>2, FillCosts
<1>4. cash < 0 <=> ~ (cash >= 0)
  BY <1>3, SMT
<1>5. cash < 0 => r = [s EXCEPT !.killed = "cash"]
  BY <1>2, <1>4 DEF VirtualFill
<1>6. cash >= 0 => r = [s EXCEPT !.cash = cash, !.shares = want]
  BY <1>2, <1>4 DEF VirtualFill
<1>7. cash >= 0 => /\ r \in PaperState /\ r.cash = cash /\ r.shares = want
                   /\ r.peak = s.peak /\ r.killed = s.killed
  BY <1>3, <1>6 DEF PaperState
<1> QED
  BY <1>3, <1>5, <1>7

LEMMA FillSells ==
  ASSUME NEW s \in PaperState, NEW want \in Nat, NEW p \in Prices,
         NEW r, r = VirtualFill(s, want, p), want < s.shares,
         NEW cash, cash = s.cash + CashFlow("SELL", s.shares - want, p)
  PROVE  /\ r \in PaperState /\ r.cash = cash /\ r.shares = want
         /\ r.peak = s.peak /\ r.killed = s.killed
<1>1. s.cash \in Int /\ s.shares \in Nat
  BY StateFields
<1>2. s.shares - want \in Nat /\ want # s.shares /\ ~ (want > s.shares)
  BY <1>1, SMT
<1>3. cash \in Int
  BY <1>1, <1>2, FillCosts
<1>4. r = [s EXCEPT !.cash = cash, !.shares = want]
  BY <1>2 DEF VirtualFill
<1> QED
  BY <1>3, <1>4 DEF PaperState

LEMMA FillKeeps ==
  ASSUME NEW s \in PaperState, NEW p \in Prices
  PROVE  VirtualFill(s, s.shares, p) = s
  BY StateFields DEF VirtualFill

\* What a virtual fill of a running session does: it reaches the target without
\* going into debt and without gaining on the mark, or it kills the session
\* because a purchase exceeds the cash, and moves nothing.
LEMMA VirtualFillEffect ==
  ASSUME NEW s \in PaperState, s.killed = "no", NEW want \in Nat, NEW p \in Prices,
         NEW r, r = VirtualFill(s, want, p)
  PROVE  /\ r \in PaperState /\ r.peak = s.peak
         /\ \/ /\ r.killed = "no" /\ r.shares = want
               /\ EquityAt(r.cash, r.shares, p) <= EquityAt(s.cash, s.shares, p)
               /\ s.cash >= 0 => r.cash >= 0
            \/ /\ want > s.shares /\ r = [s EXCEPT !.killed = "cash"]
               /\ s.cash + CashFlow("BUY", want - s.shares, p) < 0
<1>0. /\ s.cash \in Int /\ s.shares \in Nat /\ s.peak \in Int
      /\ p \in Nat /\ Scale \in Nat
  BY StateFields, PricesAssumption, ScaleAssumption
<1>1. CASE want = s.shares
  <2>1. r = s
    BY <1>1, FillKeeps
  <2>2. EquityAt(s.cash, s.shares, p) \in Int
    <3>1. s.shares \in Int
      BY <1>0
    <3> QED
      BY <1>0, <3>1, EquityInt
  <2> QED
    BY <1>1, <2>1, <2>2
<1>2. CASE want > s.shares
  <2> DEFINE q == want - s.shares
             flow == CashFlow("BUY", q, p)
             cash == s.cash + flow
  <2>1. q \in Nat
    BY <1>0, <1>2, SMT
  <2>2. flow \in Int /\ flow <= - (q * p * Scale) /\ q * p * Scale \in Nat
    BY <2>1, FillCosts
  <2> HIDE DEF cash
  <2>3. /\ cash \in Int
        /\ cash < 0 => r = [s EXCEPT !.killed = "cash"]
        /\ cash >= 0 => /\ r \in PaperState /\ r.cash = cash /\ r.shares = want
                       /\ r.peak = s.peak /\ r.killed = s.killed
    BY <1>2, FillBuys DEF cash
  <2>4. CASE cash < 0
    <3>1. r \in PaperState /\ r.peak = s.peak
      BY <2>3, <2>4 DEF PaperState, PaperKills
    <3> QED
      BY <1>2, <2>3, <2>4, <3>1 DEF cash
  <2>5. CASE cash >= 0
    <3>1. want * p * Scale = s.shares * p * Scale + q * p * Scale
      BY <1>0, SMT
    <3>2. s.shares * p * Scale \in Int
      BY <1>0, SMT
    <3>3. EquityAt(r.cash, r.shares, p) <= EquityAt(s.cash, s.shares, p)
      <4> HIDE DEF q, flow
      <4>1. cash = s.cash + flow
        BY DEF cash
      <4> QED
        BY <1>0, <2>2, <2>3, <2>5, <3>1, <3>2, <4>1, SMT DEF EquityAt
    <3> QED
      BY <2>3, <2>5, <3>3
  <2> QED
    BY <2>3, <2>4, <2>5, SMT
<1>3. CASE want < s.shares
  <2> DEFINE q == s.shares - want
             flow == CashFlow("SELL", q, p)
             cash == s.cash + flow
  <2>1. q \in Nat
    BY <1>0, <1>3, SMT
  <2>2. flow \in Int /\ flow <= q * p * Scale /\ q * p * Scale \in Nat
    BY <2>1, FillCosts
  <2>3. flow >= 0
    BY <2>1, BackendSaleAssumption, SaleNonNegative DEF CashFlow
  <2> HIDE DEF cash
  <2>4. /\ r \in PaperState /\ r.peak = s.peak /\ r.killed = s.killed
        /\ r.cash = cash /\ r.shares = want
    BY <1>3, FillSells DEF cash
  <2> HIDE DEF flow
  <2>5. cash = s.cash + flow
    BY DEF cash, flow
  <2>6. s.shares * p * Scale = want * p * Scale + q * p * Scale
    BY <1>0, SMT
  <2>7. want * p * Scale \in Int
    BY <1>0, SMT
  <2>8. EquityAt(r.cash, r.shares, p) <= EquityAt(s.cash, s.shares, p)
    <3> HIDE DEF q
    <3> QED
      BY <1>0, <2>2, <2>4, <2>5, <2>6, <2>7, SMT DEF EquityAt
  <2>9. s.cash >= 0 => r.cash >= 0
    BY <1>0, <2>2, <2>3, <2>4, <2>5, SMT
  <2> QED
    BY <2>4, <2>8, <2>9
<1> QED
  BY <1>0, <1>1, <1>2, <1>3, SMT

\* A mark raises the peak to the equity, keeps cash and shares, and kills
\* exactly when the loss limit is breached.
LEMMA MarkEffect ==
  ASSUME NEW s \in PaperState, NEW p \in Prices, NEW r, r = MaybeKillDrawdown(s, p)
  PROVE  /\ r \in PaperState /\ r.cash = s.cash /\ r.shares = s.shares
         /\ r.peak = Larger(s.peak, EquityAt(s.cash, s.shares, p))
         /\ r.killed = IF LossBreached(r.peak, EquityAt(r.cash, r.shares, p))
                         THEN "drawdown" ELSE s.killed
<1>1. EquityAt(s.cash, s.shares, p) \in Int /\ s.peak \in Int
  BY StateFields, EquityInt
<1>2. Larger(s.peak, EquityAt(s.cash, s.shares, p)) \in Int
  BY <1>1 DEF Larger
<1>3. r = [s EXCEPT !.peak = Larger(s.peak, EquityAt(s.cash, s.shares, p)),
                    !.killed = IF LossBreached(Larger(s.peak, EquityAt(s.cash, s.shares, p)),
                                               EquityAt(s.cash, s.shares, p))
                                 THEN "drawdown" ELSE s.killed]
  BY DEF MaybeKillDrawdown, PaperState
<1> QED
  BY <1>2, <1>3 DEF PaperState, PaperKills

\* A second look at the same mark finds what the first one found.
LEMMA MarkTwice ==
  ASSUME NEW s \in PaperState, NEW p \in Prices, NEW r, r = MaybeKillDrawdown(s, p),
         r.killed = "no"
  PROVE  MaybeKillDrawdown(r, p) = r
<1> DEFINE e == EquityAt(s.cash, s.shares, p)
<1>1. e \in Int /\ s.peak \in Int
  BY StateFields, EquityInt
<1>2. /\ r \in PaperState /\ r.cash = s.cash /\ r.shares = s.shares
      /\ r.peak = Larger(s.peak, e) /\ ~ LossBreached(r.peak, e)
  BY MarkEffect
<1> HIDE DEF e
<1>3. Larger(r.peak, e) = r.peak
  BY <1>1, <1>2 DEF Larger
<1>4. MaybeKillDrawdown(r, p) = [r EXCEPT !.peak = r.peak, !.killed = r.killed]
  BY <1>2, <1>3 DEF MaybeKillDrawdown, e
<1> QED
  BY <1>2, <1>4 DEF PaperState

Breached(s, p) ==
  LossBreached(Larger(s.peak, EquityAt(s.cash, s.shares, p)),
               EquityAt(s.cash, s.shares, p))

\* A tick of the engine on a running session.  It either goes on at the clamped
\* target, within the loss limit and without debt, or is killed, and then holds
\* nothing if it is to flatten.  It is killed at least when the cash does not
\* cover the purchase, and when the loss limit was breached before its fill,
\* which cannot make up for the loss.
LEMMA TickEffect ==
  ASSUME NEW s \in PaperState, s.killed = "no", NEW want \in Nat, NEW p \in Prices,
         NEW r, r = ApplyTick(s, want, p)
  PROVE  /\ r \in PaperState /\ r.killed # "risk"
         /\ r.killed = "no" =>
              /\ r.shares = Clamp(want, p)
              /\ s.cash >= 0 => r.cash >= 0
              /\ ~ LossBreached(r.peak, EquityAt(r.cash, r.shares, p))
         /\ r.killed # "no" /\ FlattenOnKill => r.shares = 0
         /\ Breached(s, p) => r.killed # "no"
         /\ Clamp(want, p) > s.shares
              /\ s.cash + CashFlow("BUY", Clamp(want, p) - s.shares, p) < 0
              => r.killed # "no"
         /\ ~ FlattenOnKill /\ Clamp(want, p) = s.shares => r.shares = s.shares
<1> DEFINE goal == Clamp(want, p)
           v == VirtualFill(s, goal, p)
           m == MaybeKillDrawdown(v, p)
           f == Flattened(m, p)
<1>0. goal \in Nat
  BY ClampBounds
<1>1. r = MaybeKillDrawdown(f, p)
  BY DEF ApplyTick
<1> HIDE DEF goal
<1>2. /\ v \in PaperState /\ v.peak = s.peak
      /\ \/ /\ v.killed = "no" /\ v.shares = goal
            /\ EquityAt(v.cash, v.shares, p) <= EquityAt(s.cash, s.shares, p)
            /\ s.cash >= 0 => v.cash >= 0
         \/ /\ goal > s.shares /\ v = [s EXCEPT !.killed = "cash"]
            /\ s.cash + CashFlow("BUY", goal - s.shares, p) < 0
  BY <1>0, VirtualFillEffect
<1>3. goal > s.shares /\ s.cash + CashFlow("BUY", goal - s.shares, p) < 0
        => v.killed = "cash"
  <2> SUFFICES ASSUME goal > s.shares,
                      s.cash + CashFlow("BUY", goal - s.shares, p) < 0
               PROVE  v.killed = "cash"
    OBVIOUS
  <2>1. v = [s EXCEPT !.killed = "cash"]
    BY <1>0, FillBuys
  <2> QED
    BY <2>1 DEF PaperState
<1> HIDE DEF v
<1>4. /\ m \in PaperState /\ m.cash = v.cash /\ m.shares = v.shares
      /\ m.peak = Larger(v.peak, EquityAt(v.cash, v.shares, p))
      /\ m.killed = IF LossBreached(m.peak, EquityAt(m.cash, m.shares, p))
                      THEN "drawdown" ELSE v.killed
  BY <1>2, MarkEffect
<1>5. v.killed \in {"no", "cash"}
  BY <1>2 DEF PaperState
<1>6. Breached(s, p) => m.killed # "no"
  <2> SUFFICES ASSUME Breached(s, p), v.killed = "no" PROVE m.killed = "drawdown"
    BY <1>4, <1>5
  <2>1. /\ v.peak = s.peak
        /\ EquityAt(v.cash, v.shares, p) <= EquityAt(s.cash, s.shares, p)
    BY <1>2 DEF PaperState
  <2> DEFINE before == EquityAt(s.cash, s.shares, p)
             after  == EquityAt(v.cash, v.shares, p)
  <2>2. before \in Int /\ after \in Int /\ s.peak \in Int
    <3>1. /\ s.cash \in Int /\ s.shares \in Int /\ s.peak \in Int
          /\ v.cash \in Int /\ v.shares \in Int
      BY <1>2, StateFields
    <3> QED
      BY <3>1, EquityInt
  <2> HIDE DEF before, after
  <2>3. MaxLoss # None /\ MaxLoss \in Nat /\ Larger(s.peak, before) - before > MaxLoss
    BY LimitsAssumption DEF Breached, LossBreached, before
  <2>4. Larger(s.peak, after) - after > MaxLoss
    BY <2>1, <2>2, <2>3, SMT DEF Larger, before, after
  <2> QED
    BY <1>4, <2>1, <2>3, <2>4 DEF LossBreached, after
<1> HIDE DEF m
<1>7. CASE m.killed = "no"
  <2>1. f = m
    BY <1>7 DEF Flattened
  <2>2. r = m
    <3>1. MaybeKillDrawdown(m, p) = m
      BY <1>2, <1>7, MarkTwice DEF m
    <3> QED
      BY <1>1, <2>1, <3>1
  <2>3. v.killed = "no" /\ ~ LossBreached(m.peak, EquityAt(m.cash, m.shares, p))
    BY <1>4, <1>7
  <2>4. v.shares = goal /\ (s.cash >= 0 => v.cash >= 0)
    BY <1>2, <2>3 DEF PaperState
  <2> QED
    BY <1>3, <1>4, <1>6, <1>7, <2>2, <2>3, <2>4 DEF goal
<1>8. CASE m.killed # "no"
  <2> DEFINE awake == [m EXCEPT !.killed = "no"]
             sold  == VirtualFill(awake, 0, p)
  <2>1. /\ awake \in PaperState /\ awake.killed = "no" /\ awake.shares = m.shares
        /\ m.shares \in Nat /\ m.killed \in {"drawdown", "cash"}
    BY <1>4, <1>5, <1>8 DEF PaperState, PaperKills
  <2>2. sold \in PaperState /\ sold.shares = 0
    <3> HIDE DEF awake
    <3>1. ~ (0 > awake.shares)
      BY <2>1, SMT
    <3> QED
      BY <2>1, <3>1, VirtualFillEffect
  <2> HIDE DEF sold
  <2>3. /\ f \in PaperState /\ f.killed = m.killed
        /\ FlattenOnKill => f.shares = 0
        /\ ~ FlattenOnKill => f.shares = m.shares
    <3>1. CASE FlattenOnKill /\ m.shares # 0
      <4>1. f = [sold EXCEPT !.killed = m.killed]
        BY <1>8, <3>1 DEF Flattened, sold
      <4>2. m.killed \in PaperKills
        BY <2>1 DEF PaperKills
      <4> QED
        BY <2>2, <3>1, <4>1, <4>2 DEF PaperState
    <3>2. CASE ~ (FlattenOnKill /\ m.shares # 0)
      <4>1. f = m
        BY <3>2 DEF Flattened
      <4> QED
        BY <1>4, <3>2, <4>1
    <3> QED
      BY <3>1, <3>2
  <2> HIDE DEF f
  <2>4. /\ r \in PaperState /\ r.shares = f.shares
        /\ r.killed \in {"drawdown", f.killed}
    BY <1>1, <2>3, MarkEffect
  <2>5. r.killed # "no" /\ r.killed # "risk"
    BY <2>1, <2>3, <2>4
  <2>6. goal = s.shares => v.shares = s.shares
    BY <1>2, StateFields DEF PaperState
  <2> QED
    BY <1>4, <2>3, <2>4, <2>5, <2>6 DEF goal
<1> QED
  BY <1>7, <1>8

-----------------------------------------------------------------------------
(***************************************************************************)
(* The verdict of the rehearsal, and the two moves of a tick.              *)
(***************************************************************************)

\* A verdict with a target is within the caps, and its target is the clamped
\* wish, or the position because the cash does not cover the purchase, at the
\* mark and so even less at the price of a fill.  One without a target is for a
\* negative wish or a breach of the loss limit.
LEMMA VerdictCases ==
  ASSUME NEW s \in PaperState, NEW want \in Int, NEW p \in Prices,
         NEW t, t = Verdict(s, want, p).target
  PROVE  /\ t = None => want < 0 \/ Breached(s, p)
         /\ t # None =>
              /\ want \in Nat /\ t \in Nat /\ Clamp(t, p) = t
              /\ \/ t = Clamp(want, p)
                 \/ /\ t = s.shares /\ Clamp(want, p) > s.shares
                    /\ s.cash + CashFlow("BUY", Clamp(want, p) - s.shares, p) < 0
<1> DEFINE equity == EquityAt(s.cash, s.shares, p)
           peak   == Larger(s.peak, equity)
           goal   == Clamp(want, p)
<1>1. s.cash \in Int /\ s.shares \in Nat /\ s.peak \in Int /\ equity \in Int
  BY StateFields, EquityInt
<1>2. peak \in Int
  BY <1>1 DEF Larger
<1> HIDE DEF equity, peak
<1>3. t = CheckPretrade(want, s.shares, s.cash, p, equity, peak).target
  BY DEF Verdict, equity, peak
<1>4. ASSUME t = None PROVE want < 0 \/ Breached(s, p)
  <2> SUFFICES ASSUME ~ (want < 0), ~ LossBreached(peak, equity) PROVE FALSE
    BY DEF Breached, peak, equity
  <2>1. want \in Nat
    BY SMT
  <2>2. goal \in Nat
    BY <2>1, ClampBounds
  <2>3. t \in {goal, s.shares}
    BY <1>3 DEF CheckPretrade
  <2> QED
    BY <1>1, <1>4, <2>2, <2>3, NoneAssumption
<1>5. ASSUME t # None
      PROVE  /\ want \in Nat /\ t \in Nat /\ Clamp(t, p) = t
             /\ \/ t = goal
                \/ /\ t = s.shares /\ goal > s.shares
                   /\ s.cash + CashFlow("BUY", goal - s.shares, p) < 0
  <2>1. /\ t \in Nat
        /\ MaxPosition # None => t <= MaxPosition
        /\ MaxNotional # None => t * p <= MaxNotional
    BY <1>1, <1>2, <1>3, <1>5, VerdictBounds
  <2>2. Clamp(t, p) = t
    BY <2>1, ClampWithin
  <2>3. ~ (want < 0)
    BY <1>3, <1>5 DEF CheckPretrade
  <2>4. want \in Nat
    BY <2>3, SMT
  <2>5. goal \in Nat
    BY <2>4, ClampBounds
  <2> HIDE DEF goal
  <2>6. \/ t = goal
        \/ t = s.shares /\ goal > s.shares /\ (goal - s.shares) * p * Scale > s.cash
    BY <1>3, <1>5, <2>3 DEF CheckPretrade, goal
  <2>7. ASSUME goal > s.shares, (goal - s.shares) * p * Scale > s.cash
        PROVE  s.cash + CashFlow("BUY", goal - s.shares, p) < 0
    <3> DEFINE q == goal - s.shares
    <3>1. q \in Nat
      BY <1>1, <2>5, <2>7, SMT
    <3> HIDE DEF q
    <3>2. /\ CashFlow("BUY", q, p) \in Int /\ q * p * Scale \in Nat
          /\ CashFlow("BUY", q, p) <= - (q * p * Scale)
      BY <3>1, FillCosts
    <3>3. q * p * Scale > s.cash
      BY <2>7 DEF q
    <3>4. s.cash + CashFlow("BUY", q, p) < 0
      BY <1>1, <3>2, <3>3, SMT
    <3> QED
      BY <3>4 DEF q
  <2> QED
    BY <2>1, <2>2, <2>4, <2>6, <2>7
<1> QED
  BY <1>4, <1>5

\* A tick of the engine that does not kill ends within every limit.
LEMMA TickWithinLimits ==
  ASSUME NEW s \in PaperState, s.killed = "no", s.cash >= 0,
         NEW want \in Nat, NEW p \in Prices,
         NEW r, r = ApplyTick(s, want, p), r.killed = "no"
  PROVE  /\ r.cash >= 0
         /\ MaxPosition # None => r.shares <= MaxPosition
         /\ MaxNotional # None => r.shares * p <= MaxNotional
         /\ ~ LossBreached(r.peak, EquityAt(r.cash, r.shares, p))
<1>1. /\ r.shares = Clamp(want, p) /\ r.cash >= 0
      /\ ~ LossBreached(r.peak, EquityAt(r.cash, r.shares, p))
  BY TickEffect
<1> QED
  BY <1>1, ClampBounds

\* A tick of the rehearsal kills for "risk" exactly on a refusal with no target.
LEMMA DryTickEffect ==
  ASSUME NEW s \in PaperState, s.killed = "no", NEW want \in Int, NEW p \in Prices,
         NEW t, t = Verdict(s, want, p).target,
         NEW r, r = DryTick(s, want, p)
  PROVE  /\ r \in PaperState
         /\ t # None => /\ t \in Nat /\ r = ApplyTick(s, t, p) /\ r.killed # "risk"
                        /\ r.killed = "no" => r.shares = t
         /\ t = None => /\ r = [ApplyTick(s, s.shares, p) EXCEPT !.killed = "risk"]
                        /\ r.killed = "risk"
<1>1. CASE t # None
  <2>1. t \in Nat /\ Clamp(t, p) = t
    BY <1>1, VerdictCases
  <2>2. r = ApplyTick(s, t, p)
    BY <1>1 DEF DryTick
  <2>3. /\ r \in PaperState /\ r.killed # "risk"
        /\ r.killed = "no" => r.shares = Clamp(t, p)
    BY <2>1, <2>2, TickEffect
  <2> QED
    BY <1>1, <2>1, <2>2, <2>3
<1>2. CASE t = None
  <2> DEFINE a == ApplyTick(s, s.shares, p)
  <2>1. a \in PaperState
    BY StateFields, TickEffect
  <2>2. r = [a EXCEPT !.killed = "risk"]
    BY <1>2 DEF DryTick, HardKill
  <2> HIDE DEF a
  <2>3. r \in PaperState /\ r.killed = "risk"
    BY <2>1, <2>2 DEF PaperState, PaperKills
  <2> QED
    BY <1>2, <2>2, <2>3 DEF a
<1> QED
  BY <1>1, <1>2

\* On equal states, a tick that kills the rehearsal ends the paper session too,
\* and one that both survive leaves them equal.
LEMMA TicksAgree ==
  ASSUME NEW s \in PaperState, s.killed = "no", NEW want \in Int, NEW p \in Prices,
         NEW r, r = ApplyTick(s, want, p), want >= 0,
         NEW d, d = DryTick(s, want, p)
  PROVE  /\ d.killed # "no" => r.killed # "no"
         /\ d.killed = "no" /\ r.killed = "no" => d = r
<1> DEFINE t == Verdict(s, want, p).target
<1>0. want \in Nat /\ ~ (want < 0)
  BY SMT
<1> HIDE DEF t
<1>1. CASE t = None
  <2>1. Breached(s, p)
    BY <1>0, <1>1, VerdictCases DEF t
  <2>2. r.killed # "no"
    BY <1>0, <2>1, TickEffect
  <2>3. d.killed = "risk"
    BY <1>1, DryTickEffect DEF t
  <2> QED
    BY <2>2, <2>3
<1>2. CASE t # None
  <2>1. d = ApplyTick(s, t, p)
    BY <1>2, DryTickEffect DEF t
  <2>2. \/ t = Clamp(want, p)
        \/ /\ Clamp(want, p) > s.shares
           /\ s.cash + CashFlow("BUY", Clamp(want, p) - s.shares, p) < 0
    BY <1>2, VerdictCases DEF t
  <2>3. CASE t = Clamp(want, p)
    <3>1. d = r
      BY <1>0, <2>1, <2>3, ClampTwice DEF ApplyTick
    <3> QED
      BY <3>1
  <2>4. CASE /\ Clamp(want, p) > s.shares
             /\ s.cash + CashFlow("BUY", Clamp(want, p) - s.shares, p) < 0
    BY <1>0, <2>4, TickEffect
  <2> QED
    BY <2>2, <2>3, <2>4
<1> QED
  BY <1>1, <1>2

\* The loss limit is breached at a new mark only if that mark is lower for what
\* is held, so that a position within the caps stays within them.
LEMMA BreachKeepsCaps ==
  ASSUME NEW s \in PaperState, NEW m \in Prices, NEW p \in Prices,
         MaxPosition # None => s.shares <= MaxPosition,
         MaxNotional # None => s.shares * m <= MaxNotional,
         ~ LossBreached(s.peak, EquityAt(s.cash, s.shares, m)),
         Breached(s, p)
  PROVE  Clamp(s.shares, p) = s.shares
<1> DEFINE before == EquityAt(s.cash, s.shares, m)
           after  == EquityAt(s.cash, s.shares, p)
           a      == s.shares * m
           b      == s.shares * p
<1>1. /\ s.cash \in Int /\ s.shares \in Nat /\ s.shares \in Int /\ s.peak \in Int
      /\ m \in Nat /\ p \in Nat /\ Scale \in Nat
  BY StateFields, PricesAssumption, ScaleAssumption
<1>2. before \in Int /\ after \in Int
  BY <1>1, EquityInt
<1>3. a \in Nat /\ b \in Nat
  BY <1>1, ProductNat
<1>4. before = s.cash + a * Scale /\ after = s.cash + b * Scale
  BY DEF EquityAt
<1> HIDE DEF before, after, a, b
<1>5. MaxLoss # None /\ MaxLoss \in Nat /\ Larger(s.peak, after) - after > MaxLoss
  BY LimitsAssumption DEF Breached, LossBreached, after
<1>6. ~ (s.peak - before > MaxLoss)
  BY <1>5 DEF LossBreached, before
<1>7. after < before
  BY <1>1, <1>2, <1>5, <1>6, SMT DEF Larger
<1>8. b <= a
  <2> SUFFICES ASSUME b > a PROVE FALSE
    BY <1>3, SMT
  <2>1. a * Scale <= b * Scale /\ a * Scale \in Int /\ b * Scale \in Int
    BY <1>1, <1>3, SMT
  <2> QED
    BY <1>1, <1>4, <1>7, <2>1, SMT
<1>9. MaxNotional # None => s.shares * p <= MaxNotional
  <2> SUFFICES ASSUME MaxNotional # None PROVE b <= MaxNotional
    BY DEF b
  <2>1. MaxNotional \in Nat /\ a <= MaxNotional
    BY LimitsAssumption DEF a
  <2> QED
    BY <1>3, <1>8, <2>1, SMT
<1> QED
  BY <1>1, <1>9, ClampWithin

\* What the rehearsal holds after a hard refusal that a drawdown explains.
LEMMA HardRefusal ==
  ASSUME NEW s \in PaperState, s.killed = "no", NEW m \in Prices,
         MaxPosition # None => s.shares <= MaxPosition,
         MaxNotional # None => s.shares * m <= MaxNotional,
         ~ LossBreached(s.peak, EquityAt(s.cash, s.shares, m)),
         NEW want \in Int, NEW p \in Prices, FlattenOnKill \/ want \in Nat,
         NEW d, d = DryTick(s, want, p), d.killed = "risk",
         LossBreached(d.peak, EquityAt(d.cash, d.shares, p))
  PROVE  d.shares = IF FlattenOnKill THEN 0 ELSE s.shares
<1> DEFINE a == ApplyTick(s, s.shares, p)
           t == Verdict(s, want, p).target
<1>1. t = None
  BY DryTickEffect
<1>2. d = [a EXCEPT !.killed = "risk"]
  BY <1>1, DryTickEffect
<1>3. /\ a \in PaperState
      /\ a.killed = "no" => ~ LossBreached(a.peak, EquityAt(a.cash, a.shares, p))
      /\ a.killed # "no" /\ FlattenOnKill => a.shares = 0
      /\ ~ FlattenOnKill /\ Clamp(s.shares, p) = s.shares => a.shares = s.shares
  BY StateFields, TickEffect
<1> HIDE DEF a
<1>4. d.shares = a.shares /\ d.cash = a.cash /\ d.peak = a.peak
  BY <1>2, <1>3 DEF PaperState
<1>5. CASE FlattenOnKill
  BY <1>3, <1>4, <1>5
<1>6. CASE ~ FlattenOnKill
  <2>1. want \in Nat /\ ~ (want < 0)
    BY <1>6, SMT
  <2>2. Breached(s, p)
    BY <1>1, <2>1, VerdictCases
  <2>3. Clamp(s.shares, p) = s.shares
    BY <2>2, BreachKeepsCaps
  <2> QED
    BY <1>3, <1>4, <1>6, <2>3
<1> QED
  BY <1>5, <1>6

-----------------------------------------------------------------------------
(***************************************************************************)
(* The invariant.  Its parts lean on each other: what a hard refusal holds *)
(* is known because the caps held at the mark before, the rehearsal        *)
(* survives wherever the paper session does because their states are the   *)
(* same, and these stay the same because both clamp alike.                 *)
(***************************************************************************)
Alike == PaperRuns /\ DryRuns => paper = dry

DryKillIsPaperKill == ~ DryRuns => ~ PaperRuns

Inv ==
  /\ TypeOK
  /\ Alike /\ DryKillIsPaperKill
  /\ RunningWithinLimits /\ PaperKilledFlat
  /\ LogExplainsWhileRunning /\ HardKillHolds

LEMMA StartInv == Init => Inv
<1> SUFFICES ASSUME Init PROVE Inv
  OBVIOUS
<1>1. mark \in Prices
  BY PricesAssumption DEF Init
<1>2. TypeOK
  <2>1. InitialCash \in Int
    BY PaperAssumption, SMT
  <2>2. StartState \in PaperState
    BY <2>1, SMT DEF StartState, PaperState, PaperKills
  <2>3. logged \in Int /\ ticks \in Nat
    BY SMT DEF Init
  <2> QED
    BY <1>1, <2>2, <2>3 DEF Init, TypeOK
<1>3. Alike /\ DryKillIsPaperKill /\ LogExplainsWhileRunning /\ HardKillHolds
      /\ PaperKilledFlat
  BY DEF Init, StartState, Alike, DryKillIsPaperKill, LogExplainsWhileRunning,
         HardKillHolds, PaperKilledFlat, PaperRuns, DryRuns
<1>4. Within(StartState)
  <2>1. /\ InitialCash \in Nat /\ mark \in Nat /\ Scale \in Nat
        /\ 0 * mark = 0 /\ 0 * mark * Scale = 0
    BY <1>1, PricesAssumption, PaperAssumption, ScaleAssumption, SMT
  <2>2. EquityAt(InitialCash, 0, mark) = InitialCash
    BY <2>1, SMT DEF EquityAt
  <2>3. ~ LossBreached(InitialCash, InitialCash)
    BY <2>1, LimitsAssumption, SMT DEF LossBreached
  <2> QED
    BY <2>1, <2>2, <2>3, LimitsAssumption, SMT DEF Within, StartState
<1> QED
  BY <1>2, <1>3, <1>4 DEF Inv, RunningWithinLimits, Init

\* What a tick does to the paper session.
LEMMA PaperStepEffect ==
  ASSUME Inv, NEW want \in Targets, NEW p \in Prices, Tick(want, p)
  PROVE  /\ paper' \in PaperState /\ raised' \in BOOLEAN
         /\ ~ PaperRuns => ~ PaperRuns'
         /\ PaperRuns' => want \in Nat /\ PaperRuns /\ paper' = ApplyTick(paper, want, p)
         /\ PaperRuns' => Within(paper)'
         /\ PaperKilledFlat'
<1>1. /\ paper \in PaperState /\ raised \in BOOLEAN /\ want \in Int
      /\ mark' = p /\ PaperStep(want, p) /\ PaperKilledFlat
      /\ PaperRuns => Within(paper)
  BY BackendAssumption DEF Inv, TypeOK, Tick, RunningWithinLimits
<1>2. CASE ~ PaperRuns
  <2>1. paper' = paper /\ raised' = raised
    BY <1>1, <1>2 DEF PaperStep
  <2>2. ~ PaperRuns' /\ PaperKilledFlat'
    BY <1>1, <1>2, <2>1 DEF PaperRuns, PaperKilledFlat
  <2> QED
    BY <1>1, <1>2, <2>1, <2>2
<1>3. CASE PaperRuns /\ want < 0
  <2>1. raised' = TRUE /\ paper' = paper
    BY <1>1, <1>3 DEF PaperStep
  <2>2. ~ PaperRuns' /\ PaperKilledFlat'
    BY <1>1, <2>1 DEF PaperRuns, PaperKilledFlat
  <2> QED
    BY <1>1, <1>3, <2>1, <2>2
<1>4. CASE PaperRuns /\ ~ (want < 0)
  <2>1. want \in Nat
    BY <1>1, <1>4, SMT
  <2>2. paper' = ApplyTick(paper, want, p) /\ raised' = raised
    BY <1>1, <1>4 DEF PaperStep
  <2>3. paper.killed = "no" /\ paper.cash >= 0
    BY <1>1, <1>4 DEF PaperRuns, Within
  <2>4. /\ paper' \in PaperState
        /\ paper'.killed # "no" /\ FlattenOnKill => paper'.shares = 0
    BY <1>1, <2>1, <2>2, <2>3, TickEffect
  <2>5. PaperKilledFlat'
    BY <2>4 DEF PaperKilledFlat
  <2>6. ASSUME PaperRuns' PROVE Within(paper)'
    <3>1. paper'.killed = "no"
      BY <2>6 DEF PaperRuns
    <3>2. /\ paper'.cash >= 0
          /\ MaxPosition # None => paper'.shares <= MaxPosition
          /\ MaxNotional # None => paper'.shares * p <= MaxNotional
          /\ ~ LossBreached(paper'.peak, EquityAt(paper'.cash, paper'.shares, p))
      BY <1>1, <2>1, <2>2, <2>3, <3>1, TickWithinLimits
    <3> QED
      BY <1>1, <3>2 DEF Within
  <2> QED
    BY <1>1, <1>4, <2>1, <2>2, <2>4, <2>5, <2>6
<1> QED
  BY <1>2, <1>3, <1>4

\* What a tick does to the rehearsal; once it has ended, both have.
LEMMA DryStepEffect ==
  ASSUME Inv, NEW want \in Targets, NEW p \in Prices, Tick(want, p)
  PROVE  /\ DryRuns /\ dry' = DryTick(dry, want, p)
         /\ dry' \in PaperState /\ logged' \in Int
         /\ DryRuns' => Within(dry)'
         /\ LogExplainsWhileRunning' /\ HardKillHolds'
<1> DEFINE t == Verdict(dry, want, p).target
<1>1. /\ dry \in PaperState /\ want \in Int /\ mark \in Prices /\ mark' = p
      /\ DryStep(want, p) /\ logged \in Int
  BY BackendAssumption DEF Inv, TypeOK, Tick
<1>2. DryRuns
  BY DEF Inv, DryKillIsPaperKill, Tick
<1>3. dry.killed = "no" /\ logged = dry.shares /\ Within(dry)
  BY <1>2 DEF Inv, DryRuns, LogExplainsWhileRunning, RunningWithinLimits
<1>4. dry' = DryTick(dry, want, p)
  BY <1>1, <1>2 DEF DryStep
<1>5. logged' = logged + IF t = None THEN 0 ELSE t - dry.shares
  BY <1>1, <1>2 DEF DryStep, LoggedBy
<1> HIDE DEF t
<1>6. /\ dry' \in PaperState
      /\ t # None => /\ t \in Nat /\ dry' = ApplyTick(dry, t, p) /\ dry'.killed # "risk"
                     /\ dry'.killed = "no" => dry'.shares = t
      /\ t = None => dry'.killed = "risk"
  BY <1>1, <1>3, <1>4, DryTickEffect DEF t
<1>7. dry.shares \in Nat
  BY <1>1, StateFields
<1>8. logged' \in Int /\ (t # None => logged' = t) /\ (t = None => logged' = logged)
  BY <1>1, <1>3, <1>5, <1>6, <1>7, SMT
<1>9. LogExplainsWhileRunning'
  BY <1>6, <1>8 DEF LogExplainsWhileRunning, DryRuns
<1>10. ASSUME DryRuns' PROVE Within(dry)'
  <2>1. dry'.killed = "no" /\ t # None /\ dry.cash >= 0
    BY <1>3, <1>6, <1>10 DEF DryRuns, Within
  <2>2. /\ dry'.cash >= 0
        /\ MaxPosition # None => dry'.shares <= MaxPosition
        /\ MaxNotional # None => dry'.shares * p <= MaxNotional
        /\ ~ LossBreached(dry'.peak, EquityAt(dry'.cash, dry'.shares, p))
    BY <1>1, <1>3, <1>6, <2>1, TickWithinLimits
  <2> QED
    BY <1>1, <2>2 DEF Within
<1>11. HardKillHolds'
  <2> SUFFICES ASSUME FlattenOnKill \/ Targets \subseteq Nat, dry'.killed = "risk",
                      LossBreached(dry'.peak, EquityAt(dry'.cash, dry'.shares, p))
               PROVE  dry'.shares = IF FlattenOnKill THEN 0 ELSE logged'
    BY <1>1 DEF HardKillHolds
  <2>1. FlattenOnKill \/ want \in Nat
    OBVIOUS
  <2>2. /\ MaxPosition # None => dry.shares <= MaxPosition
        /\ MaxNotional # None => dry.shares * mark <= MaxNotional
        /\ ~ LossBreached(dry.peak, EquityAt(dry.cash, dry.shares, mark))
    BY <1>3 DEF Within
  <2>3. dry'.shares = IF FlattenOnKill THEN 0 ELSE dry.shares
    BY <1>1, <1>3, <1>4, <2>1, <2>2, HardRefusal
  <2>4. logged' = dry.shares
    BY <1>3, <1>6, <1>8
  <2> QED
    BY <2>3, <2>4
<1> QED
  BY <1>2, <1>4, <1>6, <1>8, <1>9, <1>10, <1>11

LEMMA TickKeepsInv ==
  ASSUME Inv, NEW want \in Targets, NEW p \in Prices, Tick(want, p)
  PROVE  Inv'
<1>1. /\ paper' \in PaperState /\ raised' \in BOOLEAN
      /\ PaperRuns' => want \in Nat /\ PaperRuns /\ paper' = ApplyTick(paper, want, p)
      /\ PaperRuns' => Within(paper)'
      /\ PaperKilledFlat'
  BY PaperStepEffect
<1>2. /\ DryRuns /\ dry' = DryTick(dry, want, p)
      /\ dry' \in PaperState /\ logged' \in Int
      /\ DryRuns' => Within(dry)'
      /\ LogExplainsWhileRunning' /\ HardKillHolds'
  BY DryStepEffect
<1>3. TypeOK'
  <2>1. ticks' \in Nat /\ mark' \in Prices
    BY SMT DEF Tick, Inv, TypeOK
  <2> QED
    BY <1>1, <1>2, <2>1 DEF TypeOK
<1>4. Alike' /\ DryKillIsPaperKill'
  <2> SUFFICES ASSUME PaperRuns' PROVE DryRuns' /\ paper' = dry'
    BY DEF Alike, DryKillIsPaperKill
  <2>1. want \in Nat /\ PaperRuns /\ paper' = ApplyTick(paper, want, p)
    BY <1>1
  <2>2. paper = dry /\ dry \in PaperState /\ dry.killed = "no"
    BY <1>2, <2>1 DEF Inv, Alike, DryRuns, TypeOK
  <2>3. want \in Int /\ want >= 0
    BY <2>1, SMT
  <2>4. /\ dry'.killed # "no" => paper'.killed # "no"
        /\ dry'.killed = "no" /\ paper'.killed = "no" => dry' = paper'
    BY <1>2, <2>1, <2>2, <2>3, TicksAgree
  <2>5. paper'.killed = "no"
    BY DEF PaperRuns
  <2> QED
    BY <2>4, <2>5 DEF DryRuns
<1> QED
  BY <1>1, <1>2, <1>3, <1>4 DEF Inv, RunningWithinLimits

LEMMA InvHolds == Spec => []Inv
<1>1. Inv /\ [Next]_vars => Inv'
  <2> SUFFICES ASSUME Inv, [Next]_vars PROVE Inv'
    OBVIOUS
  <2>1. CASE UNCHANGED vars
    BY <2>1 DEF vars, Inv, TypeOK, Alike, DryKillIsPaperKill, RunningWithinLimits,
                Within, PaperKilledFlat, LogExplainsWhileRunning, HardKillHolds,
                PaperRuns, DryRuns
  <2>2. CASE Ended
    BY <2>1, <2>2 DEF Ended
  <2>3. CASE \E want \in Targets, p \in Prices : Tick(want, p)
    BY <2>3, TickKeepsInv
  <2> QED
    BY <2>1, <2>2, <2>3 DEF Next
<1> QED
  BY <1>1, StartInv, PTL DEF Spec

-----------------------------------------------------------------------------
\* The states of both backends keep their shape: no tick sells short, and cash
\* stays an integer amount (paper/engine.py 37-83, live/execution.py 47-132).
THEOREM TypeCorrect == Spec => []TypeOK
<1>1. Inv => TypeOK
  BY DEF Inv
<1> QED
  BY <1>1, InvHolds, PTL

\* A rehearsal is the paper session to the cent until that one is killed: the
\* check's clamp, before the engine's own, changes no fill, and its refusals stop
\* nothing that the engine lets go on (live/execution.py).
THEOREM RehearsalIsExact == Spec => []Lockstep
<1>1. Inv => Lockstep
  BY DEF Inv, Alike, DryKillIsPaperKill, Lockstep
<1> QED
  BY <1>1, InvHolds, PTL

\* A session that goes on has no debt, and is within its position, notional and
\* loss limits at the last mark, also after the costs of its own fills.
THEOREM SurvivorsAreWithinLimits == Spec => []RunningWithinLimits
<1>1. Inv => RunningWithinLimits
  BY DEF Inv
<1> QED
  BY <1>1, InvHolds, PTL

\* A killed paper session that is to flatten holds nothing.
THEOREM KilledPaperIsFlat == Spec => []PaperKilledFlat
<1>1. Inv => PaperKilledFlat
  BY DEF Inv
<1> QED
  BY <1>1, InvHolds, PTL

\* The order log of a running rehearsal adds up to its position.
THEOREM LogAddsUp == Spec => []LogExplainsWhileRunning
<1>1. Inv => LogExplainsWhileRunning
  BY DEF Inv
<1> QED
  BY <1>1, InvHolds, PTL

\* A hard refusal for a drawdown holds the position for its tick, or sells all
\* of it: the tick the engine is still given clamps nothing away.
THEOREM HardRefusalHolds == Spec => []HardKillHolds
<1>1. Inv => HardKillHolds
  BY DEF Inv
<1> QED
  BY <1>1, InvHolds, PTL
=============================================================================
