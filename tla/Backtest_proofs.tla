-------------------------- MODULE Backtest_proofs ---------------------------
(***************************************************************************)
(* Invariants of Backtest for every set of bars, any length of a run, and  *)
(* all periods, thresholds, costs and caps.                                *)
(***************************************************************************)
EXTENDS Backtest, Shared_proofs

-----------------------------------------------------------------------------
(***************************************************************************)
(* The strategies: what a signal is, told from the closes up to its bar.   *)
(***************************************************************************)
LEMMA HistoryWindow ==
  ASSUME NEW closes \in Seq(Int), NEW i \in 1 .. Len(closes), NEW j \in 1 .. i,
         NEW n \in 1 .. j
  PROVE  /\ Len(SubSeq(closes, 1, i)) = i
         /\ SubSeq(SubSeq(closes, 1, i), j + 1 - n, j) = Window(closes, j, n)
<1> DEFINE h == SubSeq(closes, 1, i)
           m == j + 1 - n
<1>1. /\ closes \in [1 .. Len(closes) -> Int] /\ Len(closes) \in Nat
      /\ i \in Nat /\ j \in Nat /\ n \in Nat /\ i <= Len(closes)
      /\ 1 <= j /\ j <= i /\ 1 <= n /\ n <= j
  BY LenProperties
<1>2. /\ h \in Seq(Int) /\ Len(h) = i
      /\ \A k \in 1 .. i : h[k] = closes[k]
  <2>1. \A k \in 1 .. i : closes[k] \in Int
    BY <1>1
  <2>2. /\ h \in Seq(Int)
        /\ Len(h) = IF 1 <= i THEN i - 1 + 1 ELSE 0
        /\ \A k \in 1 .. i - 1 + 1 : h[k] = closes[1 + k - 1]
    BY <1>1, <2>1, SubSeqProperties
  <2> HIDE DEF h
  <2> QED
    BY <1>1, <2>2
<1> HIDE DEF h
<1>3. m \in Int /\ 1 <= m /\ m <= j /\ j - m + 1 = n
  BY <1>1
<1> HIDE DEF m
<1>4. /\ SubSeq(h, m, j) \in Seq(Int) /\ Len(SubSeq(h, m, j)) = n
      /\ \A k \in 1 .. n : SubSeq(h, m, j)[k] = h[m + k - 1]
  <2>1. \A k \in m .. j : h[k] \in Int
    BY <1>1, <1>2, <1>3
  <2>2. /\ SubSeq(h, m, j) \in Seq(Int)
        /\ Len(SubSeq(h, m, j)) = IF m <= j THEN j - m + 1 ELSE 0
        /\ \A k \in 1 .. j - m + 1 : SubSeq(h, m, j)[k] = h[m + k - 1]
    BY <1>1, <1>3, <2>1, SubSeqProperties
  <2> QED
    BY <1>3, <2>2
<1>5. /\ SubSeq(closes, m, j) \in Seq(Int) /\ Len(SubSeq(closes, m, j)) = n
      /\ \A k \in 1 .. n : SubSeq(closes, m, j)[k] = closes[m + k - 1]
  <2>1. \A k \in m .. j : closes[k] \in Int
    BY <1>1, <1>3
  <2>2. /\ SubSeq(closes, m, j) \in Seq(Int)
        /\ Len(SubSeq(closes, m, j)) = IF m <= j THEN j - m + 1 ELSE 0
        /\ \A k \in 1 .. j - m + 1 : SubSeq(closes, m, j)[k] = closes[m + k - 1]
    BY <1>1, <1>3, <2>1, SubSeqProperties
  <2> QED
    BY <1>3, <2>2
<1>6. ASSUME NEW k \in 1 .. n PROVE SubSeq(h, m, j)[k] = SubSeq(closes, m, j)[k]
  <2>1. m + k - 1 \in 1 .. i
    BY <1>1, <1>3
  <2> QED
    BY <1>2, <1>4, <1>5, <2>1
<1>7. SubSeq(h, m, j) = SubSeq(closes, m, j)
  BY <1>4, <1>5, <1>6, SeqEqual
<1> QED
  BY <1>2, <1>7 DEF h, m, Window

\* The bars whose close left the band, and the last of them.
Outside(closes, i) ==
  {j \in Lookback .. i : Beyond(Window(closes, j, Lookback)) # "no"}

LastOutside(closes, i) ==
  CHOOSE j \in Outside(closes, i) : \A k \in Outside(closes, i) : k <= j

Reverted(closes, i) ==
  IF /\ Outside(closes, i) # {}
     /\ Beyond(Window(closes, LastOutside(closes, i), Lookback)) = "below"
  THEN Target ELSE 0

Crossed(closes, i) ==
  IF i >= Slow /\ Slow * Total(Window(closes, i, Fast)) > Fast * Total(Window(closes, i, Slow))
  THEN Target ELSE 0

LEMMA LastIsOutside ==
  ASSUME NEW closes, NEW i \in Nat, Outside(closes, i) # {}
  PROVE  /\ LastOutside(closes, i) \in Outside(closes, i)
         /\ \A k \in Outside(closes, i) : k <= LastOutside(closes, i)
<1> DEFINE S == Outside(closes, i)
           T == {i - j : j \in S}
<1>1. S \subseteq Lookback .. i /\ Lookback \in Nat
  BY StrategiesAssumption DEF Outside
<1>2. T \subseteq 0 .. i /\ T # {}
  BY <1>1
<1>3. PICK d \in T : \A e \in T : d <= e
  <2> HIDE DEF T
  <2> QED
    BY <1>2, LeastElement
<1>4. PICK j \in S : d = i - j
  OBVIOUS
<1>5. \A k \in S : k <= j
  <2> SUFFICES ASSUME NEW k \in S PROVE k <= j
    OBVIOUS
  <2>1. i - k \in T
    OBVIOUS
  <2>2. d <= i - k
    BY <1>3, <2>1
  <2> QED
    BY <1>1, <1>4, <2>2
<1> QED
  BY <1>4, <1>5 DEF LastOutside

\* The definition of WishOf, in the windows of the whole run.
LEMMA WishInWindows ==
  ASSUME NEW closes \in Seq(Int), NEW i \in 1 .. Len(closes)
  PROVE  WishOf(SubSeq(closes, 1, i)) =
           IF strategy = "ma_crossover" THEN Crossed(closes, i) ELSE Reverted(closes, i)
<1> DEFINE h == SubSeq(closes, 1, i)
           left == {j \in Lookback .. Len(h) :
                      Beyond(SubSeq(h, j + 1 - Lookback, j)) # "no"}
           last == CHOOSE j \in left : \A k \in left : k <= j
<1>1. /\ Len(closes) \in Nat /\ i \in Nat /\ 1 <= i
      /\ Lookback \in Nat /\ Lookback >= 2
      /\ Fast \in Nat /\ Slow \in Nat /\ 1 <= Fast /\ Fast < Slow
  BY LenProperties, StrategiesAssumption
<1>2. Len(h) = i
  <2>1. i \in 1 .. i /\ 1 \in 1 .. i
    BY <1>1
  <2> QED
    BY <2>1, HistoryWindow
<1>3. WishOf(h) =
        IF strategy = "ma_crossover"
        THEN IF Len(h) >= Slow /\ Slow * Total(SubSeq(h, Len(h) + 1 - Fast, Len(h)))
                                    > Fast * Total(SubSeq(h, Len(h) + 1 - Slow, Len(h)))
             THEN Target ELSE 0
        ELSE IF left # {} /\ Beyond(SubSeq(h, last + 1 - Lookback, last)) = "below"
             THEN Target ELSE 0
  BY DEF WishOf
<1>4. ASSUME NEW j \in 1 .. i, NEW n \in 1 .. j
      PROVE  SubSeq(h, j + 1 - n, j) = Window(closes, j, n)
  BY HistoryWindow
<1>5. left = Outside(closes, i)
  <2>1. ASSUME NEW j \in Lookback .. i
        PROVE  SubSeq(h, j + 1 - Lookback, j) = Window(closes, j, Lookback)
    <3>1. j \in 1 .. i /\ Lookback \in 1 .. j
      BY <1>1
    <3> QED
      BY <1>4, <3>1
  <2>2. left = {j \in Lookback .. i : Beyond(SubSeq(h, j + 1 - Lookback, j)) # "no"}
    BY <1>2
  <2> HIDE DEF left, h
  <2> QED
    BY <2>1, <2>2 DEF Outside
<1>6. left # {} =>
        Beyond(SubSeq(h, last + 1 - Lookback, last)) =
          Beyond(Window(closes, LastOutside(closes, i), Lookback))
  <2>1. last = LastOutside(closes, i)
    BY <1>5 DEF LastOutside
  <2> HIDE DEF last, left
  <2> SUFFICES ASSUME left # {}
               PROVE  SubSeq(h, last + 1 - Lookback, last) = Window(closes, last, Lookback)
    BY <2>1
  <2>2. last \in Outside(closes, i)
    BY <1>1, <1>5, <2>1, LastIsOutside
  <2>3. last \in 1 .. i /\ Lookback \in 1 .. last
    BY <1>1, <2>2 DEF Outside
  <2> QED
    BY <1>4, <2>3
<1>7. i >= Slow => /\ SubSeq(h, i + 1 - Fast, i) = Window(closes, i, Fast)
                   /\ SubSeq(h, i + 1 - Slow, i) = Window(closes, i, Slow)
  <2> SUFFICES ASSUME i >= Slow PROVE i \in 1 .. i /\ Fast \in 1 .. i /\ Slow \in 1 .. i
    BY <1>4
  <2> QED
    BY <1>1
<1> SUFFICES WishOf(h) = IF strategy = "ma_crossover" THEN Crossed(closes, i)
                                                      ELSE Reverted(closes, i)
  OBVIOUS
<1> HIDE DEF h, left, last
<1>8. CASE strategy = "ma_crossover"
  <2>1. CASE i >= Slow
    BY <1>2, <1>3, <1>7, <1>8, <2>1 DEF Crossed
  <2>2. CASE ~ (i >= Slow)
    BY <1>2, <1>3, <1>8, <2>2 DEF Crossed
  <2> QED
    BY <2>1, <2>2
<1>9. CASE strategy # "ma_crossover"
  BY <1>3, <1>5, <1>6, <1>9 DEF Reverted
<1> QED
  BY <1>8, <1>9

LEMMA CrossoverIsWish ==
  ASSUME NEW closes \in Seq(Int), NEW i \in 1 .. Len(closes)
  PROVE  CrossoverSignals(closes)[i] = Crossed(closes, i)
  BY LenProperties DEF CrossoverSignals, Crossed

\* The mean reversion's wish at a bar, from that at the bar before.
Continued(closes, i, before) ==
  IF i < Lookback THEN 0
  ELSE IF Beyond(Window(closes, i, Lookback)) = "below" THEN Target
  ELSE IF Beyond(Window(closes, i, Lookback)) = "above" THEN 0
  ELSE before

LEMMA RevertedStart ==
  ASSUME NEW closes, NEW i \in Nat, i < Lookback
  PROVE  Reverted(closes, i) = 0
<1>1. Outside(closes, i) = {}
  BY StrategiesAssumption DEF Outside
<1> QED
  BY <1>1 DEF Reverted

LEMMA RevertedNext ==
  ASSUME NEW closes, NEW i \in Nat \ {0}
  PROVE  Reverted(closes, i) = Continued(closes, i, Reverted(closes, i - 1))
<1> DEFINE beyond == Beyond(Window(closes, i, Lookback))
<1>1. Lookback \in Nat /\ i \in Nat /\ i - 1 \in Nat
  BY StrategiesAssumption
<1>2. beyond \in {"no", "below", "above"}
  BY DEF Beyond
<1>3. CASE i < Lookback
  BY <1>3, RevertedStart DEF Continued
<1>4. CASE ~ (i < Lookback) /\ beyond = "no"
  <2>1. Outside(closes, i) = Outside(closes, i - 1)
    <3>1. ASSUME NEW j \in Lookback .. i, Beyond(Window(closes, j, Lookback)) # "no"
          PROVE  j \in Lookback .. i - 1
      <4>1. j # i
        BY <1>4, <3>1
      <4> QED
        BY <1>1, <4>1
    <3>2. Lookback .. i - 1 \subseteq Lookback .. i
      BY <1>1
    <3> QED
      BY <3>1, <3>2 DEF Outside
  <2>2. Reverted(closes, i) = Reverted(closes, i - 1)
    BY <2>1 DEF Reverted, LastOutside
  <2> QED
    BY <1>4, <2>2 DEF Continued
<1>5. CASE ~ (i < Lookback) /\ beyond # "no"
  <2>1. i \in Outside(closes, i)
    BY <1>1, <1>5 DEF Outside
  <2>2. /\ LastOutside(closes, i) \in Outside(closes, i)
        /\ i <= LastOutside(closes, i)
    BY <1>1, <2>1, LastIsOutside
  <2>3. LastOutside(closes, i) = i
    BY <1>1, <2>2 DEF Outside
  <2>4. Reverted(closes, i) = IF beyond = "below" THEN Target ELSE 0
    BY <2>1, <2>3 DEF Reverted
  <2> QED
    BY <1>2, <1>5, <2>4 DEF Continued
<1> QED
  BY <1>3, <1>4, <1>5

LEMMA ReversionIsWish ==
  ASSUME NEW closes \in Seq(Int), NEW i \in 1 .. Len(closes)
  PROVE  ReversionSignals(closes)[i] = Reverted(closes, i)
<1> DEFINE n == Len(closes)
           Rec(h) == h = [k \in 0 .. n |->
                            IF k < Lookback THEN 0
                            ELSE IF Beyond(Window(closes, k, Lookback)) = "below" THEN Target
                            ELSE IF Beyond(Window(closes, k, Lookback)) = "above" THEN 0
                            ELSE h[k - 1]]
           signal == CHOOSE h : Rec(h)
           f == [k \in 0 .. n |-> Reverted(closes, k)]
<1>1. n \in Nat /\ DOMAIN closes = 1 .. n /\ i \in 1 .. n /\ i \in 0 .. n
  BY LenProperties
<1>2. Lookback \in Nat /\ Lookback >= 2
  BY StrategiesAssumption
<1>3. ReversionSignals(closes)[i] = signal[i]
  BY <1>1 DEF ReversionSignals
<1>4. ASSUME NEW k \in 0 .. n PROVE f[k] = Continued(closes, k, f[k - 1])
  <2>1. CASE k = 0
    <3>1. k < Lookback /\ k \in Nat
      BY <1>2, <2>1
    <3> QED
      BY <3>1, RevertedStart DEF Continued
  <2>2. CASE k # 0
    <3>1. k \in Nat \ {0} /\ k - 1 \in 0 .. n
      BY <1>1, <2>2
    <3>2. f[k - 1] = Reverted(closes, k - 1)
      BY <3>1
    <3>3. Reverted(closes, k) = Continued(closes, k, Reverted(closes, k - 1))
      BY <3>1, RevertedNext
    <3> QED
      BY <3>2, <3>3
  <2> QED
    BY <2>1, <2>2
<1>5. Rec(f)
  BY <1>4 DEF Continued
<1>6. Rec(signal)
  <2> HIDE DEF Rec
  <2> QED
    BY <1>5
<1> HIDE DEF signal
<1>7. \A k \in 0 .. n : signal[k] = Continued(closes, k, signal[k - 1])
  BY <1>6 DEF Continued
<1> HIDE DEF f, n
<1> DEFINE T == {k \in 0 .. n : signal[k] # f[k]}
<1>8. T = {}
  <2> SUFFICES ASSUME T # {} PROVE FALSE
    OBVIOUS
  <2>1. PICK k \in T : \A j \in T : k <= j
    <3>1. T \subseteq 0 .. n
      OBVIOUS
    <3> HIDE DEF T
    <3> QED
      BY <1>1, <3>1, LeastElement
  <2>2. k \in 0 .. n /\ signal[k] # f[k]
    OBVIOUS
  <2>3. k # 0
    BY <1>2, <1>4, <1>7, <2>2 DEF Continued
  <2>4. k - 1 \in 0 .. n /\ ~ (k <= k - 1)
    BY <1>1, <2>2, <2>3
  <2>5. signal[k - 1] = f[k - 1]
    BY <2>1, <2>4
  <2> QED
    BY <1>4, <1>7, <2>2, <2>5
<1>9. signal[i] = f[i]
  BY <1>1, <1>8
<1> QED
  BY <1>1, <1>3, <1>9 DEF f

-----------------------------------------------------------------------------
(***************************************************************************)
(* The configuration of a run, and what may be wanted at a bar of it.      *)
(***************************************************************************)
ConfigOK ==
  /\ \/ engine = "backtest" /\ strategy \in Registry /\ latency \in {0, 1} /\ cap \in Caps
     \/ engine = "replay" /\ strategy \in TickStrategies /\ latency = 0 /\ cap = None
  /\ bars \in Seq(Bars) /\ Len(bars) <= MaxBars

\* None, and the clamped targets that are not refused.
Positions == {0} \cup {Clamped(wish) : wish \in {0, Target} \cap Nat}

LEMMA ConfigFacts ==
  ASSUME ConfigOK
  PROVE  /\ Len(bars) \in Nat /\ DOMAIN bars = 1 .. Len(bars)
         /\ \A i \in 1 .. Len(bars) : bars[i].open \in Prices /\ bars[i].close \in Prices
         /\ Closes \in Seq(Int) /\ Len(Closes) = Len(bars)
         /\ \A i \in 1 .. Len(bars) : Closes[i] = bars[i].close
         /\ Target \in Int /\ (cap = None \/ cap \in Int)
         /\ \A wish \in {0, Target} : Clamped(wish) \in Int
         /\ latency \in {0, 1}
<1>1. Len(bars) \in Nat /\ bars \in [1 .. Len(bars) -> Bars]
  BY LenProperties DEF ConfigOK
<1>2. ASSUME NEW i \in 1 .. Len(bars)
      PROVE  bars[i].open \in Prices /\ bars[i].close \in Prices
  <2>1. bars[i] \in Bars
    BY <1>1
  <2> QED
    BY <2>1, BacktestAssumption
<1>3. Closes = [i \in 1 .. Len(bars) |-> bars[i].close]
  BY <1>1 DEF Closes
<1>4. ASSUME NEW i \in 1 .. Len(bars) PROVE bars[i].close \in Int
  <2>1. bars[i].close \in Prices
    BY <1>2
  <2>2. ASSUME NEW p \in Prices PROVE p \in Int
    BY PricesAssumption
  <2> QED
    BY <2>1, <2>2
<1>5. Closes \in Seq(Int) /\ Len(Closes) = Len(bars)
  <2>1. Closes \in [1 .. Len(bars) -> Int]
    BY <1>3, <1>4
  <2> QED
    BY <1>1, <2>1, SMT
<1>6. Target \in Int /\ (cap = None \/ cap \in Int)
  BY StrategiesAssumption, BacktestAssumption DEF ConfigOK
<1> QED
  BY <1>1, <1>2, <1>3, <1>5, <1>6 DEF Clamped, ConfigOK

LEMMA WantedIsWish ==
  ASSUME ConfigOK, engine = "backtest", NEW i \in 1 .. Len(bars)
  PROVE  Wanted(i) = {WishOf(SubSeq(Closes, 1, i))}
<1>1. Closes \in Seq(Int) /\ i \in 1 .. Len(Closes)
  BY ConfigFacts
<1>2. strategy \in {"ma_crossover", "mean_reversion"}
  BY DEF ConfigOK, Registry
<1>3. CASE strategy = "ma_crossover"
  <2>1. WishOf(SubSeq(Closes, 1, i)) = CrossoverSignals(Closes)[i]
    BY <1>1, <1>3, WishInWindows, CrossoverIsWish
  <2> QED
    BY <1>3, <2>1 DEF Wanted
<1>4. CASE strategy = "mean_reversion"
  <2>1. WishOf(SubSeq(Closes, 1, i)) = ReversionSignals(Closes)[i]
    BY <1>1, <1>4, WishInWindows, ReversionIsWish
  <2> QED
    BY <1>4, <2>1 DEF Wanted
<1> QED
  BY <1>2, <1>3, <1>4

LEMMA WantedBounds ==
  ASSUME ConfigOK, NEW i \in 1 .. Len(bars)
  PROVE  Wanted(i) \subseteq {0, Target} /\ Wanted(i) # {}
<1>1. Closes \in Seq(Int) /\ i \in 1 .. Len(Closes)
  BY ConfigFacts
<1>2. CASE engine = "backtest"
  <2>1. WishOf(SubSeq(Closes, 1, i)) \in {0, Target}
    BY <1>1, WishInWindows DEF Crossed, Reverted
  <2> QED
    BY <1>2, <2>1, WantedIsWish
<1>3. CASE engine = "replay"
  <2>1. strategy \in {"flat", "buy_hold", "neural"}
    BY <1>3 DEF ConfigOK, TickStrategies
  <2> QED
    BY <2>1 DEF Wanted, ModelChoices
<1> QED
  BY <1>2, <1>3 DEF ConfigOK

-----------------------------------------------------------------------------
(***************************************************************************)
(* An order: the fill of it, and the book after it.                        *)
(***************************************************************************)
Fills == [side : {"BUY", "SELL"}, qty : Nat, price : Nat, bar : Nat, signal : Nat,
          notional : Nat \cup {None}, fee : Nat, cash : Nat, shares : Int]

Book == [cash : Nat, shares : Int, peak : Nat, fills : Seq(Fills)]

LEMMA OrderFacts ==
  ASSUME NEW b \in Book, NEW target \in Int, NEW price \in Prices
  PROVE  /\ Side(b, target) \in {"BUY", "SELL"} /\ Qty(b, target) \in Nat
         /\ Gross(b, target, price) \in Nat /\ FeeOf(b, target, price) \in Nat
         /\ ~ (target > b.shares) => FeeOf(b, target, price) <= Gross(b, target, price)
<1> DEFINE side == Side(b, target)
           qty  == Qty(b, target)
           x    == ExecPrice(side, price)
<1>1. side \in {"BUY", "SELL"} /\ qty \in Nat /\ b.shares \in Int /\ price \in Nat
  BY PricesAssumption DEF Book, Side, Qty
<1>2. x \in Nat
  BY <1>1, ExecPriceNat DEF Sides
<1>3. /\ Scale \in Nat /\ FeeBps \in Nat /\ Fee \in Nat /\ FeeBps <= Scale
  BY ScaleAssumption, FeeAssumption, BacktestAssumption, BacktestSaleAssumption
<1>4. Gross(b, target, price) = qty * x * Scale
  BY DEF Gross
<1>5. FeeOf(b, target, price) = IF engine = "replay" THEN qty * Fee * Scale
                                                      ELSE qty * x * FeeBps
  BY DEF FeeOf, FeeCash, FeeFor
<1>6. ~ (target > b.shares) => Fee <= x
  BY BacktestSaleAssumption DEF SalesPay, ExecPrice, Side
<1> HIDE DEF side, qty, x
<1>7. qty * x \in Nat /\ qty * x * Scale \in Nat
  BY <1>1, <1>2, <1>3, ProductNat
<1>8. qty * Fee \in Nat /\ qty * Fee * Scale \in Nat /\ qty * x * FeeBps \in Nat
  BY <1>1, <1>3, <1>7, ProductNat
<1>9. ASSUME ~ (target > b.shares)
      PROVE  FeeOf(b, target, price) <= Gross(b, target, price)
  <2>1. CASE engine = "replay"
    <3>1. qty * Fee <= qty * x
      BY <1>1, <1>2, <1>3, <1>6, <1>9, TimesGrows
    <3>2. qty * Fee * Scale <= qty * x * Scale
      BY <1>3, <1>7, <1>8, <3>1, TimesGrows
    <3> QED
      BY <1>4, <1>5, <2>1, <3>2
  <2>2. CASE engine # "replay"
    <3>1. qty * x * FeeBps <= qty * x * Scale
      BY <1>3, <1>7, TimesGrows
    <3> QED
      BY <1>4, <1>5, <2>2, <3>1
  <2> QED
    BY <2>1, <2>2
<1> QED
  BY <1>1, <1>4, <1>5, <1>7, <1>8, <1>9 DEF side, qty

LEMMA RebalancedFacts ==
  ASSUME NEW b \in Book, NEW wish \in Int, NEW price \in Prices, NEW signal \in Nat,
         next \in Nat, Clamped(wish) \in Int, Rebalanced(b, wish, price, signal) # None
  PROVE  LET r == Rebalanced(b, wish, price, signal)
         IN  /\ wish >= 0
             /\ r \in Book /\ r.shares = Clamped(wish) /\ r.peak = b.peak
             /\ r = b \/ (Clamped(wish) # b.shares /\ r = Traded(b, Clamped(wish), price, signal))
<1> DEFINE target == Clamped(wish)
           f == FillOf(b, target, price, signal)
           r == Rebalanced(b, wish, price, signal)
           gross == Gross(b, target, price)
           fee   == FeeOf(b, target, price)
           cash  == CashAfter(b, target, price)
<1>1. /\ ~ Refuses(b, wish, price)
      /\ r = IF target = b.shares THEN b ELSE Traded(b, target, price, signal)
  BY DEF Rebalanced
<1>2. wish >= 0 /\ (target > b.shares => ~ (gross + fee > b.cash))
  BY <1>1 DEF Refuses
<1>3. /\ Side(b, target) \in {"BUY", "SELL"} /\ Qty(b, target) \in Nat
      /\ gross \in Nat /\ fee \in Nat /\ (~ (target > b.shares) => fee <= gross)
  BY OrderFacts
<1>4. b.cash \in Nat /\ b.fills \in Seq(Fills) /\ b.peak \in Nat /\ b.shares \in Int
  BY DEF Book
<1>5. cash = IF target > b.shares THEN b.cash - (gross + fee) ELSE b.cash + (gross - fee)
  BY DEF CashAfter
<1>6. /\ f = [side |-> Side(b, target), qty |-> Qty(b, target), price |-> price,
              bar |-> next, signal |-> signal,
              notional |-> IF engine = "replay" THEN None ELSE gross,
              fee |-> fee, cash |-> cash, shares |-> target]
      /\ Traded(b, target, price, signal) =
           [b EXCEPT !.shares = target, !.fills = Append(@, f), !.cash = cash]
  BY DEF FillOf, Traded
<1>7. target \in Int /\ price \in Nat
  BY PricesAssumption
<1> HIDE DEF target, f, r, gross, fee, cash
<1>8. CASE target = b.shares
  BY <1>1, <1>2, <1>8 DEF target, r
<1>9. CASE target # b.shares
  <2>1. cash \in Nat
    BY <1>2, <1>3, <1>4, <1>5, <1>7
  <2>2. f \in Fills
    BY <1>3, <1>6, <1>7, <2>1 DEF Fills
  <2>3. Append(b.fills, f) \in Seq(Fills)
    BY <1>4, <2>2, AppendProperties
  <2>4. r = [cash |-> cash, shares |-> target, peak |-> b.peak,
             fills |-> Append(b.fills, f)]
    BY <1>1, <1>6, <1>9 DEF Book
  <2>5. r \in Book
    BY <1>4, <1>7, <2>1, <2>3, <2>4 DEF Book
  <2> QED
    BY <1>1, <1>2, <1>9, <2>4, <2>5 DEF target, r
<1> QED
  BY <1>8, <1>9

-----------------------------------------------------------------------------
(***************************************************************************)
(* The state of a run.  A target waits exactly when the next bar is not    *)
(* the first one and orders are filled at the open, and nothing has        *)
(* happened to the portfolio before the first bar.                         *)
(***************************************************************************)
Stages == {"run", "write", "over", "failed", "crashed"}
Waiting == [target : {0, Target}, signal : Nat]

StateOK ==
  /\ book \in Book /\ book.shares \in Positions
  /\ next \in 1 .. Len(bars) + 1 /\ pc \in Stages
  /\ curve \in Seq(Int) /\ Len(curve) = next - 1 /\ worst \in Nat
  /\ latency = 1 /\ next > 1 =>
       pending \in Waiting /\ pending # None /\ pending.signal = next - 1
  /\ latency = 0 \/ next = 1 => pending = None
  /\ next = 1 => /\ book.cash = InitialCash /\ book.shares = 0
                 /\ book.peak = InitialCash /\ worst = 0

\* The bundle: nothing of a backtest is written while it runs, and the fills
\* are written first.
BundleOK ==
  /\ files \in [TableNames -> Ages] /\ todo \in Seq(TableNames)
  /\ pc \in {"run", "write"} => todo # <<>>
  /\ engine = "backtest" =>
       /\ Len(todo) = Len(BacktestFiles) => todo = BacktestFiles
       /\ IF Len(todo) = Len(BacktestFiles)
          THEN files["equity"] = "none" /\ files["manifest"] = "none"
          ELSE files["fills"] = "new"
       /\ Len(todo) <= Len(BacktestFiles)
       /\ pc \in {"run", "failed"} => Len(todo) = Len(BacktestFiles)
       /\ pc \in {"write", "over", "crashed"} => next = Len(bars) + 1 /\ Len(bars) > 0

Inv == ConfigOK /\ StateOK /\ BundleOK

\* The book after an order at this price for this signal.
Executes(b, wish, price, signal) ==
  /\ wish >= 0
  /\ b \in Book /\ b.shares = Clamped(wish) /\ b.peak = book.peak
  /\ \/ b = book
     \/ /\ Clamped(wish) # book.shares
        /\ b = Traded(book, Clamped(wish), price, signal)

\* What can happen to a run at a bar: it fails, or the strategy's target is
\* filled at the close, or there is no target yet, or the target that waits is
\* filled at the open.
Fails == pc' = "failed" /\ UNCHANGED <<next, book, pending, curve, worst>>

FillsAtClose(b, want) ==
  /\ latency = 0 /\ want \in Wanted(next) /\ Executes(b, want, bars[next].close, next)
  /\ Close(b) /\ UNCHANGED pending

StartsWaiting(want) ==
  /\ latency = 1 /\ next = 1 /\ want \in Wanted(next)
  /\ Close(book) /\ pending' = [target |-> want, signal |-> next]

FillsAtOpen(b, want) ==
  /\ latency = 1 /\ next > 1 /\ want \in Wanted(next)
  /\ Executes(b, pending.target, bars[next].open, next - 1)
  /\ Close(b) /\ pending' = [target |-> want, signal |-> next]

LEMMA TargetsInt == \A wish \in {0, Target} : wish \in Int
  BY StrategiesAssumption

LEMMA BarCases ==
  ASSUME Inv, Bar
  PROVE  \/ Fails
         \/ \E b, want : FillsAtClose(b, want)
         \/ \E want : StartsWaiting(want)
         \/ \E b, want : FillsAtOpen(b, want)
<1>1. /\ book \in Book /\ next \in Nat /\ next \in 1 .. Len(bars) /\ Len(bars) \in Nat
      /\ \A wish \in {0, Target} : Clamped(wish) \in Int
      /\ bars[next].close \in Prices /\ bars[next].open \in Prices
  <2>1. Len(bars) \in Nat /\ next \in 1 .. Len(bars)
    BY ConfigFacts DEF Inv, StateOK, Bar
  <2> QED
    BY <2>1, ConfigFacts DEF Inv, StateOK
<1>2. Wanted(next) \subseteq {0, Target} /\ \A wish \in {0, Target} : wish \in Int
  BY <1>1, WantedBounds, TargetsInt DEF Inv
<1>3. CASE AtClose
  <2>1. latency = 0
    BY <1>3 DEF AtClose
  <2>2. PICK want \in Wanted(next) :
          LET b == Rebalanced(book, want, bars[next].close, next)
          IN  Refused(b) \/ (Close(b) /\ UNCHANGED pending)
    BY <1>3 DEF AtClose
  <2> DEFINE b == Rebalanced(book, want, bars[next].close, next)
  <2>3. CASE Refused(b)
    BY <2>3 DEF Refused, Fails
  <2>4. CASE Close(b) /\ UNCHANGED pending
    <3>1. b # None
      BY <2>4 DEF Close
    <3>2. Executes(b, want, bars[next].close, next)
      BY <1>1, <1>2, <3>1, RebalancedFacts DEF Executes
    <3> HIDE DEF b
    <3>3. FillsAtClose(b, want)
      BY <2>1, <2>4, <3>2 DEF FillsAtClose
    <3> QED
      BY <3>3
  <2> QED
    BY <2>2, <2>3, <2>4
<1>4. CASE AtNextOpen
  <2>1. latency = 1
    BY <1>4 DEF AtNextOpen
  <2>2. CASE Refused(Opened)
    BY <2>2 DEF Refused, Fails
  <2>3. ASSUME NEW want \in Wanted(next), Close(Opened),
               pending' = [target |-> want, signal |-> next]
        PROVE  (\E w : StartsWaiting(w)) \/ (\E b, w : FillsAtOpen(b, w))
    <3>1. CASE next = 1
      <4>1. Opened = book
        BY <3>1 DEF Opened, Inv, StateOK
      <4>2. StartsWaiting(want)
        BY <2>1, <2>3, <3>1, <4>1 DEF StartsWaiting
      <4> QED
        BY <4>2
    <3>2. CASE next # 1
      <4>1. /\ next > 1 /\ pending # None /\ pending.signal = next - 1
            /\ pending.target \in {0, Target} /\ next - 1 \in Nat
        BY <1>1, <2>1, <3>2 DEF Inv, StateOK, Waiting
      <4> DEFINE b == Rebalanced(book, pending.target, bars[next].open, next - 1)
      <4>2. Opened = b
        BY <4>1 DEF Opened
      <4>3. b # None
        BY <2>3, <4>2 DEF Close
      <4>4. pending.target \in {0, Target} /\ pending.target \in Int
        BY <4>1, TargetsInt
      <4>5. Executes(b, pending.target, bars[next].open, next - 1)
        BY <1>1, <4>1, <4>3, <4>4, RebalancedFacts DEF Executes
      <4> HIDE DEF b
      <4>6. FillsAtOpen(b, want)
        BY <2>1, <2>3, <4>1, <4>2, <4>5 DEF FillsAtOpen
      <4> QED
        BY <4>6
    <3> QED
      BY <3>1, <3>2
  <2> QED
    BY <1>4, <2>2, <2>3 DEF AtNextOpen
<1> QED
  BY <1>3, <1>4 DEF Bar

\* The mark at the close of a bar, of the book b that the bar's order left.
Mark == Equity(book', bars[next].close)

Peaked(peak) == IF Mark > peak THEN Mark ELSE peak

LEMMA CloseFacts ==
  ASSUME ConfigOK, StateOK, next \in 1 .. Len(bars),
         NEW b \in Book, b.peak = book.peak, Close(b)
  PROVE  /\ Mark = Equity(b, bars[next].close) /\ Mark \in Int
         /\ book' \in Book /\ book'.shares = b.shares /\ book'.cash = b.cash
         /\ book'.fills = b.fills /\ book'.peak = Peaked(book.peak)
         /\ curve' = Append(curve, Mark)
         /\ worst' = (IF book'.peak - Mark > worst THEN book'.peak - Mark ELSE worst)
         /\ worst' \in Nat /\ next' = next + 1 /\ pc' = pc
<1> DEFINE p == bars[next].close
           e == Equity(b, p)
           m == Marked(b, p)
<1>1. p \in Int
  <2>1. p \in Prices
    BY ConfigFacts
  <2>2. ASSUME NEW q \in Prices PROVE q \in Int
    BY PricesAssumption
  <2> HIDE DEF p
  <2> QED
    BY <2>1, <2>2
<1>2. b.cash \in Nat /\ b.shares \in Int /\ b.peak \in Nat /\ b.fills \in Seq(Fills)
  BY DEF Book
<1>3. e \in Int
  <2>1. Scale \in Int
    BY ScaleAssumption
  <2> HIDE DEF p
  <2>2. b.shares * p * Scale * Scale \in Int
    BY <1>1, <1>2, <2>1
  <2> QED
    BY <1>2, <2>2 DEF Equity
<1>4. m = [b EXCEPT !.peak = IF e > b.peak THEN e ELSE b.peak]
  BY DEF Marked
<1> DEFINE peak == IF e > b.peak THEN e ELSE b.peak
<1>5. m = [cash |-> b.cash, shares |-> b.shares, peak |-> peak, fills |-> b.fills]
  <2> HIDE DEF m, e
  <2> QED
    BY <1>4 DEF Book
<1>6. peak \in Nat
  <2> HIDE DEF e
  <2> QED
    BY <1>2, <1>3
<1>7. Equity(m, p) = e
  <2> HIDE DEF m, peak
  <2> QED
    BY <1>5 DEF Equity
<1>8. /\ book' = m /\ curve' = Append(curve, Equity(m, p))
      /\ worst' = IF m.peak - Equity(m, p) > worst THEN m.peak - Equity(m, p) ELSE worst
      /\ next' = next + 1 /\ pc' = pc
  BY DEF Close
<1>9. Mark = e
  BY <1>7, <1>8 DEF Mark
<1>10. m \in Book
  <2> HIDE DEF m, peak
  <2> QED
    BY <1>2, <1>5, <1>6 DEF Book
<1>11. m.peak = peak /\ m.cash = b.cash /\ m.shares = b.shares /\ m.fills = b.fills
  <2> HIDE DEF m, peak
  <2> QED
    BY <1>5
<1>12. book'.peak = Peaked(book.peak)
  BY <1>8, <1>9, <1>11 DEF Peaked
<1> HIDE DEF m, e, p, peak
<1>13. worst' \in Nat
  <2>1. worst \in Nat
    BY DEF StateOK
  <2> QED
    BY <1>3, <1>6, <1>7, <1>8, <1>11, <2>1
<1> QED
  BY <1>3, <1>7, <1>8, <1>9, <1>10, <1>11, <1>12, <1>13 DEF e, p

LEMMA ExecutesInPosition ==
  ASSUME NEW b, NEW wish \in {0, Target}, NEW price, NEW signal,
         Executes(b, wish, price, signal)
  PROVE  b.shares \in Positions
<1>1. wish \in Nat /\ b.shares = Clamped(wish)
  BY TargetsInt DEF Executes
<1> QED
  BY <1>1 DEF Positions

LEMMA TableNamesFacts ==
  /\ "fills" \in TableNames /\ "equity" \in TableNames
  /\ "manifest" \in TableNames /\ "metrics" \in TableNames
<1>1. /\ 1 \in DOMAIN BacktestFiles /\ 2 \in DOMAIN BacktestFiles
      /\ 3 \in DOMAIN BacktestFiles /\ 4 \in DOMAIN BacktestFiles
      /\ BacktestFiles[1] = "fills" /\ BacktestFiles[2] = "equity"
      /\ BacktestFiles[3] = "manifest" /\ BacktestFiles[4] = "metrics"
  BY DEF BacktestFiles
<1> QED
  BY <1>1 DEF TableNames, ToSet

LEMMA InvInit == Init => Inv
<1> SUFFICES ASSUME Init PROVE Inv
  OBVIOUS
<1>1. ConfigOK
  <2>1. PICK m \in 0 .. MaxBars : bars \in [1 .. m -> Bars]
    BY DEF Init, BoundedSeq, SeqOf
  <2>2. m \in Nat /\ m <= MaxBars
    BY BacktestAssumption
  <2>3. bars \in Seq(Bars) /\ Len(bars) = m
    BY <2>1, <2>2, SMT
  <2> QED
    BY <2>2, <2>3 DEF Init, ConfigOK
<1>2. StateOK
  <2>1. book = [cash |-> InitialCash, shares |-> 0, peak |-> InitialCash, fills |-> <<>>]
    BY DEF Init
  <2>2. InitialCash \in Nat
    BY BacktestAssumption
  <2>3. <<>> \in Seq(Fills) /\ <<>> \in Seq(Int) /\ Len(<<>>) = 0
    OBVIOUS
  <2>4. book \in Book
    BY <2>1, <2>2, <2>3 DEF Book
  <2>5. 1 \in 1 .. Len(bars) + 1 /\ 0 \in Positions
    BY <1>1, ConfigFacts DEF Positions
  <2>6. /\ next = 1 /\ pending = None /\ curve = <<>> /\ worst = 0 /\ pc = "run"
        /\ book.cash = InitialCash /\ book.shares = 0 /\ book.peak = InitialCash
    BY <2>1 DEF Init
  <2>7. curve \in Seq(Int) /\ Len(curve) = next - 1
    BY <2>3, <2>6
  <2> QED
    BY <2>4, <2>5, <2>6, <2>7 DEF StateOK, Stages
<1>3. BundleOK
  <2>1. PICK older \in Older :
          files = [f \in TableNames |-> IF f \in ToSet(older) THEN "old" ELSE "none"]
    BY DEF Init
  <2>2. files \in [TableNames -> Ages] /\ todo = Bundle /\ pc = "run"
    <3>1. todo = Bundle /\ pc = "run"
      BY DEF Init
    <3>2. \A f \in TableNames : (IF f \in ToSet(older) THEN "old" ELSE "none") \in Ages
      BY DEF Ages
    <3> QED
      BY <2>1, <3>1, <3>2
  <2>3. /\ BacktestFiles # <<>> /\ ReplayFiles # <<>>
        /\ DOMAIN BacktestFiles = 1 .. Len(BacktestFiles)
        /\ DOMAIN ReplayFiles = 1 .. Len(ReplayFiles)
        /\ Len(BacktestFiles) = 4
    BY DEF BacktestFiles, ReplayFiles
  <2>4. Bundle \in Seq(TableNames)
    <3> DEFINE names == {"fills", "sim_fills", "equity", "manifest", "metrics"}
    <3>1. BacktestFiles \in Seq(names) /\ ReplayFiles \in Seq(names)
      BY DEF BacktestFiles, ReplayFiles
    <3> HIDE DEF names
    <3>2. Bundle \in Seq(names) /\ (Bundle = BacktestFiles \/ Bundle = ReplayFiles)
      BY <3>1 DEF Bundle
    <3>3. DOMAIN Bundle = 1 .. Len(Bundle) /\ Len(Bundle) \in Nat
      BY <3>2
    <3>4. \A i \in 1 .. Len(Bundle) : Bundle[i] \in TableNames
      BY <3>2, <3>3 DEF ToSet, TableNames
    <3> HIDE DEF Bundle
    <3>5. Bundle \in [1 .. Len(Bundle) -> TableNames]
      <4>1. Bundle = [i \in 1 .. Len(Bundle) |-> Bundle[i]]
        BY <3>2
      <4> QED
        BY <3>4, <4>1
    <3> QED
      BY <3>3, <3>5
  <2>5. engine = "backtest" =>
          todo = BacktestFiles /\ files["equity"] = "none" /\ files["manifest"] = "none"
    <3> SUFFICES ASSUME engine = "backtest"
                 PROVE  /\ todo = BacktestFiles
                        /\ files["equity"] = "none" /\ files["manifest"] = "none"
      OBVIOUS
    <3>1. Bundle = BacktestFiles /\ older = <<>>
      BY DEF Bundle, Older
    <3>2. "equity" \in TableNames /\ "manifest" \in TableNames
      BY TableNamesFacts
    <3>3. ToSet(older) = {}
      BY <3>1 DEF ToSet
    <3> QED
      BY <2>1, <2>2, <3>1, <3>2, <3>3
  <2>6. todo # <<>> /\ todo \in Seq(TableNames)
    BY <2>2, <2>3, <2>4 DEF Bundle
  <2>7. engine = "backtest" =>
          /\ Len(todo) = 4
          /\ pc \notin {"write", "over", "crashed"}
    BY <2>2, <2>3, <2>5
  <2>8. Len(todo) <= Len(BacktestFiles) \/ engine # "backtest"
    <3>1. BacktestFiles \in Seq(TableNames) \/ engine # "backtest"
      BY <2>4 DEF Bundle
    <3>2. Len(BacktestFiles) \in Nat \/ engine # "backtest"
      BY <3>1, LenProperties
    <3>3. Len(todo) = Len(BacktestFiles) \/ engine # "backtest"
      BY <2>3, <2>7
    <3>4. \A n \in Nat : n <= n
      OBVIOUS
    <3> QED
      BY <3>2, <3>3, <3>4
  <2>9. engine = "backtest" =>
       /\ Len(todo) = Len(BacktestFiles) => todo = BacktestFiles
       /\ IF Len(todo) = Len(BacktestFiles)
          THEN files["equity"] = "none" /\ files["manifest"] = "none"
          ELSE files["fills"] = "new"
       /\ Len(todo) <= Len(BacktestFiles)
       /\ pc \in {"run", "failed"} => Len(todo) = Len(BacktestFiles)
       /\ pc \in {"write", "over", "crashed"} => next = Len(bars) + 1 /\ Len(bars) > 0
    BY <2>3, <2>5, <2>7, <2>8
  <2> QED
    BY <2>2, <2>6, <2>9 DEF BundleOK
<1> QED
  BY <1>1, <1>2, <1>3 DEF Inv

\* A bar, or its failure, leaves the files alone, and a run that has no bar to
\* come has had them all.
LEMMA BarKeeps ==
  ASSUME Inv, Bar
  PROVE  /\ next \in 1 .. Len(bars) /\ Len(bars) \in Nat
         /\ UNCHANGED <<engine, strategy, latency, cap, bars, files, todo>>
         /\ pc = "run"
<1>1. Len(bars) \in Nat
  BY ConfigFacts DEF Inv
<1> QED
  BY <1>1 DEF Inv, StateOK, Bar, config

LEMMA SameConfig ==
  ASSUME ConfigOK, UNCHANGED <<engine, strategy, latency, cap, bars>>
  PROVE  ConfigOK' /\ Positions' = Positions
  BY DEF ConfigOK, Positions, Clamped

LEMMA BundleIdle ==
  ASSUME BundleOK, UNCHANGED <<engine, files, todo>>, pc = "run", pc' \in {"run", "failed"}
  PROVE  BundleOK'
<1>1. Bundle' = Bundle
  BY DEF Bundle
<1> QED
  BY <1>1 DEF BundleOK

LEMMA InvFails ==
  ASSUME Inv, Bar, Fails
  PROVE  Inv'
<1>1. ConfigOK' /\ Positions' = Positions
  BY BarKeeps, SameConfig DEF Inv
<1>2. StateOK'
  <2>1. StateOK /\ UNCHANGED <<next, book, pending, curve, worst, bars, latency>>
        /\ pc' = "failed"
    BY BarKeeps DEF Inv, Fails
  <2> QED
    BY <1>1, <2>1 DEF StateOK, Stages
<1>3. BundleOK'
  BY BarKeeps, BundleIdle DEF Inv, Fails
<1> QED
  BY <1>1, <1>2, <1>3 DEF Inv

\* A bar that is closed, with the target that it leaves waiting.
LEMMA InvCloses ==
  ASSUME Inv, Bar, NEW b \in Book, b.peak = book.peak, b.shares \in Positions, Close(b),
         \/ latency = 0 /\ UNCHANGED pending
         \/ latency = 1 /\ \E want \in Wanted(next) :
                             pending' = [target |-> want, signal |-> next]
  PROVE  Inv'
<1>1. ConfigOK' /\ Positions' = Positions
  BY BarKeeps, SameConfig DEF Inv
<1>2. /\ next \in 1 .. Len(bars) /\ Len(bars) \in Nat /\ pc = "run"
      /\ UNCHANGED <<latency, bars, engine, files, todo>>
  BY BarKeeps
<1>3. /\ Mark \in Int /\ book' \in Book /\ book'.shares = b.shares
      /\ curve' = Append(curve, Mark) /\ worst' \in Nat
      /\ next' = next + 1 /\ pc' = pc
  BY <1>2, CloseFacts DEF Inv
<1>4. next' \in 1 .. Len(bars) + 1 /\ next' > 1 /\ next' - 1 = next /\ next \in Nat
  BY <1>2, <1>3
<1>5. curve' \in Seq(Int) /\ Len(curve') = next' - 1
  <2>1. curve \in Seq(Int) /\ Len(curve) = next - 1
    BY DEF Inv, StateOK
  <2>2. Append(curve, Mark) \in Seq(Int) /\ Len(Append(curve, Mark)) = Len(curve) + 1
    BY <1>3, <2>1, AppendProperties
  <2> QED
    BY <1>2, <1>3, <1>4, <2>1, <2>2
<1>6. latency = 1 =>
        pending' \in Waiting /\ pending' # None /\ pending'.signal = next' - 1
  <2> SUFFICES ASSUME latency = 1
               PROVE  /\ pending' \in Waiting /\ pending' # None
                      /\ pending'.signal = next' - 1
    OBVIOUS
  <2>1. PICK want \in Wanted(next) : pending' = [target |-> want, signal |-> next]
    OBVIOUS
  <2>2. want \in {0, Target}
    BY <1>2, WantedBounds DEF Inv
  <2>3. next \in 1 .. MaxBars
    BY <1>2, BacktestAssumption DEF Inv, ConfigOK
  <2>4. pending' # None
    BY <2>1, <2>2, <2>3, BacktestAssumption
  <2> QED
    BY <1>4, <2>1, <2>2, <2>4 DEF Waiting
<1>7. latency = 0 => pending' = None
  BY DEF Inv, StateOK
<1>8. StateOK'
  <2>1. book'.shares \in Positions'
    BY <1>1, <1>3
  <2>2. latency' = latency /\ pc' \in Stages /\ next' # 1 /\ bars' = bars
    BY <1>2, <1>3, <1>4 DEF Stages
  <2> QED
    BY <1>3, <1>4, <1>5, <1>6, <1>7, <2>1, <2>2 DEF StateOK
<1>9. BundleOK'
  BY <1>2, <1>3, BundleIdle DEF Inv
<1> QED
  BY <1>1, <1>8, <1>9 DEF Inv

LEMMA InvBar ==
  ASSUME Inv, Bar
  PROVE  Inv'
<1>1. /\ next \in 1 .. Len(bars) /\ ConfigOK /\ book \in Book /\ book.shares \in Positions
  BY BarKeeps DEF Inv, StateOK
<1>2. CASE Fails
  BY <1>2, InvFails
<1>3. ASSUME NEW b, NEW want, FillsAtClose(b, want) PROVE Inv'
  <2>1. /\ latency = 0 /\ UNCHANGED pending /\ Close(b) /\ want \in Wanted(next)
        /\ Executes(b, want, bars[next].close, next) /\ b \in Book /\ b.peak = book.peak
    BY <1>3 DEF FillsAtClose, Executes
  <2>2. want \in {0, Target}
    BY <1>1, <2>1, WantedBounds
  <2>3. b.shares \in Positions
    BY <2>1, <2>2, ExecutesInPosition
  <2> QED
    BY <2>1, <2>3, InvCloses
<1>4. ASSUME NEW want, StartsWaiting(want) PROVE Inv'
  <2>1. /\ latency = 1 /\ Close(book) /\ want \in Wanted(next)
        /\ pending' = [target |-> want, signal |-> next]
    BY <1>4 DEF StartsWaiting
  <2> QED
    BY <1>1, <2>1, InvCloses
<1>5. ASSUME NEW b, NEW want, FillsAtOpen(b, want) PROVE Inv'
  <2>1. /\ latency = 1 /\ next > 1 /\ Close(b) /\ want \in Wanted(next)
        /\ pending' = [target |-> want, signal |-> next]
        /\ Executes(b, pending.target, bars[next].open, next - 1)
        /\ b \in Book /\ b.peak = book.peak
    BY <1>5 DEF FillsAtOpen, Executes
  <2>2. pending.target \in {0, Target}
    BY <2>1 DEF Inv, StateOK, Waiting
  <2>3. b.shares \in Positions
    BY <2>1, <2>2, ExecutesInPosition
  <2> QED
    BY <2>1, <2>3, InvCloses
<1> QED
  BY <1>2, <1>3, <1>4, <1>5, BarCases

LEMMA InvFinish ==
  ASSUME Inv, Finish
  PROVE  Inv'
<1>1. /\ UNCHANGED <<engine, strategy, latency, cap, bars, next, book, pending, curve,
                     worst, files, todo>>
      /\ pc = "run" /\ pc' = IF bars = <<>> /\ engine = "backtest" THEN "failed" ELSE "write"
      /\ next > Len(bars)
  BY DEF Finish, config, run
<1>2. ConfigOK' /\ Positions' = Positions
  BY <1>1, SameConfig DEF Inv
<1>3. StateOK'
  <2>1. StateOK /\ pc' \in Stages
    BY <1>1 DEF Inv, Stages
  <2> QED
    BY <1>1, <1>2, <2>1 DEF StateOK
<1>4. pc' = "write" /\ engine = "backtest" => next = Len(bars) + 1 /\ Len(bars) > 0
  <2>1. Len(bars) \in Nat /\ bars \in Seq(Bars) /\ next \in 1 .. Len(bars) + 1
    BY ConfigFacts DEF Inv, StateOK, ConfigOK
  <2>2. next = Len(bars) + 1
    BY <1>1, <2>1
  <2>3. pc' = "write" /\ engine = "backtest" => bars # <<>>
    BY <1>1
  <2>4. bars # <<>> => Len(bars) # 0
    BY <2>1, EmptySeq
  <2> QED
    BY <2>1, <2>2, <2>3, <2>4
<1>5. BundleOK'
  <2>1. Bundle' = Bundle /\ BundleOK /\ pc' \in {"write", "failed"}
    BY <1>1 DEF Bundle, Inv
  <2> QED
    BY <1>1, <1>4, <2>1 DEF BundleOK
<1> QED
  BY <1>2, <1>3, <1>5 DEF Inv

\* The files of a run that is over, or is being read.
LEMMA InvFiles ==
  ASSUME Inv, UNCHANGED <<config, run>>, pc' \in Stages, BundleOK'
  PROVE  Inv'
<1>1. UNCHANGED <<engine, strategy, latency, cap, bars, next, book, pending, curve, worst>>
  BY DEF config, run
<1>2. ConfigOK' /\ Positions' = Positions
  BY <1>1, SameConfig DEF Inv
<1>3. StateOK'
  BY <1>1, <1>2 DEF Inv, StateOK
<1> QED
  BY <1>2, <1>3 DEF Inv

LEMMA InvWriteFile ==
  ASSUME Inv, WriteFile
  PROVE  Inv'
<1>1. /\ UNCHANGED <<config, run>> /\ pc = "write" /\ pc' \in {"write", "over"}
      /\ files' = [files EXCEPT ![Head(todo)] = "new"] /\ todo' = Tail(todo)
      /\ pc' = "write" => todo' # <<>>
  BY DEF WriteFile
<1>2. UNCHANGED <<engine, bars, next>> /\ Bundle' = Bundle
  BY <1>1 DEF config, run, Bundle
<1>3. /\ files \in [TableNames -> Ages] /\ todo \in Seq(TableNames) /\ todo # <<>>
  BY <1>1 DEF Inv, BundleOK
<1>4. Head(todo) \in TableNames /\ Tail(todo) \in Seq(TableNames)
      /\ Len(Tail(todo)) = Len(todo) - 1 /\ Len(todo) \in Nat
  BY <1>3, HeadTailProperties, LenProperties
<1>5. files' \in [TableNames -> Ages]
  BY <1>1, <1>3 DEF Ages
<1>6. engine = "backtest" =>
        /\ Len(todo') < Len(BacktestFiles) /\ Len(BacktestFiles) \in Nat
        /\ Len(todo') \in Nat
        /\ files'["fills"] = "new"
        /\ next = Len(bars) + 1 /\ Len(bars) > 0
  <2> SUFFICES ASSUME engine = "backtest"
               PROVE  /\ Len(todo') < Len(BacktestFiles) /\ Len(BacktestFiles) \in Nat
                      /\ Len(todo') \in Nat
                      /\ files'["fills"] = "new"
                      /\ next = Len(bars) + 1 /\ Len(bars) > 0
    OBVIOUS
  <2>1. /\ Len(todo) <= Len(BacktestFiles)
        /\ Len(todo) = Len(BacktestFiles) => todo = BacktestFiles
        /\ Len(todo) # Len(BacktestFiles) => files["fills"] = "new"
        /\ next = Len(bars) + 1 /\ Len(bars) > 0
    BY <1>1 DEF Inv, BundleOK
  <2>2. /\ Len(BacktestFiles) \in Nat /\ Head(BacktestFiles) = "fills"
        /\ "fills" \in TableNames
    <3>1. Len(BacktestFiles) \in Nat /\ Head(BacktestFiles) = "fills"
      BY DEF BacktestFiles
    <3> QED
      BY <3>1, TableNamesFacts
  <2>3. files'["fills"] = "new"
    BY <1>1, <1>3, <2>1, <2>2
  <2>4. Len(todo') < Len(BacktestFiles) /\ Len(todo') \in Nat
    <3>1. Len(Tail(todo)) \in Nat
      BY <1>4, LenProperties
    <3> QED
      BY <1>1, <1>4, <2>1, <2>2, <3>1
  <2> QED
    BY <2>1, <2>2, <2>3, <2>4
<1>7. BundleOK'
  <2>1. todo' \in Seq(TableNames) /\ pc' \notin {"run", "failed"}
    BY <1>1, <1>4
  <2>2. engine = "backtest" => Len(todo') # Len(BacktestFiles)
                               /\ Len(todo') <= Len(BacktestFiles)
    BY <1>6
  <2> QED
    BY <1>1, <1>2, <1>5, <1>6, <2>1, <2>2 DEF BundleOK
<1>8. pc' \in Stages
  BY <1>1 DEF Stages
<1> QED
  BY <1>1, <1>7, <1>8, InvFiles

LEMMA InvCrash ==
  ASSUME Inv, Crash
  PROVE  Inv'
<1>1. /\ UNCHANGED <<config, run, files, todo>> /\ pc = "write" /\ pc' = "crashed"
      /\ UNCHANGED <<engine, bars, next>>
  BY DEF Crash, config, run
<1>2. BundleOK'
  <2>1. Bundle' = Bundle
    BY <1>1 DEF Bundle
  <2> QED
    BY <1>1, <2>1 DEF Inv, BundleOK
<1>3. pc' \in Stages
  BY <1>1 DEF Stages
<1> QED
  BY <1>1, <1>2, <1>3, InvFiles

LEMMA InvReport ==
  ASSUME Inv, Report
  PROVE  Inv'
<1>1. /\ UNCHANGED <<config, run, pc, todo>> /\ UNCHANGED <<engine, bars, next>>
      /\ files' = [files EXCEPT !["metrics"] = "new"]
  BY DEF Report, config, run
<1>2. BundleOK'
  <2>1. Bundle' = Bundle
    BY <1>1 DEF Bundle
  <2>2. BundleOK
    BY DEF Inv
  <2>3. files' \in [TableNames -> Ages]
    BY <1>1, <2>2 DEF BundleOK, Ages
  <2>4. /\ files'["equity"] = files["equity"] /\ files'["manifest"] = files["manifest"]
        /\ files'["fills"] = files["fills"]
    BY <1>1, <2>2, TableNamesFacts DEF BundleOK
  <2> QED
    BY <1>1, <2>1, <2>2, <2>3, <2>4 DEF BundleOK
<1>3. pc' \in Stages
  BY <1>1 DEF Inv, StateOK
<1> QED
  BY <1>1, <1>2, <1>3, InvFiles

LEMMA InvStutters ==
  ASSUME Inv, UNCHANGED vars
  PROVE  Inv'
<1>1. /\ UNCHANGED <<config, run, pc, files, todo>> /\ UNCHANGED <<engine, bars, next>>
  BY DEF vars, config, run
<1>2. BundleOK'
  <2>1. Bundle' = Bundle
    BY <1>1 DEF Bundle
  <2> QED
    BY <1>1, <2>1 DEF Inv, BundleOK
<1>3. pc' \in Stages
  BY <1>1 DEF Inv, StateOK
<1> QED
  BY <1>1, <1>2, <1>3, InvFiles

LEMMA InvNext == Inv /\ [Next]_vars => Inv'
<1> SUFFICES ASSUME Inv, [Next]_vars PROVE Inv'
  OBVIOUS
<1> QED
  BY InvBar, InvFinish, InvWriteFile, InvCrash, InvReport, InvStutters DEF Next, Ended

LEMMA Invariance == Spec => []Inv
  BY InvInit, InvNext, PTL DEF Spec

\* No run trades on credit or holds anything but a clamped target, and it has a
\* point of the equity curve for every bar it has had.
THEOREM TypeCorrect == Spec => []TypeOK
<1>1. Inv => TypeOK
  <2> SUFFICES ASSUME Inv PROVE TypeOK
    OBVIOUS
  <2>1. /\ engine \in {"backtest", "replay"} /\ strategy \in Registry \cup TickStrategies
        /\ latency \in {0, 1}
    BY DEF Inv, ConfigOK
  <2>2. book.cash \in Nat /\ book.peak \in Nat
    BY DEF Inv, StateOK, Book
  <2>3. book.shares \in {0} \cup {Clamped(wish) : wish \in {0, Target} \cap Nat}
    BY DEF Inv, StateOK, Positions
  <2>4. pending = None \/ pending.signal = next - 1
    <3>1. next > 1 \/ next = 1
      BY ConfigFacts DEF Inv, StateOK
    <3> QED
      BY <2>1, <3>1 DEF Inv, StateOK
  <2>5. \A f \in TableNames : files[f] \in Ages
    BY DEF Inv, BundleOK
  <2> QED
    BY <2>1, <2>2, <2>3, <2>4, <2>5 DEF Inv, StateOK, Stages, TypeOK
<1> QED
  BY <1>1, Invariance, PTL

-----------------------------------------------------------------------------
(***************************************************************************)
(* A step closes a bar, or leaves the run as it was.                       *)
(***************************************************************************)
Rests == UNCHANGED <<engine, strategy, latency, cap, bars, next, book, pending, curve, worst>>

LEMMA StepCases ==
  ASSUME Inv, [Next]_vars
  PROVE  \/ Rests
         \/ /\ Bar
            /\ \/ \E b, want : FillsAtClose(b, want)
               \/ \E want : StartsWaiting(want)
               \/ \E b, want : FillsAtOpen(b, want)
<1>1. CASE Bar
  <2>1. Fails => Rests
    BY <1>1, BarKeeps DEF Fails, Rests
  <2> QED
    BY <1>1, <2>1, BarCases
<1>2. CASE Finish \/ WriteFile \/ Crash \/ Report \/ UNCHANGED vars
  BY <1>2 DEF Finish, WriteFile, Crash, Report, vars, config, run, Rests
<1> QED
  BY <1>1, <1>2 DEF Next, Ended

\* What an order that did not raise adds to the fills.
LEMMA Filled ==
  ASSUME Inv, Bar, NEW b, NEW wish \in {0, Target}, NEW price \in Prices, NEW signal \in Nat,
         Executes(b, wish, price, signal)
  PROVE  \/ b = book
         \/ \E f \in Fills :
              /\ b.fills = Append(book.fills, f)
              /\ f.bar = next /\ f.signal = signal /\ f.price = price
              /\ f.cash = b.cash /\ f.shares = b.shares /\ b.shares # book.shares
              /\ f.side = IF b.shares > book.shares THEN "BUY" ELSE "SELL"
              /\ engine = "backtest" =>
                   /\ f.notional \in Nat
                   /\ b.cash = IF b.shares > book.shares
                               THEN book.cash - (f.notional + f.fee)
                               ELSE book.cash + (f.notional - f.fee)
<1> DEFINE target == Clamped(wish)
           f == FillOf(book, target, price, signal)
           cash == CashAfter(book, target, price)
<1>1. book \in Book /\ next \in Nat /\ b \in Book
  BY BarKeeps DEF Inv, StateOK, Executes
<1>2. target \in Int /\ price \in Nat
  BY ConfigFacts, PricesAssumption DEF Inv
<1>3. /\ Side(book, target) \in {"BUY", "SELL"} /\ Qty(book, target) \in Nat
      /\ Gross(book, target, price) \in Nat /\ FeeOf(book, target, price) \in Nat
  BY <1>1, <1>2, OrderFacts
<1> SUFFICES ASSUME b = Traded(book, target, price, signal), target # book.shares
             PROVE  /\ f \in Fills /\ b.fills = Append(book.fills, f)
                    /\ f.bar = next /\ f.signal = signal /\ f.price = price
                    /\ f.cash = b.cash /\ f.shares = b.shares /\ b.shares # book.shares
                    /\ f.side = IF b.shares > book.shares THEN "BUY" ELSE "SELL"
                    /\ engine = "backtest" =>
                         /\ f.notional \in Nat
                         /\ b.cash = IF b.shares > book.shares
                                     THEN book.cash - (f.notional + f.fee)
                                     ELSE book.cash + (f.notional - f.fee)
  BY DEF Executes
<1>4. f = [side |-> Side(book, target), qty |-> Qty(book, target), price |-> price,
           bar |-> next, signal |-> signal,
           notional |-> IF engine = "replay" THEN None ELSE Gross(book, target, price),
           fee |-> FeeOf(book, target, price), cash |-> cash, shares |-> target]
  BY DEF FillOf
<1>5. b = [book EXCEPT !.shares = target, !.fills = Append(@, f), !.cash = cash]
  BY DEF Traded
<1>6. Side(book, target) = (IF target > book.shares THEN "BUY" ELSE "SELL")
      /\ cash = IF target > book.shares
                THEN book.cash - (Gross(book, target, price) + FeeOf(book, target, price))
                ELSE book.cash + (Gross(book, target, price) - FeeOf(book, target, price))
  BY DEF Side, CashAfter
<1> HIDE DEF target, f, cash
<1>7. b.cash = cash /\ b.shares = target /\ b.fills = Append(book.fills, f)
  BY <1>1, <1>5 DEF Book
<1>8. cash \in Nat
  BY <1>1, <1>7 DEF Book
<1>9. f \in Fills
  BY <1>1, <1>2, <1>3, <1>4, <1>8 DEF Fills
<1> QED
  BY <1>3, <1>4, <1>6, <1>7, <1>9

-----------------------------------------------------------------------------
(***************************************************************************)
(* No lookahead: what is wanted at a bar, from the closes up to it, and    *)
(* the position that follows it.                                           *)
(***************************************************************************)
Wishes ==
  [i \in 1 .. Len(bars) |->
     IF strategy = "ma_crossover" THEN Crossed(Closes, i) ELSE Reverted(Closes, i)]

LEMMA WishesFacts ==
  ASSUME ConfigOK, NEW i \in 1 .. Len(bars)
  PROVE  /\ WishOf(SubSeq(Closes, 1, i)) = Wishes[i]
         /\ engine = "backtest" => Wanted(i) = {Wishes[i]}
         /\ Wishes[i] \in {0, Target}
<1>1. Closes \in Seq(Int) /\ i \in 1 .. Len(Closes)
  BY ConfigFacts
<1>2. WishOf(SubSeq(Closes, 1, i)) = Wishes[i]
  BY <1>1, WishInWindows DEF Wishes
<1>3. Wishes[i] \in {0, Target}
  BY DEF Wishes, Crossed, Reverted
<1> QED
  BY <1>2, <1>3, WantedIsWish

FillsOK ==
  \A k \in DOMAIN book.fills :
    /\ book.fills[k].bar = book.fills[k].signal + latency
    /\ book.fills[k].price = IF latency = 0 THEN bars[book.fills[k].signal].close
                             ELSE bars[book.fills[k].signal + 1].open

PositionOK ==
  engine = "backtest" =>
    /\ next - 1 - latency >= 1 => book.shares = Clamped(Wishes[next - 1 - latency])
    /\ latency = 1 /\ next > 1 => pending.target = Wishes[next - 1]

Looks == FillsOK /\ PositionOK

LEMMA LooksInit == Init => Looks
<1> SUFFICES ASSUME Init PROVE Looks
  OBVIOUS
<1>1. book.fills = <<>> /\ next = 1 /\ latency \in {0, 1}
  BY DEF Init
<1>2. FillsOK
  BY <1>1 DEF FillsOK
<1>3. PositionOK
  BY <1>1 DEF PositionOK
<1> QED
  BY <1>2, <1>3 DEF Looks

LEMMA LooksRests ==
  ASSUME Looks, Rests
  PROVE  Looks'
<1>1. Wishes' = Wishes
  BY DEF Rests, Wishes, Closes
<1> QED
  BY <1>1 DEF Rests, Looks, FillsOK, PositionOK, Clamped

\* The fills after an order at a price that its signal's bar allows.
LEMMA FillsNext ==
  ASSUME Inv, FillsOK, Bar, NEW b, NEW wish \in {0, Target}, NEW price \in Prices,
         NEW signal \in Nat, Executes(b, wish, price, signal), book'.fills = b.fills,
         next = signal + latency,
         price = IF latency = 0 THEN bars[signal].close ELSE bars[signal + 1].open
  PROVE  FillsOK'
<1>1. latency' = latency /\ bars' = bars
  BY BarKeeps
<1>2. CASE b = book
  BY <1>1, <1>2 DEF FillsOK
<1>3. CASE b # book
  <2>1. PICK f \in Fills : /\ b.fills = Append(book.fills, f)
                           /\ f.bar = next /\ f.signal = signal /\ f.price = price
    BY <1>3, Filled
  <2>2. book.fills \in Seq(Fills)
    BY DEF Inv, StateOK, Book
  <2>3. ASSUME NEW k \in DOMAIN book'.fills
        PROVE  \/ k \in DOMAIN book.fills /\ book'.fills[k] = book.fills[k]
               \/ book'.fills[k] = f
    BY <2>1, <2>2, AppendProperties
  <2> QED
    BY <1>1, <2>1, <2>3 DEF FillsOK
<1> QED
  BY <1>2, <1>3

LEMMA LooksNext ==
  ASSUME Inv, Looks, [Next]_vars
  PROVE  Looks'
<1> USE DEF Looks
<1>0. Bar => /\ UNCHANGED <<engine, strategy, latency, cap, bars>>
             /\ Wishes' = Wishes /\ latency \in {0, 1}
             /\ next \in 1 .. Len(bars) /\ Len(bars) \in Nat
             /\ bars[next].close \in Prices /\ bars[next].open \in Prices
             /\ ConfigOK /\ book \in Book /\ StateOK
  <2>1. Bar => UNCHANGED <<engine, strategy, latency, cap, bars>>
    BY BarKeeps
  <2>2. Bar => Wishes' = Wishes
    BY <2>1 DEF Wishes, Closes
  <2>3. Bar => next \in 1 .. Len(bars)
    BY BarKeeps
  <2> QED
    BY <2>1, <2>2, <2>3, ConfigFacts DEF Inv, StateOK
<1>1. ASSUME Bar, NEW b, NEW want, FillsAtClose(b, want) PROVE Looks'
  <2>1. /\ latency = 0 /\ Close(b) /\ want \in Wanted(next) /\ b \in Book
        /\ Executes(b, want, bars[next].close, next)
        /\ b.shares = Clamped(want) /\ b.peak = book.peak
    BY <1>1 DEF FillsAtClose, Executes
  <2>2. book'.shares = b.shares /\ book'.fills = b.fills /\ next' = next + 1
    BY <1>0, <1>1, <2>1, CloseFacts
  <2>3. want \in {0, Target}
    BY <1>0, <1>1, <2>1, WantedBounds
  <2>4. FillsOK'
    <3>1. next \in Nat /\ next = next + latency
      BY <1>0, <1>1, <2>1
    <3> QED
      BY <1>0, <1>1, <2>1, <2>2, <2>3, <3>1, FillsNext
  <2>5. PositionOK'
    <3>1. next' - 1 - latency = next
      BY <1>0, <1>1, <2>1, <2>2
    <3>2. engine = "backtest" => want = Wishes[next]
      BY <1>0, <1>1, <2>1, WishesFacts
    <3> QED
      BY <1>0, <1>1, <2>1, <2>2, <3>1, <3>2 DEF PositionOK, Clamped
  <2> QED
    BY <2>4, <2>5
<1>2. ASSUME Bar, NEW want, StartsWaiting(want) PROVE Looks'
  <2>1. /\ latency = 1 /\ next = 1 /\ Close(book) /\ want \in Wanted(next)
        /\ pending' = [target |-> want, signal |-> next]
    BY <1>2 DEF StartsWaiting
  <2>2. book'.shares = book.shares /\ book'.fills = book.fills /\ next' = next + 1
    BY <1>0, <1>2, <2>1, CloseFacts
  <2>3. FillsOK'
    BY <1>0, <1>2, <2>2 DEF FillsOK
  <2>4. PositionOK'
    <3>1. ~ (next' - 1 - latency >= 1) /\ next' - 1 = next
      BY <1>0, <1>2, <2>1, <2>2
    <3>2. engine = "backtest" => want = Wishes[next]
      BY <1>0, <1>2, <2>1, WishesFacts
    <3> QED
      BY <1>0, <1>2, <2>1, <2>2, <3>1, <3>2 DEF PositionOK
  <2> QED
    BY <2>3, <2>4
<1>3. ASSUME Bar, NEW b, NEW want, FillsAtOpen(b, want) PROVE Looks'
  <2>1. /\ latency = 1 /\ next > 1 /\ Close(b) /\ want \in Wanted(next) /\ b \in Book
        /\ pending' = [target |-> want, signal |-> next]
        /\ Executes(b, pending.target, bars[next].open, next - 1)
        /\ b.shares = Clamped(pending.target) /\ b.peak = book.peak
    BY <1>3 DEF FillsAtOpen, Executes
  <2>2. book'.shares = b.shares /\ book'.fills = b.fills /\ next' = next + 1
    BY <1>0, <1>3, <2>1, CloseFacts
  <2>3. pending.target \in {0, Target}
    BY <1>0, <1>3, <2>1 DEF StateOK, Waiting
  <2>4. FillsOK'
    <3>1. next - 1 \in Nat /\ next = (next - 1) + latency /\ (next - 1) + 1 = next
      BY <1>0, <1>3, <2>1
    <3> QED
      BY <1>0, <1>3, <2>1, <2>2, <2>3, <3>1, FillsNext
  <2>5. PositionOK'
    <3>1. next' - 1 - latency = next - 1 /\ next' - 1 = next
      BY <1>0, <1>3, <2>1, <2>2
    <3>2. engine = "backtest" => want = Wishes[next]
      BY <1>0, <1>3, <2>1, WishesFacts
    <3>3. engine = "backtest" => pending.target = Wishes[next - 1]
      BY <2>1 DEF PositionOK
    <3> QED
      BY <1>0, <1>3, <2>1, <2>2, <3>1, <3>2, <3>3 DEF PositionOK, Clamped
  <2> QED
    BY <2>4, <2>5
<1> QED
  BY <1>1, <1>2, <1>3, LooksRests, StepCases

\* No signal knows a later bar than its own: the position is what the strategy
\* wants of the closes up to then, and every fill is at that close or at the
\* open after it.
THEOREM NoLookaheadEver == Spec => []NoLookahead
<1>1. Inv /\ Looks => NoLookahead
  <2> SUFFICES ASSUME Inv, Looks, engine = "backtest" PROVE NoLookahead
    BY DEF NoLookahead
  <2> DEFINE known == next - 1 - latency
  <2>1. known >= 1 => book.shares = Clamped(WishOf(SubSeq(Closes, 1, known)))
    <3> SUFFICES ASSUME known >= 1
                 PROVE  book.shares = Clamped(WishOf(SubSeq(Closes, 1, known)))
      OBVIOUS
    <3>1. book.shares = Clamped(Wishes[known])
      BY DEF Looks, PositionOK
    <3>2. known \in 1 .. Len(bars)
      BY ConfigFacts DEF Inv, StateOK
    <3> HIDE DEF known
    <3>3. WishOf(SubSeq(Closes, 1, known)) = Wishes[known]
      BY <3>2, WishesFacts DEF Inv
    <3> QED
      BY <3>1, <3>3
  <2>2. FillsOK
    BY DEF Looks
  <2> QED
    BY <2>1, <2>2 DEF NoLookahead, FillsOK
<1>2. Inv /\ Looks /\ [Next]_vars => Looks'
  BY LooksNext
<1> QED
  BY <1>1, <1>2, LooksInit, Invariance, PTL DEF Spec

-----------------------------------------------------------------------------
(***************************************************************************)
(* The round trips of the fills, and the cash where no shares were held.   *)
(* An order to sell leaves no shares, because a cap that is not negative   *)
(* leaves two positions.                                                   *)
(***************************************************************************)
Explains(trips, flat, cash) ==
  /\ trips \in Trips /\ flat \in Seq(Int) /\ Len(flat) = Len(trips.pnls) + 1
  /\ \A k \in 1 .. Len(trips.pnls) : trips.pnls[k] = flat[k + 1] - flat[k]
  /\ trips.entry = flat[Len(flat)] - cash

\* A fill that opens a trip, and one that closes it.
Opens(f, cash) == f.side = "BUY" /\ f.shares # 0 /\ f.cash = cash - (f.notional + f.fee)
Shuts(f, cash) == f.side = "SELL" /\ f.shares = 0 /\ f.cash = cash + (f.notional - f.fee)

LEMMA TurnExplains ==
  ASSUME NEW t, NEW c, NEW cash \in Int, Explains(t, c, cash), NEW f \in BrokerFills,
         Opens(f, cash) \/ Shuts(f, cash)
  PROVE  Explains(Turn[t][f], Settled[c][f], f.cash)
<1>1. /\ t \in Trips /\ t.pnls \in Seq(Int) /\ t.entry \in Int
      /\ t = [pnls |-> t.pnls, entry |-> t.entry]
      /\ c \in Seq(Int) /\ Len(c) = Len(t.pnls) + 1
      /\ \A k \in 1 .. Len(t.pnls) : t.pnls[k] = c[k + 1] - c[k]
      /\ t.entry = c[Len(c)] - cash
  BY DEF Explains, Trips
<1>2. f.notional \in Int /\ f.fee \in Int /\ f.cash \in Int
  BY DEF BrokerFills
<1>3. Len(c) \in Nat /\ Len(t.pnls) \in Nat /\ Len(c) \in 1 .. Len(c)
      /\ c[Len(c)] \in Int
  <2>1. Len(c) \in Nat /\ Len(t.pnls) \in Nat
    BY <1>1, LenProperties
  <2>2. Len(c) > 0
    BY <1>1, <2>1
  <2> QED
    BY <1>1, <2>1, <2>2, LastOfSeq
<1>4. Settled[c][f] = IF f.shares = 0 THEN Append(c, f.cash) ELSE c
  BY <1>1 DEF Settled
<1>5. CASE Opens(f, cash)
  <2>1. Turn[t][f] = [t EXCEPT !.entry = @ + f.notional + f.fee]
    BY <1>1, <1>5 DEF Turn, Opens
  <2>2. /\ Turn[t][f] = [pnls |-> t.pnls, entry |-> t.entry + f.notional + f.fee]
        /\ Turn[t][f].pnls = t.pnls /\ Turn[t][f].entry = t.entry + f.notional + f.fee
    BY <1>1, <2>1
  <2>3. Turn[t][f] \in Trips
    BY <1>1, <1>2, <2>2 DEF Trips
  <2>4. Settled[c][f] = c /\ f.cash = cash - (f.notional + f.fee)
    BY <1>4, <1>5 DEF Opens
  <2>5. t.entry + f.notional + f.fee = c[Len(c)] - f.cash
    BY <1>1, <1>2, <1>3, <2>4
  <2> QED
    BY <1>1, <2>2, <2>3, <2>4, <2>5 DEF Explains
<1>6. CASE Shuts(f, cash)
  <2> DEFINE pnl == f.notional - f.fee - t.entry
             s   == Append(t.pnls, pnl)
             d   == Append(c, f.cash)
  <2>1. Turn[t][f] = [pnls |-> s, entry |-> 0]
    BY <1>1, <1>6 DEF Turn, Shuts
  <2>2. pnl \in Int /\ pnl = f.cash - c[Len(c)]
    BY <1>1, <1>2, <1>3, <1>6 DEF Shuts
  <2> HIDE DEF pnl
  <2>3. /\ s \in Seq(Int) /\ Len(s) = Len(t.pnls) + 1 /\ s[Len(t.pnls) + 1] = pnl
        /\ \A k \in 1 .. Len(t.pnls) : s[k] = t.pnls[k]
    BY <1>1, <2>2, AppendProperties
  <2>4. /\ d \in Seq(Int) /\ Len(d) = Len(c) + 1 /\ d[Len(c) + 1] = f.cash
        /\ \A k \in 1 .. Len(c) : d[k] = c[k]
    BY <1>1, <1>2, AppendProperties
  <2> HIDE DEF s, d
  <2>5. ASSUME NEW k \in 1 .. Len(s) PROVE s[k] = d[k + 1] - d[k]
    <3>1. CASE k \in 1 .. Len(t.pnls)
      <4>1. k \in 1 .. Len(c) /\ k + 1 \in 1 .. Len(c)
        BY <1>1, <1>3, <3>1
      <4> QED
        BY <1>1, <2>3, <2>4, <3>1, <4>1
    <3>2. CASE k \notin 1 .. Len(t.pnls)
      <4>1. k = Len(t.pnls) + 1 /\ k = Len(c) /\ k \in 1 .. Len(c)
        BY <1>1, <1>3, <2>3, <3>2
      <4> QED
        BY <2>2, <2>3, <2>4, <4>1
    <3> QED
      BY <3>1, <3>2
  <2>6. Turn[t][f] \in Trips /\ Turn[t][f].pnls = s /\ Turn[t][f].entry = 0
    BY <2>1, <2>3 DEF Trips
  <2>7. Settled[c][f] = d
    BY <1>4, <1>6 DEF Shuts, d
  <2>8. 0 = d[Len(d)] - f.cash /\ Len(d) = Len(s) + 1
    BY <1>1, <1>2, <1>3, <2>3, <2>4
  <2> QED
    BY <2>3, <2>4, <2>5, <2>6, <2>7, <2>8 DEF Explains
<1> QED
  BY <1>5, <1>6

LEMMA TripLoop ==
  ASSUME NEW fills \in Seq(BrokerFills)
  PROVE  IsLoop(Trips, BrokerFills, Turn, NoTrips, fills)
<1>1. ASSUME NEW t \in Trips, NEW f \in BrokerFills PROVE Turn[t][f] \in Trips
  <2>1. t.pnls \in Seq(Int) /\ t.entry \in Int /\ f.notional \in Int /\ f.fee \in Int
    BY DEF Trips, BrokerFills
  <2>2. Append(t.pnls, f.notional - f.fee - t.entry) \in Seq(Int)
    BY <2>1, AppendProperties
  <2>3. CASE f.side = "BUY"
    <3>1. Turn[t][f] = [t EXCEPT !.entry = @ + f.notional + f.fee]
      BY <2>3 DEF Turn
    <3> QED
      BY <2>1, <3>1 DEF Trips
  <2>4. CASE f.side # "BUY"
    <3>1. Turn[t][f] = [pnls |-> Append(t.pnls, f.notional - f.fee - t.entry), entry |-> 0]
      BY <2>4 DEF Turn
    <3> QED
      BY <2>2, <3>1 DEF Trips
  <2> QED
    BY <2>3, <2>4
<1>2. Turn = [t \in Trips |-> [f \in BrokerFills |-> Turn[t][f]]]
  BY DEF Turn
<1>3. \A t \in Trips : [f \in BrokerFills |-> Turn[t][f]] \in [BrokerFills -> Trips]
  BY <1>1
<1>4. Turn \in [Trips -> [BrokerFills -> Trips]]
  <2> DEFINE row == [t \in Trips |-> [f \in BrokerFills |-> Turn[t][f]]]
  <2>1. row \in [Trips -> [BrokerFills -> Trips]]
    BY <1>3
  <2> QED
    BY <1>2, <2>1
<1>5. NoTrips \in Trips
  BY EmptySeq DEF NoTrips, Trips
<1> QED
  BY <1>4, <1>5 DEF IsLoop, Turns

LEMMA StartSeq == <<InitialCash>> \in Seq(Int) /\ Len(<<InitialCash>>) = 1
                  /\ <<InitialCash>>[1] = InitialCash
  BY BacktestAssumption

LEMMA FlatLoop ==
  ASSUME NEW fills \in Seq(BrokerFills)
  PROVE  IsLoop(Seq(Int), BrokerFills, Settled, <<InitialCash>>, fills)
<1>1. ASSUME NEW c \in Seq(Int), NEW f \in BrokerFills PROVE Settled[c][f] \in Seq(Int)
  <2>1. f.cash \in Int
    BY DEF BrokerFills
  <2>2. Append(c, f.cash) \in Seq(Int)
    BY <2>1, AppendProperties
  <2> QED
    BY <2>2 DEF Settled
<1>2. Settled = [c \in Seq(Int) |-> [f \in BrokerFills |-> Settled[c][f]]]
  BY DEF Settled
<1>3. \A c \in Seq(Int) : [f \in BrokerFills |-> Settled[c][f]] \in [BrokerFills -> Seq(Int)]
  BY <1>1
<1>4. Settled \in [Seq(Int) -> [BrokerFills -> Seq(Int)]]
  <2> DEFINE row == [c \in Seq(Int) |-> [f \in BrokerFills |-> Settled[c][f]]]
  <2>1. row \in [Seq(Int) -> [BrokerFills -> Seq(Int)]]
    BY <1>3
  <2> QED
    BY <1>2, <2>1
<1> QED
  BY <1>4, StartSeq DEF IsLoop, Turns

LEMMA LoopsAppend ==
  ASSUME NEW fills \in Seq(BrokerFills), NEW f \in BrokerFills
  PROVE  /\ RoundTrips(Append(fills, f)) = Turn[RoundTrips(fills)][f]
         /\ FlatCash(Append(fills, f)) = Settled[FlatCash(fills)][f]
<1>1. Folded(Turn, NoTrips, Append(fills, f)) = Turned(Turn, Folded(Turn, NoTrips, fills), f)
  BY TripLoop, FoldedAppend
<1>2. Folded(Settled, <<InitialCash>>, Append(fills, f)) =
        Turned(Settled, Folded(Settled, <<InitialCash>>, fills), f)
  BY FlatLoop, FoldedAppend
<1> QED
  BY <1>1, <1>2 DEF Turned, RoundTrips, FlatCash

TripsOK ==
  engine = "backtest" /\ ~ Short =>
    /\ book.fills \in Seq(BrokerFills)
    /\ Explains(RoundTrips(book.fills), FlatCash(book.fills), book.cash)

LEMMA TripsInit == Init => TripsOK
<1> SUFFICES ASSUME Init PROVE TripsOK
  OBVIOUS
<1>1. book.fills = <<>> /\ book.cash = InitialCash /\ InitialCash \in Nat
  BY BacktestAssumption DEF Init
<1>2. <<>> \in Seq(BrokerFills)
  BY EmptySeq
<1>3. RoundTrips(<<>>) = NoTrips /\ FlatCash(<<>>) = <<InitialCash>>
  BY <1>2, TripLoop, FlatLoop, FoldedEmpty DEF RoundTrips, FlatCash
<1>4. NoTrips \in Trips /\ NoTrips.pnls = <<>> /\ NoTrips.entry = 0 /\ Len(<<>>) = 0
  BY EmptySeq DEF NoTrips, Trips
<1>5. Explains(NoTrips, <<InitialCash>>, InitialCash)
  BY <1>1, <1>4, StartSeq DEF Explains
<1> QED
  BY <1>1, <1>2, <1>3, <1>5 DEF TripsOK

\* What may be held with a cap that is not negative.
LEMMA TwoPositions ==
  ASSUME ConfigOK, ~ Short, NEW shares \in Positions
  PROVE  shares = 0 \/ (shares = Clamped(Target) /\ Target \in Nat /\ shares \in Nat)
<1>1. PICK wish \in {0, Target} \cap Nat : shares = 0 \/ shares = Clamped(wish)
  BY DEF Positions
<1>2. cap = None \/ cap \in Nat
  BY ConfigFacts DEF Short
<1>3. Clamped(0) = 0
  BY <1>2 DEF Clamped
<1>4. Target \in Nat => Clamped(Target) \in Nat
  BY <1>2 DEF Clamped
<1> QED
  BY <1>1, <1>3, <1>4

LEMMA TripsNext ==
  ASSUME Inv, TripsOK, Bar, NEW b, NEW wish \in {0, Target}, NEW price \in Prices,
         NEW signal \in Nat, Executes(b, wish, price, signal),
         book'.fills = b.fills, book'.cash = b.cash
  PROVE  TripsOK'
<1>1. UNCHANGED <<engine, cap>> /\ ConfigOK /\ book \in Book /\ b \in Book
      /\ book.shares \in Positions /\ b.shares \in Positions
  BY BarKeeps, ExecutesInPosition DEF Inv, StateOK, Executes
<1> SUFFICES ASSUME engine = "backtest", ~ Short
             PROVE  /\ b.fills \in Seq(BrokerFills)
                    /\ Explains(RoundTrips(b.fills), FlatCash(b.fills), b.cash)
  BY <1>1 DEF TripsOK, Short, Explains
<1>2. /\ book.fills \in Seq(BrokerFills) /\ book.cash \in Int
      /\ Explains(RoundTrips(book.fills), FlatCash(book.fills), book.cash)
  BY <1>1 DEF TripsOK, Book
<1>3. CASE b = book
  BY <1>2, <1>3
<1>4. CASE b # book
  <2>1. PICK f \in Fills :
          /\ b.fills = Append(book.fills, f)
          /\ f.cash = b.cash /\ f.shares = b.shares /\ b.shares # book.shares
          /\ f.side = IF b.shares > book.shares THEN "BUY" ELSE "SELL"
          /\ f.notional \in Nat
          /\ b.cash = IF b.shares > book.shares
                      THEN book.cash - (f.notional + f.fee)
                      ELSE book.cash + (f.notional - f.fee)
    BY <1>4, Filled
  <2>2. f \in BrokerFills
    BY <2>1 DEF Fills, BrokerFills
  <2>3. /\ book.shares = 0 \/ (book.shares = Clamped(Target) /\ book.shares \in Nat)
        /\ b.shares = 0 \/ (b.shares = Clamped(Target) /\ b.shares \in Nat)
    BY <1>1, TwoPositions
  <2>4. b.shares > book.shares => f.shares # 0
    BY <2>1, <2>3
  <2>5. ~ (b.shares > book.shares) => f.shares = 0
    BY <2>1, <2>3
  <2>6. Opens(f, book.cash) \/ Shuts(f, book.cash)
    BY <2>1, <2>4, <2>5 DEF Opens, Shuts
  <2>7. Explains(Turn[RoundTrips(book.fills)][f], Settled[FlatCash(book.fills)][f], f.cash)
    BY <1>2, <2>2, <2>6, TurnExplains
  <2>8. b.fills \in Seq(BrokerFills)
    BY <1>2, <2>1, <2>2, AppendProperties
  <2> QED
    BY <1>2, <2>1, <2>2, <2>7, <2>8, LoopsAppend
<1> QED
  BY <1>3, <1>4

\* Each way to close a bar is an order, of none where nothing waits.
LEMMA ClosesAreOrders ==
  ASSUME Inv, [Next]_vars
  PROVE  \/ Rests
         \/ /\ Bar
            /\ \E b, wish, price, signal :
                 /\ wish \in {0, Target} /\ price \in Prices /\ signal \in Nat
                 /\ b \in Book /\ b.peak = book.peak /\ Close(b)
                 /\ b = book \/ Executes(b, wish, price, signal)
                 /\ next = 1 /\ engine = "backtest" /\ ~ Short => b = book
<1> SUFFICES ASSUME Bar, NEW b, NEW want,
                    \/ FillsAtClose(b, want)
                    \/ StartsWaiting(want) /\ b = book
                    \/ FillsAtOpen(b, want)
             PROVE  \E wish, price, signal :
                      /\ wish \in {0, Target} /\ price \in Prices /\ signal \in Nat
                      /\ b \in Book /\ b.peak = book.peak /\ Close(b)
                      /\ b = book \/ Executes(b, wish, price, signal)
                      /\ next = 1 /\ engine = "backtest" /\ ~ Short => b = book
  BY StepCases, Zenon
<1>1. /\ ConfigOK /\ StateOK /\ book \in Book /\ next \in 1 .. Len(bars)
      /\ next \in Nat /\ next - 1 \in Int
  BY BarKeeps, ConfigFacts DEF Inv, StateOK
<1>2. bars[next].close \in Prices /\ bars[next].open \in Prices
  BY <1>1, ConfigFacts
<1>3. Wanted(next) \subseteq {0, Target}
  BY <1>1, WantedBounds
<1>4. CASE FillsAtClose(b, want)
  <2>1. /\ want \in {0, Target} /\ Close(b)
        /\ Executes(b, want, bars[next].close, next) /\ want \in Wanted(next)
        /\ b \in Book /\ b.peak = book.peak
    BY <1>3, <1>4 DEF FillsAtClose, Executes
  <2>2. ASSUME next = 1, engine = "backtest", ~ Short PROVE b = book
    <3>1. want = Wishes[1]
      BY <1>1, <2>1, <2>2, WishesFacts
    <3>2. 1 \in Nat /\ 1 < Lookback /\ ~ (1 >= Slow) /\ 1 \in 1 .. Len(bars)
      BY <1>1, <2>2, StrategiesAssumption
    <3>3. Wishes[1] = 0
      BY <3>2, RevertedStart DEF Wishes, Crossed
    <3>4. Clamped(want) = 0 /\ book.shares = 0
      BY <1>1, <2>2, <3>1, <3>3, ConfigFacts DEF Clamped, StateOK, Short
    <3> QED
      BY <2>1, <3>4 DEF Executes
  <2> QED
    BY <1>1, <1>2, <2>1, <2>2
<1>5. CASE StartsWaiting(want) /\ b = book
  <2>1. Close(b) /\ want \in {0, Target}
    BY <1>3, <1>5 DEF StartsWaiting
  <2> QED
    BY <1>1, <1>2, <1>5, <2>1
<1>6. CASE FillsAtOpen(b, want)
  <2>1. /\ next > 1 /\ latency = 1 /\ Close(b)
        /\ Executes(b, pending.target, bars[next].open, next - 1)
        /\ b \in Book /\ b.peak = book.peak
    BY <1>6 DEF FillsAtOpen, Executes
  <2>2. pending.target \in {0, Target} /\ next - 1 \in Nat /\ next # 1
    BY <1>1, <2>1 DEF StateOK, Waiting
  <2> QED
    BY <1>2, <2>1, <2>2
<1> QED
  BY <1>4, <1>5, <1>6

\* Each profit that the statistics of a backtest count is what the cash gained
\* between two moments without shares, for every cap but a negative one.
THEOREM TripsAreFlatToFlatEver == Spec => []TripsAreFlatToFlat
<1>1. Inv /\ TripsOK /\ [Next]_vars => TripsOK'
  <2> SUFFICES ASSUME Inv, TripsOK, [Next]_vars PROVE TripsOK'
    OBVIOUS
  <2>1. CASE Rests
    <3>1. UNCHANGED <<book, engine, cap>>
      BY <2>1 DEF Rests
    <3> QED
      BY <3>1 DEF TripsOK, Short, Explains
  <2>2. ASSUME Bar, NEW b, NEW wish \in {0, Target}, NEW price \in Prices,
               NEW signal \in Nat, b \in Book, b.peak = book.peak, Close(b),
               b = book \/ Executes(b, wish, price, signal)
        PROVE  TripsOK'
    <3>1. book'.fills = b.fills /\ book'.cash = b.cash /\ UNCHANGED <<engine, cap>>
      BY <2>2, BarKeeps, CloseFacts DEF Inv
    <3>2. CASE b = book
      BY <3>1, <3>2 DEF TripsOK, Short, Explains
    <3>3. CASE Executes(b, wish, price, signal)
      BY <2>2, <3>1, <3>3, TripsNext
    <3> QED
      BY <2>2, <3>2, <3>3
  <2>3. \/ Rests
        \/ /\ Bar
           /\ \E b, wish, price, signal :
                /\ wish \in {0, Target} /\ price \in Prices /\ signal \in Nat
                /\ b \in Book /\ b.peak = book.peak /\ Close(b)
                /\ b = book \/ Executes(b, wish, price, signal)
    BY ClosesAreOrders
  <2> QED
    BY <2>1, <2>2, <2>3, Zenon
<1>2. TripsOK => TripsAreFlatToFlat
  <2> SUFFICES ASSUME TripsOK, engine = "backtest", ~ Short PROVE TripsAreFlatToFlat
    BY DEF TripsAreFlatToFlat
  <2> DEFINE t == RoundTrips(book.fills)
             c == FlatCash(book.fills)
  <2>1. Explains(t, c, book.cash)
    BY DEF TripsOK
  <2>2. t.pnls \in Seq(Int) /\ DOMAIN t.pnls = 1 .. Len(t.pnls)
    BY <2>1, LenProperties DEF Explains, Trips
  <2> QED
    BY <2>1, <2>2 DEF Explains, TripsAreFlatToFlat
<1> QED
  BY <1>1, <1>2, TripsInit, Invariance, PTL DEF Spec

-----------------------------------------------------------------------------
(***************************************************************************)
(* The equity curve of a backtest begins with the cash, because nothing is *)
(* bought on the first bar; so the drawdown that is found in it is the one *)
(* that the run has measured.                                              *)
(***************************************************************************)
Heights == [peak : Int, dd : Int]

FallFrom(peak) == [peak |-> peak, dd |-> 0]

LEMMA FallLoop ==
  ASSUME NEW equity \in Seq(Int), NEW peak \in Int
  PROVE  IsLoop(Heights, Int, Fall, FallFrom(peak), equity)
  BY DEF IsLoop, Turns, Heights, Fall, FallFrom

Higher(e, peak) == IF e > peak THEN e ELSE peak

LEMMA FallAppend ==
  ASSUME NEW equity \in Seq(Int), NEW peak \in Int, NEW e \in Int, NEW a \in Heights,
         Folded(Fall, FallFrom(peak), equity) = a
  PROVE  Folded(Fall, FallFrom(peak), Append(equity, e)) =
           [peak |-> Higher(e, a.peak), dd |-> Higher(Higher(e, a.peak) - e, a.dd)]
<1>1. Folded(Fall, FallFrom(peak), Append(equity, e)) =
        Turned(Fall, Folded(Fall, FallFrom(peak), equity), e)
  BY FallLoop, FoldedAppend
<1>2. Turned(Fall, a, e) = Fall[a][e]
  BY DEF Turned
<1>3. Fall[a][e] = [peak |-> Higher(e, a.peak), dd |-> Higher(Higher(e, a.peak) - e, a.dd)]
  BY DEF Fall, Heights, Higher
<1> QED
  BY <1>1, <1>2, <1>3

CurveOK ==
  engine = "backtest" /\ ~ Short /\ next > 1 =>
    /\ curve[1] = InitialCash
    /\ Folded(Fall, FallFrom(InitialCash), curve) = [peak |-> book.peak, dd |-> worst]

LEMMA CurveStarts ==
  ASSUME Inv, Bar, Close(book), engine = "backtest", ~ Short, next = 1
  PROVE  CurveOK'
<1>1. /\ curve = <<>> /\ book.cash = InitialCash /\ book.shares = 0
      /\ book.peak = InitialCash /\ worst = 0 /\ book \in Book
      /\ ConfigOK /\ StateOK /\ next \in 1 .. Len(bars)
  <2>1. curve \in Seq(Int) /\ Len(curve) = 0
    BY BarKeeps DEF Inv, StateOK
  <2>2. curve = <<>>
    BY <2>1, EmptySeq
  <2> QED
    BY <2>2, BarKeeps DEF Inv, StateOK
<1>2. /\ Mark = Equity(book, bars[next].close) /\ Mark \in Int
      /\ book'.peak = Peaked(book.peak) /\ curve' = Append(curve, Mark)
      /\ worst' = (IF book'.peak - Mark > worst THEN book'.peak - Mark ELSE worst)
  BY <1>1, CloseFacts
<1>3. Mark = InitialCash /\ InitialCash \in Int
  <2> DEFINE p == bars[next].close
  <2>1. p \in Prices
    BY <1>1, ConfigFacts
  <2>2. ASSUME NEW q \in Prices PROVE q \in Int
    BY PricesAssumption
  <2>3. p \in Int
    <3> HIDE DEF p
    <3> QED
      BY <2>1, <2>2
  <2>4. Mark = InitialCash + 0 * p * Scale * Scale
    BY <1>1, <1>2 DEF Equity
  <2> HIDE DEF p
  <2>5. 0 * p * Scale * Scale = 0 /\ InitialCash \in Int
    <3>1. 0 * p = 0
      BY <2>3
    <3>2. 0 * Scale = 0
      BY ScaleAssumption
    <3> QED
      BY <3>1, <3>2, BacktestAssumption
  <2> QED
    BY <2>4, <2>5
<1>4. book'.peak = InitialCash /\ worst' = 0
  BY <1>1, <1>2, <1>3 DEF Peaked
<1>5. curve'[1] = InitialCash
  BY <1>1, <1>2, <1>3
<1>6. Folded(Fall, FallFrom(InitialCash), <<>>) = FallFrom(InitialCash)
  <2>1. IsLoop(Heights, Int, Fall, FallFrom(InitialCash), <<>>)
    BY <1>3, EmptySeq, FallLoop
  <2> QED
    BY <2>1, FoldedEmpty
<1>7. Folded(Fall, FallFrom(InitialCash), curve') = FallFrom(InitialCash)
  <2>1. FallFrom(InitialCash) \in Heights
    BY <1>3 DEF Heights, FallFrom
  <2>2. <<>> \in Seq(Int)
    BY EmptySeq
  <2>3. FallFrom(InitialCash).peak = InitialCash /\ FallFrom(InitialCash).dd = 0
    BY DEF FallFrom
  <2>4. Higher(InitialCash, InitialCash) = InitialCash
        /\ Higher(InitialCash - InitialCash, 0) = 0
    BY <1>3 DEF Higher
  <2>5. Folded(Fall, FallFrom(InitialCash), Append(<<>>, InitialCash)) =
          [peak |-> InitialCash, dd |-> 0]
    BY <1>3, <1>6, <2>1, <2>2, <2>3, <2>4, FallAppend
  <2> QED
    BY <1>1, <1>2, <1>3, <2>5 DEF FallFrom
<1> QED
  BY <1>4, <1>5, <1>7 DEF CurveOK, FallFrom

LEMMA CurveGoesOn ==
  ASSUME Inv, CurveOK, Bar, NEW b \in Book, b.peak = book.peak, Close(b),
         engine = "backtest", ~ Short, next > 1
  PROVE  CurveOK'
<1>1. /\ book \in Book /\ worst \in Nat /\ curve \in Seq(Int) /\ Len(curve) >= 1
      /\ ConfigOK /\ StateOK /\ next \in 1 .. Len(bars) /\ InitialCash \in Int
  BY BarKeeps, BacktestAssumption DEF Inv, StateOK
<1>2. /\ Mark \in Int
      /\ book'.peak = Peaked(book.peak) /\ curve' = Append(curve, Mark)
      /\ worst' = (IF book'.peak - Mark > worst THEN book'.peak - Mark ELSE worst)
  BY <1>1, CloseFacts
<1>3. book.peak \in Nat
  BY <1>1 DEF Book
<1>4. curve'[1] = InitialCash
  <2>1. curve[1] = InitialCash
    BY DEF CurveOK
  <2>2. 1 \in 1 .. Len(curve)
    BY <1>1, LenProperties
  <2>3. Append(curve, Mark)[1] = curve[1]
    BY <1>1, <1>2, <2>2, AppendProperties
  <2> QED
    BY <1>2, <2>1, <2>3
<1> DEFINE a == [peak |-> book.peak, dd |-> worst]
<1>5. a \in Heights /\ a.peak = book.peak /\ a.dd = worst
  BY <1>1, <1>3 DEF Heights
<1>6. Folded(Fall, FallFrom(InitialCash), curve) = a
  BY DEF CurveOK
<1> HIDE DEF a
<1>7. Folded(Fall, FallFrom(InitialCash), Append(curve, Mark)) =
        [peak |-> Higher(Mark, a.peak), dd |-> Higher(Higher(Mark, a.peak) - Mark, a.dd)]
  BY <1>1, <1>2, <1>5, <1>6, FallAppend
<1>8. Higher(Mark, a.peak) = book'.peak
  BY <1>2, <1>5 DEF Peaked, Higher
<1>9. Higher(book'.peak - Mark, a.dd) = worst'
  BY <1>2, <1>5 DEF Higher
<1> QED
  BY <1>2, <1>4, <1>7, <1>8, <1>9 DEF CurveOK

\* A directory that crucibo report can load tells of the run what the run
\* returned: all of its fills, its drawdown, and the cash that it began with.
THEOREM ReportMatchesOutcomeEver == Spec => []ReportMatchesOutcome
<1>1. Init => CurveOK
  BY DEF Init, CurveOK
<1>2. Inv /\ CurveOK /\ [Next]_vars => CurveOK'
  <2> SUFFICES ASSUME Inv, CurveOK, [Next]_vars PROVE CurveOK'
    OBVIOUS
  <2>1. CASE Rests
    <3>1. UNCHANGED <<engine, cap, next, book, curve, worst>>
      BY <2>1 DEF Rests
    <3> QED
      BY <3>1 DEF CurveOK, Short
  <2>2. ASSUME Bar, NEW b \in Book, b.peak = book.peak, Close(b),
               next = 1 /\ engine = "backtest" /\ ~ Short => b = book
        PROVE  CurveOK'
    <3>1. CASE engine # "backtest" \/ Short
      BY <2>2, <3>1, BarKeeps DEF CurveOK, Short
    <3>2. CASE engine = "backtest" /\ ~ Short /\ next = 1
      BY <2>2, <3>2, CurveStarts
    <3>3. CASE engine = "backtest" /\ ~ Short /\ next # 1
      <4>1. next > 1
        BY <2>2, <3>3, BarKeeps
      <4> QED
        BY <2>2, <3>3, <4>1, CurveGoesOn
    <3> QED
      BY <3>1, <3>2, <3>3
  <2>3. \/ Rests
        \/ /\ Bar
           /\ \E b : /\ b \in Book /\ b.peak = book.peak /\ Close(b)
                     /\ next = 1 /\ engine = "backtest" /\ ~ Short => b = book
    BY ClosesAreOrders
  <2> QED
    BY <2>1, <2>2, <2>3, Zenon
<1>3. Inv /\ CurveOK => ReportMatchesOutcome
  <2> SUFFICES ASSUME Inv, CurveOK, engine = "backtest", Loads(files)
               PROVE  /\ files["fills"] = "new"
                      /\ ~ Short => MaxDrawdown(curve) = worst /\ curve[1] = InitialCash
    BY DEF ReportMatchesOutcome
  <2>1. Len(todo) # Len(BacktestFiles) /\ files["fills"] = "new"
    BY DEF Inv, BundleOK, Loads
  <2>2. pc \in {"write", "over", "crashed"}
    BY <2>1 DEF Inv, StateOK, BundleOK, Stages
  <2>3. next > 1
    <3>1. next = Len(bars) + 1 /\ Len(bars) > 0 /\ Len(bars) \in Nat
      BY <2>2, ConfigFacts DEF Inv, BundleOK
    <3> QED
      BY <3>1
  <2>4. ~ Short =>
          /\ curve[1] = InitialCash
          /\ Folded(Fall, FallFrom(InitialCash), curve) = [peak |-> book.peak, dd |-> worst]
    BY <2>3 DEF CurveOK
  <2>5. ~ Short => MaxDrawdown(curve) = worst
    BY <2>4 DEF MaxDrawdown, FallFrom
  <2> QED
    BY <2>1, <2>4, <2>5
<1> QED
  BY <1>1, <1>2, <1>3, InvInit, InvNext, PTL DEF Spec
=============================================================================
