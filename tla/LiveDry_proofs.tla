--------------------------- MODULE LiveDry_proofs ---------------------------
(***************************************************************************)
(* Invariants of LiveDry for every choice of prices, fees, limits, targets *)
(* and session length.                                                     *)
(***************************************************************************)
EXTENDS LiveDry, Shared_proofs

-----------------------------------------------------------------------------
(***************************************************************************)
(* Type correctness.  An order must be in the book when one is awaited.    *)
(***************************************************************************)
TypeInv == TypeOK /\ (pc = "submit" => Len(book) > 0)

\* The verdict on a tick, with the account marked at the new price.
LEMMA MarkedType ==
  ASSUME RuntimeTypeOK, NEW p \in Prices
  PROVE  /\ Marked(p) = [account EXCEPT !.peak = Marked(p).peak]
         /\ Marked(p) \in [cash : Int, shares : Nat, peak : Int]
         /\ Marked(p).peak >= account.peak
         /\ Marked(p).peak >= EquityAt(account.cash, account.shares, p)
  BY MarkType DEF RuntimeTypeOK, Marked

\* The target of a verdict on a tick.
LEMMA VerdictType ==
  ASSUME RuntimeTypeOK, NEW p \in Prices, NEW want \in Targets,
         Verdict(p, want).target # None
  PROVE  /\ Verdict(p, want).target \in Nat
         /\ ~ LossBreached(Marked(p).peak,
                           EquityAt(account.cash, account.shares, p))
         /\ MaxPosition # None => Verdict(p, want).target <= MaxPosition
         /\ MaxNotional # None => Verdict(p, want).target * p <= MaxNotional
<1>1. account.cash \in Int /\ account.shares \in Nat
  BY DEF RuntimeTypeOK
<1>2. EquityAt(account.cash, account.shares, p) \in Int
  BY <1>1, EquityInt
<1>3. Marked(p).peak \in Int
  BY MarkedType
<1>4. want \in Int
  BY RuntimeAssumption
<1> QED
  BY <1>1, <1>2, <1>3, <1>4, VerdictBounds DEF Verdict

\* Every acknowledgement of the dry-run broker is an acknowledgement.
LEMMA DryAckType ==
  ASSUME NEW side \in Sides, NEW qty \in Nat, NEW p \in Prices
  PROVE  DryAck(side, qty, p) \in Ack
<1>1. ExecPrice(side, p) \in Nat /\ FeeFor(qty) \in Nat
  BY ExecPriceNat, FeeAssumption, ProductNat DEF FeeFor
<1> QED
  BY <1>1 DEF DryAck, Ack, Statuses, Reasons

\* The broker's own book stays well typed.
LEMMA DryBookType ==
  ASSUME broker \in [cash : Int, shares : Nat],
         NEW side \in Sides, NEW qty \in Nat, NEW p \in Prices
  PROVE  DryBook(side, qty, p) \in [cash : Int, shares : Nat]
<1>1. /\ ExecPrice("BUY", p) \in Nat /\ ExecPrice("SELL", p) \in Nat
      /\ FeeFor(qty) \in Nat
  BY ExecPriceNat, FeeAssumption, ProductNat DEF FeeFor, Sides
<1>2. qty * ExecPrice("BUY", p) \in Nat /\ qty * ExecPrice("SELL", p) \in Nat
  BY <1>1, ProductNat
<1> QED
  BY <1>1, <1>2, SMT DEF DryBook, Accepts, Sides

LEMMA TypeInvInit == Init => TypeInv
<1> SUFFICES ASSUME Init PROVE TypeInv
  OBVIOUS
<1>1. (CHOOSE p \in Prices : TRUE) \in Prices
  BY PricesAssumption
<1> QED
  BY <1>1, RuntimeAssumption
     DEF Init, InitRuntime, TypeInv, TypeOK, RuntimeTypeOK, Order

LEMMA TypeInvNext == TypeInv /\ [Next]_vars => TypeInv'
<1> SUFFICES ASSUME TypeInv, [Next]_vars PROVE TypeInv'
  OBVIOUS
<1> USE DEF TypeInv, TypeOK, RuntimeTypeOK
<1>1. ASSUME FeedLagKill, UNCHANGED broker PROVE TypeInv'
  BY <1>1 DEF FeedLagKill, Ready, KillReasons
<1>2. ASSUME CloseTick, UNCHANGED broker PROVE TypeInv'
  <2>1. account' \in [cash : Int, shares : Nat, peak : Int]
    BY <1>2, MarkedType DEF CloseTick, Marked
  <2>2. paper' \in [cash : Int, shares : Nat, peak : Int, killed : BOOLEAN,
                    filled : Int]
    BY <1>2 DEF CloseTick
  <2>3. ticks' = ticks + 1 /\ killed' \in {"drawdown", killed}
    BY <1>2 DEF CloseTick
  <2>4. pc' \in {"idle", "reconcile", "flatten"}
    BY <1>2 DEF CloseTick, AfterClose
  <2>5. killed' \in KillReasons \cup {"no"} /\ ticks' \in Nat
    <3>1. killed \in KillReasons \cup {"no"} /\ ticks \in Nat
      OBVIOUS
    <3>2. "drawdown" \in KillReasons
      BY DEF KillReasons
    <3> QED
      BY <2>3, <3>1, <3>2
  <2>6. UNCHANGED <<book, failures, tick>>
    BY <1>2 DEF CloseTick
  <2> QED
    BY <1>2, <2>1, <2>2, <2>4, <2>5, <2>6
<1>3. ASSUME NEW p \in Prices, OffHours(p), UNCHANGED broker PROVE TypeInv'
  <2>1. account' \in [cash : Int, shares : Nat, peak : Int]
    BY <1>3, MarkedType DEF OffHours, Marked
  <2> QED
    BY <1>3, <2>1 DEF OffHours, Ready
<1>4. ASSUME NEW p \in Prices, DecisionKill(p), UNCHANGED broker PROVE TypeInv'
  BY <1>4, MarkedType DEF DecisionKill, Consider, Ready, KillReasons
<1>5. ASSUME NEW p \in Prices, NEW want \in Targets, RiskKill(p, want),
             UNCHANGED broker
      PROVE  TypeInv'
  BY <1>5, MarkedType DEF RiskKill, Consider, Ready, KillReasons
<1>6. ASSUME NEW p \in Prices, NEW want \in Targets, Hold(p, want),
             UNCHANGED broker
      PROVE  TypeInv'
  BY <1>6, MarkedType DEF Hold, Consider, Ready
<1>7. ASSUME NEW p \in Prices, NEW want \in Targets, PlaceOrder(p, want),
             UNCHANGED broker
      PROVE  TypeInv'
  <2> DEFINE target == Verdict(p, want).target
             order  == IF target > account.shares
                         THEN NewOrder("BUY", target - account.shares)
                         ELSE NewOrder("SELL", account.shares - target)
  <2>1. target \in Nat
    BY <1>7, VerdictType DEF PlaceOrder
  <2>2. order \in Order
    <3> HIDE DEF target
    <3> QED BY <2>1, SMT DEF NewOrder, Order, Sides, Phases
  <2>3. book' = Append(book, order)
    BY <1>7 DEF PlaceOrder
  <2> HIDE DEF order
  <2>4. book' \in Seq(Order) /\ Len(book') > 0
    BY <2>2, <2>3, SMT
  <2> QED
    BY <1>7, <2>4, MarkedType DEF PlaceOrder, Consider, Ready
<1>8. ASSUME Submit PROVE TypeInv'
  <2> DEFINE ack == DryAck(Pending.side, Pending.qty, tick.price)
  <2>1. PICK slow \in BOOLEAN : Settle(ack, slow)
    BY <1>8 DEF Submit
  <2>2. Pending \in Order /\ Len(book) \in 1 .. Len(book)
    <3>1. pc = "submit" /\ Len(book) > 0 /\ book \in Seq(Order)
      BY <2>1 DEF Settle
    <3> QED
      BY <3>1, LastOfSeq DEF Pending
  <2>3. ack \in Ack
    BY <2>2, DryAckType DEF Order
  <2> HIDE DEF ack
  <2>4. account' \in [cash : Int, shares : Nat, peak : Int]
    BY <2>1, <2>2, <2>3, ApplyFillType DEF Settle, Order, Ack
  <2>5. book' \in Seq(Order)
    <3>1. book' = [book EXCEPT ![Len(book)] = ApplyResult(Pending, ack)]
      BY <2>1 DEF Settle, Pending
    <3>2. ApplyResult(Pending, ack) \in Order
      BY <2>2, <2>3, ApplyResultType
    <3> QED
      BY <3>1, <3>2, <2>2, SMT
  <2>6. paper' \in [cash : Int, shares : Nat, peak : Int, killed : BOOLEAN,
                    filled : Int]
    <3>1. Signed(Pending.side, ack.filled) \in Int
      BY <2>2, <2>3 DEF Signed, Ack, Order
    <3>2. paper.filled + Signed(Pending.side, ack.filled) \in Int
      BY <3>1
    <3>3. \/ paper' = paper
          \/ paper' = [paper EXCEPT !.filled =
                         paper.filled + Signed(Pending.side, ack.filled)]
      BY <2>1 DEF Settle
    <3> QED
      BY <3>2, <3>3
  <2>7. killed' \in KillReasons \cup {"no"}
    BY <2>1 DEF Settle, KillReasons
  <2>8. broker' \in [cash : Int, shares : Nat]
    BY <1>8, <2>2, DryBookType DEF Submit, Order
  <2> QED
    BY <2>1, <2>4, <2>5, <2>6, <2>7, <2>8 DEF Settle
<1>9. ASSUME CheckBooks PROVE TypeInv'
  <2>1. /\ failures' \in {failures, failures + 1}
        /\ killed' \in {"reconcile", killed}
        /\ paper' = [paper EXCEPT !.killed = paper'.killed]
        /\ paper'.killed \in {TRUE, paper.killed}
        /\ pc' \in {"idle", "flatten"}
        /\ UNCHANGED <<account, book, ticks, tick, broker>>
    BY <1>9 DEF CheckBooks, Reconcile, AfterClose
  <2>2. killed \in KillReasons \cup {"no"} /\ failures \in Nat
    OBVIOUS
  <2>3. "reconcile" \in KillReasons
    BY DEF KillReasons
  <2>4. killed' \in KillReasons \cup {"no"} /\ failures' \in Nat
    BY <2>1, <2>2, <2>3
  <2>5. paper' \in [cash : Int, shares : Nat, peak : Int, killed : BOOLEAN,
                    filled : Int]
    BY <2>1
  <2> QED
    BY <2>1, <2>4, <2>5
<1>10. ASSUME SubmitFlatten PROVE TypeInv'
  <2> DEFINE ack == DryAck("SELL", account.shares, tick.price)
  <2>1. Flatten(ack)
    BY <1>10 DEF SubmitFlatten
  <2>2. ack \in Ack
    BY DryAckType DEF Sides
  <2> HIDE DEF ack
  <2>3. account' \in [cash : Int, shares : Nat, peak : Int]
    BY <2>1, <2>2, ApplyFillType DEF Flatten, Ack, Sides
  <2>4. FlattenOrder \in Order
    BY DEF FlattenOrder, NewOrder, Order, Sides, Phases
  <2>5. book' \in Seq(Order)
    BY <2>1, <2>2, <2>4, ApplyResultType DEF Flatten
  <2>6. paper' \in [cash : Int, shares : Nat, peak : Int, killed : BOOLEAN,
                    filled : Int]
    BY <2>1, <2>3 DEF Flatten
  <2>7. broker' \in [cash : Int, shares : Nat]
    BY <1>10, DryBookType DEF SubmitFlatten, Sides
  <2> QED
    BY <2>1, <2>3, <2>5, <2>6, <2>7 DEF Flatten
<1>11. ASSUME UNCHANGED vars PROVE TypeInv'
  BY <1>11 DEF vars
<1> QED
  BY <1>1, <1>2, <1>3, <1>4, <1>5, <1>6, <1>7, <1>8, <1>9, <1>10, <1>11
     DEF Next, RunLocal, LocalStep, Ended

\* Cash, shares, peaks, the order book and the counters of a session keep
\* their types whatever the broker answers; in particular no sale makes a
\* position negative.
THEOREM TypeCorrect == Spec => []TypeOK
<1>1. TypeInv => TypeOK
  BY DEF TypeInv
<1> QED
  BY <1>1, TypeInvInit, TypeInvNext, PTL DEF Spec

-----------------------------------------------------------------------------
(***************************************************************************)
(* The safety invariants.  Inv adds to them what holds in the middle of a  *)
(* tick: the position an order is about to lead to is within the caps, a   *)
(* tick that is still quiet is within the limits, and the mirror is synced *)
(* from the end of CloseTick on.                                           *)
(***************************************************************************)
NotionalOK(shares) == MaxNotional # None => shares * tick.price <= MaxNotional

Proposed == account.shares + Signed(Pending.side, Pending.qty)

OrderOut ==
  pc = "submit" =>
    /\ killed = "no"
    /\ Pending.qty > 0
    /\ MaxPosition # None => Proposed <= MaxPosition
    /\ NotionalOK(Proposed)

QuietSoFar ==
  /\ pc \in {"close", "reconcile"} /\ killed = "no" => NotionalOK(account.shares)
  /\ pc = "reconcile" /\ killed = "no" =>
       ~ LossBreached(account.peak,
                      EquityAt(account.cash, account.shares, tick.price))

MirrorSynced ==
  pc \in {"reconcile", "flatten"} =>
    paper.cash = account.cash /\ paper.shares = account.shares

FlattensOnKill == pc = "flatten" => killed # "no"

Inv ==
  /\ BooksAgree
  /\ CashNonNegative
  /\ PositionCap
  /\ ReconcileNeverFails
  /\ QuietTickWithinLimits
  /\ MirrorAgrees
  /\ LateKillFlattens
  /\ OrderOut
  /\ QuietSoFar
  /\ MirrorSynced
  /\ FlattensOnKill

\* While the books agree, an order of the runtime is filled by the broker
\* exactly when the account can apply the fill, and both books make the same
\* move; otherwise it is refused for insufficient cash or shares and neither
\* moves.
LEMMA FillAgrees ==
  ASSUME TypeOK, BooksAgree, NEW side \in Sides, NEW qty \in Nat, qty > 0,
         NEW p \in Prices, NEW ack, ack = DryAck(side, qty, p)
  PROVE  \/ /\ ack.status = "FILLED"
            /\ ack.filled = qty
            /\ CanApplyFill(account, side, ack.filled, ack.price, ack.fee)
            /\ LET after == ApplyFill(account, side, ack.filled, ack.price, ack.fee)
               IN  /\ after.cash = DryBook(side, qty, p).cash
                   /\ after.shares = DryBook(side, qty, p).shares
                   /\ after.shares = account.shares + Signed(side, qty)
                   /\ account.cash >= 0 => after.cash >= 0
         \/ /\ ack.status = "REJECTED"
            /\ ack.reason = "insufficient"
            /\ ~ Accepts(side, qty, p)
            /\ DryBook(side, qty, p) = broker
<1> DEFINE price == ExecPrice(side, p)
<1>0. account \in [cash : Int, shares : Nat, peak : Int]
  BY DEF TypeOK, RuntimeTypeOK
<1>1. price \in Nat /\ FeeFor(qty) \in Nat
  BY ExecPriceNat, FeeAssumption, ProductNat DEF FeeFor
<1>2. qty * price \in Nat
  BY <1>1, ProductNat
<1>3. CASE ~ Accepts(side, qty, p)
  BY <1>3 DEF DryAck, DryBook
<1>4. CASE Accepts(side, qty, p)
  <2>1. /\ ack.status = "FILLED" /\ ack.filled = qty
        /\ ack.price = price /\ ack.fee = FeeFor(qty)
    BY <1>4 DEF DryAck
  <2>2. CASE side = "BUY"
    <3> HIDE DEF price
    <3>1. qty * price + FeeFor(qty) <= account.cash
      BY <1>4, <2>2 DEF Accepts, BooksAgree, price
    <3>2. CanApplyFill(account, side, qty, price, FeeFor(qty))
      BY <2>2, <3>1 DEF CanApplyFill
    <3>3. DryBook(side, qty, p) =
            [cash   |-> account.cash - (qty * price + FeeFor(qty)),
             shares |-> account.shares + qty]
      BY <1>4, <2>2 DEF DryBook, BooksAgree, price
    <3>4. /\ ApplyFill(account, side, qty, price, FeeFor(qty)).cash =
               account.cash - (qty * price + FeeFor(qty))
          /\ ApplyFill(account, side, qty, price, FeeFor(qty)).shares =
               account.shares + qty
      BY <1>0, <2>2 DEF ApplyFill
    <3>5. account.cash - (qty * price + FeeFor(qty)) >= 0
      BY <1>0, <1>1, <1>2, <3>1, SMT
    <3> QED
      BY <2>1, <2>2, <3>2, <3>3, <3>4, <3>5 DEF Signed
  <2>3. CASE side = "SELL"
    <3>1. qty * price - FeeFor(qty) >= 0
      BY <2>3, SaleAssumption, SaleNonNegative
    <3> HIDE DEF price
    <3>2. CanApplyFill(account, side, qty, price, FeeFor(qty))
      BY <1>4, <2>3 DEF CanApplyFill, Accepts, BooksAgree
    <3>3. DryBook(side, qty, p) =
            [cash   |-> account.cash + (qty * price - FeeFor(qty)),
             shares |-> account.shares - qty]
      BY <1>4, <2>3 DEF DryBook, BooksAgree, price
    <3>4. /\ ApplyFill(account, side, qty, price, FeeFor(qty)).cash =
               account.cash + (qty * price - FeeFor(qty))
          /\ ApplyFill(account, side, qty, price, FeeFor(qty)).shares =
               account.shares - qty
      BY <1>0, <2>3 DEF ApplyFill
    <3>5. account.cash >= 0 =>
            account.cash + (qty * price - FeeFor(qty)) >= 0
      BY <1>0, <1>1, <1>2, <3>1, SMT
    <3>6. account.shares - qty = account.shares + Signed(side, qty)
      BY <1>0, <2>3, SMT DEF Signed
    <3> QED
      BY <2>1, <2>3, <3>2, <3>3, <3>4, <3>5, <3>6
  <2> QED
    BY <2>2, <2>3 DEF Sides
<1> QED
  BY <1>3, <1>4

LEMMA InvInit == Init => Inv
<1> SUFFICES ASSUME Init PROVE Inv
  OBVIOUS
<1>1. /\ account = [cash |-> InitialCash, shares |-> 0, peak |-> InitialCash]
      /\ paper.cash = InitialCash /\ paper.shares = 0
      /\ broker = [cash |-> InitialCash, shares |-> 0]
      /\ killed = "no" /\ failures = 0 /\ pc = "idle" /\ ~ tick.rth
  BY DEF Init, InitRuntime
<1>2. PositionCap
  BY <1>1, LimitsAssumption, SMT DEF PositionCap
<1>3. CashNonNegative
  BY <1>1, RuntimeAssumption DEF CashNonNegative
<1> QED
  BY <1>1, <1>2, <1>3
     DEF Inv, BooksAgree, ReconcileNeverFails, QuietTickWithinLimits,
         MirrorAgrees, LateKillFlattens, OrderOut, QuietSoFar, MirrorSynced,
         FlattensOnKill

\* A tick that starts leaves position, books and mirror as they are.
LEMMA ConsiderInv ==
  ASSUME TypeInv, Inv, NEW p \in Prices, account' = Marked(p),
         UNCHANGED <<paper, failures, broker>>
  PROVE  /\ account'.cash = account.cash /\ account'.shares = account.shares
         /\ account'.peak = Marked(p).peak
         /\ BooksAgree' /\ CashNonNegative' /\ PositionCap'
<1>1. account'.cash = account.cash /\ account'.shares = account.shares
  BY MarkedType DEF TypeInv, TypeOK, RuntimeTypeOK
<1>2. BooksAgree' /\ CashNonNegative' /\ PositionCap'
  BY <1>1 DEF Inv, BooksAgree, CashNonNegative, PositionCap
<1> QED
  BY <1>1, <1>2

LEMMA InvNext == TypeInv /\ Inv /\ [Next]_vars => Inv'
<1> SUFFICES ASSUME TypeInv, Inv, [Next]_vars PROVE Inv'
  OBVIOUS
<1>0. TypeOK /\ RuntimeTypeOK /\ account.shares \in Nat /\ account.cash \in Int
  BY DEF TypeInv, TypeOK, RuntimeTypeOK
<1>1. ASSUME FeedLagKill, UNCHANGED broker PROVE Inv'
  BY <1>1 DEF FeedLagKill, Ready, Inv, BooksAgree, CashNonNegative, PositionCap,
              ReconcileNeverFails, QuietTickWithinLimits, MirrorAgrees,
              LateKillFlattens, OrderOut, QuietSoFar, MirrorSynced,
              FlattensOnKill
<1>2. ASSUME CloseTick, UNCHANGED broker PROVE Inv'
  <2> DEFINE equity == EquityAt(account.cash, account.shares, tick.price)
             reason == IF LossBreached(account'.peak, equity) THEN "drawdown"
                                                             ELSE killed
  <2>1. /\ pc = "close" /\ account' = Marked(tick.price)
        /\ UNCHANGED <<failures, tick>>
        /\ paper'.cash = account.cash /\ paper'.shares = account.shares
    BY <1>2 DEF CloseTick, Marked, TypeInv, TypeOK, RuntimeTypeOK
  <2>2. killed' = reason /\ pc' \in {"reconcile", AfterClose(reason)}
    BY <1>2 DEF CloseTick
  <2>3. tick.price \in Prices
    BY <1>0 DEF RuntimeTypeOK
  <2>4. /\ account'.cash = account.cash /\ account'.shares = account.shares
        /\ BooksAgree' /\ CashNonNegative' /\ PositionCap'
    <3>1. /\ account'.cash = account.cash /\ account'.shares = account.shares
      BY <2>1, <2>3, <1>0, MarkedType DEF RuntimeTypeOK
    <3> QED
      BY <3>1, <1>2 DEF Inv, BooksAgree, CashNonNegative, PositionCap
  <2>5. ReconcileNeverFails'
    BY <2>1, <2>2 DEF Inv, ReconcileNeverFails
  <2>6. killed' = "no" => /\ killed = "no"
                         /\ ~ LossBreached(account'.peak, equity)
    BY <2>2
  <2>7. QuietTickWithinLimits' /\ QuietSoFar'
    BY <2>1, <2>4, <2>6
       DEF Inv, QuietTickWithinLimits, QuietSoFar, NotionalOK
  <2>8. MirrorAgrees' /\ MirrorSynced'
    BY <2>1, <2>4 DEF MirrorAgrees, MirrorSynced
  <2> HIDE DEF reason
  <2>9. LateKillFlattens' /\ FlattensOnKill' /\ OrderOut'
    <3>1. pc' \in {"reconcile", "idle", "flatten"}
      BY <2>2 DEF AfterClose
    <3>2. pc' = "flatten" => reason # "no"
      BY <2>2 DEF AfterClose
    <3>3. pc' = "idle" /\ FlattenOnKill /\ killed' # "no" => account'.shares = 0
      BY <1>0, <2>2, <2>4 DEF AfterClose
    <3> QED
      BY <3>1, <3>2, <3>3, <2>2 DEF LateKillFlattens, FlattensOnKill, OrderOut
  <2> QED
    BY <2>4, <2>5, <2>7, <2>8, <2>9 DEF Inv
<1>3. ASSUME NEW p \in Prices, OffHours(p), UNCHANGED broker PROVE Inv'
  <2>1. /\ pc = "idle" /\ killed = "no" /\ account' = Marked(p)
        /\ ~ tick'.rth /\ UNCHANGED <<paper, killed, failures, pc>>
    BY <1>3 DEF OffHours, Ready, Marked
  <2>2. /\ account'.cash = account.cash /\ account'.shares = account.shares
        /\ BooksAgree' /\ CashNonNegative' /\ PositionCap'
    BY <1>3, <2>1, ConsiderInv
  <2> QED
    BY <2>1, <2>2
       DEF Inv, ReconcileNeverFails, QuietTickWithinLimits, MirrorAgrees,
           LateKillFlattens, OrderOut, QuietSoFar, MirrorSynced, FlattensOnKill
<1>4. ASSUME NEW p \in Prices, Consider(p), pc' = "idle",
             killed' \in {"decision latency", "risk"},
             UNCHANGED <<paper, failures, broker>>
      PROVE  Inv'
  <2>1. pc = "idle" /\ killed = "no" /\ account' = Marked(p)
    BY <1>4 DEF Consider, Ready
  <2>2. /\ account'.cash = account.cash /\ account'.shares = account.shares
        /\ BooksAgree' /\ CashNonNegative' /\ PositionCap'
    BY <1>4, <2>1, ConsiderInv
  <2> QED
    BY <1>4, <2>1, <2>2
       DEF Inv, ReconcileNeverFails, QuietTickWithinLimits, MirrorAgrees,
           LateKillFlattens, OrderOut, QuietSoFar, MirrorSynced, FlattensOnKill
<1>5. ASSUME NEW p \in Prices, DecisionKill(p), UNCHANGED broker PROVE Inv'
  BY <1>4, <1>5 DEF DecisionKill, Consider, Ready
<1>6. ASSUME NEW p \in Prices, NEW want \in Targets, RiskKill(p, want),
             UNCHANGED broker
      PROVE  Inv'
  BY <1>4, <1>6 DEF RiskKill, Consider, Ready
<1>7. ASSUME NEW p \in Prices, NEW want \in Targets, Hold(p, want),
             UNCHANGED broker
      PROVE  Inv'
  <2>1. /\ pc = "idle" /\ killed = "no" /\ account' = Marked(p)
        /\ tick' = [price |-> p, rth |-> TRUE] /\ pc' = "close"
        /\ UNCHANGED <<paper, killed, failures>>
        /\ Verdict(p, want).target = account.shares
    BY <1>7 DEF Hold, Consider, Ready
  <2>2. /\ account'.cash = account.cash /\ account'.shares = account.shares
        /\ BooksAgree' /\ CashNonNegative' /\ PositionCap'
    BY <1>7, <2>1, ConsiderInv
  <2>3. Verdict(p, want).target # None
    BY <2>1, <1>0, NoneAssumption
  <2>4. NotionalOK(account.shares)'
    BY <1>0, <2>1, <2>2, <2>3, VerdictType DEF NotionalOK
  <2> QED
    BY <2>1, <2>2, <2>4
       DEF Inv, ReconcileNeverFails, QuietTickWithinLimits, MirrorAgrees,
           LateKillFlattens, OrderOut, QuietSoFar, MirrorSynced, FlattensOnKill
<1>8. ASSUME NEW p \in Prices, NEW want \in Targets, PlaceOrder(p, want),
             UNCHANGED broker
      PROVE  Inv'
  <2> DEFINE target == Verdict(p, want).target
             order  == IF target > account.shares
                         THEN NewOrder("BUY", target - account.shares)
                         ELSE NewOrder("SELL", account.shares - target)
  <2>1. /\ pc = "idle" /\ killed = "no" /\ account' = Marked(p)
        /\ tick' = [price |-> p, rth |-> TRUE] /\ pc' = "submit"
        /\ UNCHANGED <<paper, killed, failures>>
        /\ target # None /\ target # account.shares
        /\ book' = Append(book, order)
    BY <1>8 DEF PlaceOrder, Consider, Ready
  <2>2. /\ account'.cash = account.cash /\ account'.shares = account.shares
        /\ BooksAgree' /\ CashNonNegative' /\ PositionCap'
    BY <1>8, <2>1, ConsiderInv
  <2>3. /\ target \in Nat
        /\ MaxPosition # None => target <= MaxPosition
        /\ MaxNotional # None => target * p <= MaxNotional
    BY <1>0, <2>1, VerdictType
  <2> HIDE DEF target
  <2>4. /\ order.qty > 0
        /\ account.shares + Signed(order.side, order.qty) = target
    BY <1>0, <2>1, <2>3, SMT DEF NewOrder, Signed
  <2>5. Pending' = order
    <3>1. book \in Seq(Order)
      BY <1>0 DEF RuntimeTypeOK
    <3> HIDE DEF order
    <3> QED
      BY <2>1, <3>1, SMT DEF Pending
  <2>6. Proposed' = target
    BY <2>2, <2>4, <2>5 DEF Proposed, Signed
  <2>7. OrderOut'
    BY <2>1, <2>3, <2>4, <2>5, <2>6 DEF OrderOut, NotionalOK
  <2> QED
    BY <2>1, <2>2, <2>7
       DEF Inv, ReconcileNeverFails, QuietTickWithinLimits, MirrorAgrees,
           LateKillFlattens, QuietSoFar, MirrorSynced, FlattensOnKill
<1>9. ASSUME Submit PROVE Inv'
  <2> DEFINE ack == DryAck(Pending.side, Pending.qty, tick.price)
             after == ApplyFill(account, Pending.side, ack.filled, ack.price,
                                ack.fee)
  <2>1. PICK slow \in BOOLEAN : Settle(ack, slow)
    BY <1>9 DEF Submit
  <2>2. /\ pc = "submit" /\ pc' = "close" /\ UNCHANGED <<failures, tick>>
        /\ broker' = DryBook(Pending.side, Pending.qty, tick.price)
    BY <1>9, <2>1 DEF Submit, Settle
  <2>3. /\ Pending \in Order /\ Pending.qty > 0 /\ killed = "no"
        /\ MaxPosition # None => Proposed <= MaxPosition
        /\ NotionalOK(Proposed)
    BY <2>2, LastOfSeq
       DEF Inv, OrderOut, Pending, TypeInv, TypeOK, RuntimeTypeOK
  <2>4. Pending.side \in Sides /\ Pending.qty \in Nat /\ tick.price \in Prices
    BY <1>0, <2>3 DEF Order, RuntimeTypeOK
  <2>5. BooksAgree
    BY DEF Inv
  <2>6. \/ /\ account' = after /\ account'.cash = broker'.cash
           /\ account'.shares = broker'.shares
           /\ account'.shares = Proposed
           /\ account.cash >= 0 => account'.cash >= 0
        \/ /\ account' = account /\ broker' = broker /\ killed' # "no"
    <3>1. CASE /\ ack.status = "FILLED"
               /\ CanApplyFill(account, Pending.side, ack.filled, ack.price,
                               ack.fee)
      <4>1. account' = after
        BY <2>1, <3>1 DEF Settle
      <4>2. /\ after.cash = DryBook(Pending.side, Pending.qty, tick.price).cash
            /\ after.shares = DryBook(Pending.side, Pending.qty, tick.price).shares
            /\ after.shares = account.shares + Signed(Pending.side, Pending.qty)
            /\ account.cash >= 0 => after.cash >= 0
        <5> HIDE DEF after
        <5>1. ack = DryAck(Pending.side, Pending.qty, tick.price)
          OBVIOUS
        <5> HIDE DEF ack
        <5> QED
          BY <1>0, <2>3, <2>4, <2>5, <3>1, <5>1, FillAgrees DEF after
      <4> QED
        BY <2>2, <4>1, <4>2 DEF Proposed
    <3>2. CASE /\ ack.status = "REJECTED" /\ ack.reason = "insufficient"
               /\ broker' = broker
      <4>1. account' = account /\ killed' \in {"order latency", "order refused"}
        BY <2>1, <3>2 DEF Settle
      <4> QED
        BY <3>2, <4>1
    <3> HIDE DEF ack
    <3> QED
      BY <1>0, <2>2, <2>3, <2>4, <2>5, <3>1, <3>2, FillAgrees DEF ack
  <2>7. BooksAgree' /\ CashNonNegative' /\ PositionCap'
    BY <2>3, <2>6 DEF Inv, BooksAgree, CashNonNegative, PositionCap
  <2>8. killed' # "reconcile"
    BY <2>1, <2>3 DEF Settle
  <2>9. QuietSoFar'
    BY <2>2, <2>3, <2>6 DEF QuietSoFar, NotionalOK
  <2> QED
    BY <2>2, <2>7, <2>8, <2>9
       DEF Inv, ReconcileNeverFails, QuietTickWithinLimits, MirrorAgrees,
           LateKillFlattens, OrderOut, MirrorSynced, FlattensOnKill
<1>10. ASSUME CheckBooks PROVE Inv'
  <2>1. Reconciles(account, broker)
    BY <1>0, CashTolAssumption DEF Reconciles, Inv, BooksAgree, TypeOK
  <2>2. /\ pc = "reconcile" /\ pc' = AfterClose(killed)
        /\ UNCHANGED <<account, broker, killed, failures, tick>>
        /\ paper'.cash = paper.cash /\ paper'.shares = paper.shares
    BY <1>0, <1>10, <2>1 DEF CheckBooks, Reconcile, RuntimeTypeOK
  <2>3. /\ pc' \in {"idle", "flatten"}
        /\ pc' = "flatten" => killed # "no"
        /\ pc' = "idle" /\ FlattenOnKill /\ killed # "no" => account.shares = 0
    BY <1>0, <2>2 DEF AfterClose
  <2>4. BooksAgree' /\ CashNonNegative' /\ PositionCap' /\ ReconcileNeverFails'
    BY <2>2 DEF Inv, BooksAgree, CashNonNegative, PositionCap,
                ReconcileNeverFails
  <2>5. QuietTickWithinLimits'
    BY <2>2 DEF Inv, QuietSoFar, QuietTickWithinLimits, NotionalOK
  <2>6. MirrorAgrees' /\ MirrorSynced'
    BY <2>2 DEF Inv, MirrorAgrees, MirrorSynced
  <2> QED
    BY <2>2, <2>3, <2>4, <2>5, <2>6
       DEF Inv, LateKillFlattens, OrderOut, QuietSoFar, FlattensOnKill
<1>11. ASSUME SubmitFlatten PROVE Inv'
  <2> DEFINE ack == DryAck("SELL", account.shares, tick.price)
  <2>1. Flatten(ack) /\ broker' = DryBook("SELL", account.shares, tick.price)
    BY <1>11 DEF SubmitFlatten
  <2>2. /\ pc = "flatten" /\ pc' = "idle" /\ UNCHANGED <<killed, failures, tick>>
        /\ paper'.cash = account'.cash /\ paper'.shares = account'.shares
    BY <1>0, <2>1 DEF Flatten, RuntimeTypeOK
  <2>3. account.shares > 0 => Accepts("SELL", account.shares, tick.price)
    BY <1>0 DEF Accepts, Inv, BooksAgree
  <2>4. CASE account.shares > 0
    <3>1. /\ account' = ApplyFill(account, "SELL", ack.filled, ack.price, ack.fee)
          /\ account'.cash = broker'.cash /\ account'.shares = broker'.shares
          /\ account'.shares = account.shares + Signed("SELL", account.shares)
          /\ account.cash >= 0 => account'.cash >= 0
      BY <1>0, <2>1, <2>3, <2>4, FillAgrees DEF Flatten, Inv, RuntimeTypeOK, Sides
    <3>2. account'.shares = 0
      BY <1>0, <3>1, SMT DEF Signed
    <3>3. BooksAgree' /\ CashNonNegative' /\ PositionCap'
      BY <3>1, <3>2, LimitsAssumption
         DEF Inv, BooksAgree, CashNonNegative, PositionCap
    <3> QED
      BY <2>2, <3>2, <3>3
         DEF Inv, ReconcileNeverFails, QuietTickWithinLimits, MirrorAgrees,
             LateKillFlattens, OrderOut, QuietSoFar, MirrorSynced,
             FlattensOnKill
  <2>5. CASE account.shares = 0
    <3>1. ack.status = "REJECTED" /\ broker' = broker
      BY <2>1, <2>5 DEF DryAck, DryBook
    <3>2. account' = account
      BY <2>1, <3>1 DEF Flatten
    <3> QED
      BY <2>2, <2>5, <3>1, <3>2
         DEF Inv, BooksAgree, CashNonNegative, PositionCap,
             ReconcileNeverFails, QuietTickWithinLimits, MirrorAgrees,
             LateKillFlattens, OrderOut, QuietSoFar, MirrorSynced,
             FlattensOnKill
  <2> QED
    BY <1>0, <2>4, <2>5
<1>12. ASSUME UNCHANGED vars PROVE Inv'
  BY <1>12 DEF vars, Inv, BooksAgree, CashNonNegative, PositionCap,
               ReconcileNeverFails, QuietTickWithinLimits, MirrorAgrees,
               LateKillFlattens, OrderOut, QuietSoFar, MirrorSynced,
               FlattensOnKill, NotionalOK, Proposed, Pending
<1> QED
  BY <1>1, <1>2, <1>3, <1>5, <1>6, <1>7, <1>8, <1>9, <1>10, <1>11, <1>12
     DEF Next, RunLocal, LocalStep, Ended

LEMMA Invariance == Spec => [](TypeInv /\ Inv)
<1>1. Init => TypeInv /\ Inv
  BY TypeInvInit, InvInit
<1>2. TypeInv /\ Inv /\ [Next]_vars => (TypeInv /\ Inv)'
  BY TypeInvNext, InvNext
<1> QED
  BY <1>1, <1>2, PTL DEF Spec

-----------------------------------------------------------------------------
(***************************************************************************)
(* The order book against the position.  The order that awaits its answer  *)
(* has filled nothing, so that the answer adds all of its fill.            *)
(***************************************************************************)
AwaitedIsUnfilled == pc = "submit" => Pending.filled = 0

BookInv == BookExplainsPosition /\ AwaitedIsUnfilled

LEMMA BookInvInit == Init => BookInv
<1> SUFFICES ASSUME Init PROVE BookInv
  OBVIOUS
<1>1. book = << >> /\ account.shares = 0 /\ pc = "idle"
  BY DEF Init, InitRuntime
<1>2. NetFilled(<< >>) = Total(<< >>)
  BY DEF NetFilled
<1> QED
  BY <1>1, <1>2, TotalEmpty DEF BookInv, BookExplainsPosition, AwaitedIsUnfilled

\* A step that leaves orders and position alone.
LEMMA BookInvSame ==
  ASSUME BookInv, UNCHANGED book, account'.shares = account.shares, pc' # "submit"
  PROVE  BookInv'
  BY DEF BookInv, BookExplainsPosition, AwaitedIsUnfilled

LEMMA BookInvPlace ==
  ASSUME TypeInv, BookInv, NEW p \in Prices, NEW want \in Targets, PlaceOrder(p, want)
  PROVE  BookInv'
<1> DEFINE target == Verdict(p, want).target
           order  == IF target > account.shares
                       THEN NewOrder("BUY", target - account.shares)
                       ELSE NewOrder("SELL", account.shares - target)
<1>1. RuntimeTypeOK /\ account.shares \in Nat /\ book \in Seq(Order)
  BY DEF TypeInv, TypeOK, RuntimeTypeOK
<1>2. target \in Nat
  BY <1>1, VerdictType DEF PlaceOrder
<1>3. order \in Order /\ order.filled = 0
  <2> HIDE DEF target
  <2> QED
    BY <1>1, <1>2, SMT DEF NewOrder, Order, Sides, Phases
<1>4. book' = Append(book, order) /\ account'.shares = account.shares /\ pc' = "submit"
  BY <1>1, MarkedType DEF PlaceOrder, Consider
<1> HIDE DEF order
<1>5. NetFilled(book') = NetFilled(book) + Signed(order.side, order.filled)
  BY <1>1, <1>3, <1>4, NetAppend
<1>6. Signed(order.side, order.filled) = 0
  BY <1>3, NothingSigned DEF Order
<1>7. NetFilled(book') = account'.shares
  BY <1>1, <1>4, <1>5, <1>6 DEF BookInv, BookExplainsPosition
<1>8. Pending'.filled = 0
  <2>1. book'[Len(book')] = order
    BY <1>1, <1>3, <1>4, SMT
  <2> QED
    BY <1>3, <2>1 DEF Pending
<1> QED
  BY <1>7, <1>8 DEF BookInv, BookExplainsPosition, AwaitedIsUnfilled

\* The answer to an order moves the book as it moves the account.
LEMMA BookInvSubmit == TypeInv /\ Inv /\ BookInv /\ Submit => BookInv'
<1> SUFFICES ASSUME TypeInv, Inv, BookInv, Submit PROVE BookInv'
  OBVIOUS
<1> DEFINE side == Pending.side
           qty  == Pending.qty
           ack  == DryAck(side, qty, tick.price)
           done == ApplyResult(Pending, ack)
<1>1. PICK slow \in BOOLEAN : Settle(ack, slow)
  BY DEF Submit
<1>2. /\ pc = "submit" /\ pc' = "close"
      /\ book' = [book EXCEPT ![Len(book)] = done]
  BY <1>1 DEF Settle, Pending
<1>3. /\ TypeOK /\ BooksAgree /\ qty > 0 /\ tick.price \in Prices
      /\ book \in Seq(Order) /\ Len(book) > 0 /\ account.shares \in Nat
  BY <1>2 DEF Inv, OrderOut, TypeInv, TypeOK, RuntimeTypeOK
<1>4. Pending \in Order /\ Len(book) \in 1 .. Len(book) /\ Pending.filled = 0
  BY <1>2, <1>3, LastOfSeq DEF Pending, BookInv, AwaitedIsUnfilled
<1>5. side \in Sides /\ qty \in Nat
  BY <1>4 DEF Order
<1>6. ack \in Ack
  BY <1>3, <1>5, DryAckType
<1>7. done \in Order /\ done.side = side
      /\ done.filled = IF ack.status = "FILLED" THEN ack.filled ELSE 0
  <2>1. done \in Order
    BY <1>4, <1>6, ApplyResultType
  <2> QED
    BY <1>4, <2>1 DEF ApplyResult, Order
<1>8. \/ /\ ack.status = "FILLED" /\ ack.filled = qty
         /\ account'.shares = account.shares + Signed(side, qty)
      \/ ack.status = "REJECTED" /\ account' = account
  <2>1. \/ /\ ack.status = "FILLED" /\ ack.filled = qty
           /\ CanApplyFill(account, side, ack.filled, ack.price, ack.fee)
           /\ ApplyFill(account, side, ack.filled, ack.price, ack.fee).shares =
                account.shares + Signed(side, qty)
        \/ ack.status = "REJECTED"
    BY <1>3, <1>5, FillAgrees
  <2> HIDE DEF ack
  <2> QED
    BY <1>1, <2>1 DEF Settle
<1>9. NetFilled(book') = NetFilled(book) + Signed(done.side, done.filled)
  <2> HIDE DEF done
  <2> QED
    BY <1>2, <1>3, <1>4, <1>7, NetAnswered DEF Pending
<1>10. NetFilled(book) = account.shares
  BY DEF BookInv, BookExplainsPosition
<1> HIDE DEF done, ack, side, qty
<1>11. NetFilled(book') = account'.shares
  <2>1. CASE ack.status = "FILLED"
    BY <1>7, <1>8, <1>9, <1>10, <2>1
  <2>2. CASE ack.status # "FILLED"
    <3>1. done.filled = 0 /\ 0 \in Int
      BY <1>7, <2>2
    <3>2. Signed(done.side, done.filled) = 0
      BY <3>1, NothingSigned
    <3> QED
      BY <1>3, <1>8, <1>9, <1>10, <2>2, <3>2
  <2> QED
    BY <2>1, <2>2
<1> QED
  BY <1>2, <1>11 DEF BookInv, BookExplainsPosition, AwaitedIsUnfilled

\* So does the answer to a flatten order.
LEMMA BookInvFlatten == TypeInv /\ Inv /\ BookInv /\ SubmitFlatten => BookInv'
<1> SUFFICES ASSUME TypeInv, Inv, BookInv, SubmitFlatten PROVE BookInv'
  OBVIOUS
<1> DEFINE qty  == account.shares
           ack  == DryAck("SELL", qty, tick.price)
           done == ApplyResult(FlattenOrder, ack)
<1>1. Flatten(ack)
  BY DEF SubmitFlatten
<1>2. pc' = "idle" /\ book' = Append(book, done)
  BY <1>1 DEF Flatten
<1>3. /\ TypeOK /\ BooksAgree /\ tick.price \in Prices
      /\ book \in Seq(Order) /\ qty \in Nat /\ "SELL" \in Sides
  BY DEF Inv, TypeInv, TypeOK, RuntimeTypeOK, Sides
<1>4. FlattenOrder \in Order
  BY <1>3 DEF FlattenOrder, NewOrder, Order, Phases
<1>5. ack \in Ack
  BY <1>3, DryAckType
<1>6. done \in Order /\ done.side = "SELL"
      /\ done.filled = IF ack.status = "FILLED" THEN ack.filled ELSE 0
  <2>1. done \in Order
    BY <1>4, <1>5, ApplyResultType
  <2> QED
    BY <2>1 DEF ApplyResult, FlattenOrder, NewOrder
<1>7. \/ /\ ack.status = "FILLED" /\ ack.filled = qty
         /\ account'.shares = account.shares + Signed("SELL", qty)
      \/ ack.status = "REJECTED" /\ account' = account
  <2>1. CASE qty > 0
    <3>1. \/ /\ ack.status = "FILLED" /\ ack.filled = qty
             /\ CanApplyFill(account, "SELL", ack.filled, ack.price, ack.fee)
             /\ ApplyFill(account, "SELL", ack.filled, ack.price, ack.fee).shares =
                  account.shares + Signed("SELL", qty)
          \/ ack.status = "REJECTED"
      BY <1>3, <2>1, FillAgrees
    <3> HIDE DEF ack
    <3> QED
      BY <1>1, <3>1 DEF Flatten
  <2>2. CASE ~ (qty > 0)
    <3>1. ack.status = "REJECTED"
      BY <2>2 DEF DryAck
    <3> HIDE DEF ack
    <3> QED
      BY <1>1, <3>1 DEF Flatten
  <2> QED
    BY <2>1, <2>2
<1>8. NetFilled(book') = NetFilled(book) + Signed(done.side, done.filled)
  <2> HIDE DEF done
  <2> QED
    BY <1>2, <1>3, <1>6, NetAppend
<1>9. NetFilled(book) = account.shares
  BY DEF BookInv, BookExplainsPosition
<1> HIDE DEF done, ack
<1>10. NetFilled(book') = account'.shares
  <2>1. CASE ack.status = "FILLED"
    BY <1>6, <1>7, <1>8, <1>9, <2>1
  <2>2. CASE ack.status # "FILLED"
    <3>1. done.filled = 0 /\ 0 \in Int
      BY <1>6, <2>2
    <3>2. Signed(done.side, done.filled) = 0
      BY <3>1, NothingSigned
    <3> QED
      BY <1>3, <1>7, <1>8, <1>9, <2>2, <3>2
  <2> QED
    BY <2>1, <2>2
<1> QED
  BY <1>2, <1>10 DEF BookInv, BookExplainsPosition, AwaitedIsUnfilled

LEMMA BookInvNext == TypeInv /\ Inv /\ BookInv /\ [Next]_vars => BookInv'
<1> SUFFICES ASSUME TypeInv, Inv, BookInv, [Next]_vars PROVE BookInv'
  OBVIOUS
<1>0. RuntimeTypeOK
  BY DEF TypeInv, TypeOK
<1>1. ASSUME FeedLagKill \/ CloseTick \/ CheckBooks PROVE BookInv'
  <2>1. UNCHANGED book /\ account'.shares = account.shares /\ pc' # "submit"
    <3>1. CASE FeedLagKill
      BY <3>1 DEF FeedLagKill, Ready
    <3>2. CASE CloseTick
      <4>1. account' = Marked(tick.price) /\ tick.price \in Prices
        BY <1>0, <3>2 DEF CloseTick, Marked, RuntimeTypeOK
      <4>2. account'.shares = account.shares
        BY <1>0, <4>1, MarkedType DEF RuntimeTypeOK
      <4> QED
        BY <3>2, <4>2 DEF CloseTick, AfterClose
    <3>3. CASE CheckBooks
      BY <3>3 DEF CheckBooks, Reconcile, AfterClose
    <3> QED
      BY <1>1, <3>1, <3>2, <3>3
  <2> QED
    BY <2>1, BookInvSame
<1>2. ASSUME NEW p \in Prices, OffHours(p) \/ DecisionKill(p)
      PROVE  BookInv'
  <2>1. account' = Marked(p) /\ UNCHANGED <<book, pc>> /\ pc = "idle"
    BY <1>2 DEF OffHours, DecisionKill, Consider, Ready, Marked
  <2>2. account'.shares = account.shares
    BY <1>0, <2>1, MarkedType DEF RuntimeTypeOK
  <2> QED
    BY <2>1, <2>2, BookInvSame
<1>3. ASSUME NEW p \in Prices, NEW want \in Targets, RiskKill(p, want) \/ Hold(p, want)
      PROVE  BookInv'
  <2>1. account' = Marked(p) /\ UNCHANGED book /\ pc' # "submit"
    BY <1>3 DEF RiskKill, Hold, Consider, Ready
  <2>2. account'.shares = account.shares
    BY <1>0, <2>1, MarkedType DEF RuntimeTypeOK
  <2> QED
    BY <2>1, <2>2, BookInvSame
<1>4. ASSUME UNCHANGED vars PROVE BookInv'
  BY <1>4 DEF vars, BookInv, BookExplainsPosition, AwaitedIsUnfilled, Pending
<1> QED
  BY <1>1, <1>2, <1>3, <1>4, BookInvPlace, BookInvSubmit, BookInvFlatten
     DEF Next, RunLocal, LocalStep, Ended

\* The position is what the order book says was bought less what was sold, in
\* every state of a tick and after every refusal, kill and flatten (runtime.py
\* 160-207 and 252-277, orders.py apply_result).
THEOREM BookExplains == Spec => []BookExplainsPosition
<1>1. Init => TypeInv /\ Inv /\ BookInv
  BY TypeInvInit, InvInit, BookInvInit
<1>2. TypeInv /\ Inv /\ BookInv /\ [Next]_vars => (TypeInv /\ Inv /\ BookInv)'
  BY TypeInvNext, InvNext, BookInvNext
<1>3. BookInv => BookExplainsPosition
  BY DEF BookInv
<1> QED
  BY <1>1, <1>2, <1>3, PTL DEF Spec

-----------------------------------------------------------------------------
\* The account and the dry-run broker's own book never differ, for every fee,
\* slippage, limit, target and price, and whatever kills a tick (runtime.py
\* 153-204 and 248-277 against equity_broker.py 36-90).
THEOREM BooksAlwaysAgree == Spec => []BooksAgree
<1>1. Inv => BooksAgree
  BY DEF Inv
<1> QED
  BY <1>1, Invariance, PTL

\* Hence no reconcile over this broker fails and no run is killed by one
\* (runtime.py 233-246).
THEOREM ReconcileAlwaysPasses == Spec => []ReconcileNeverFails
<1>1. Inv => ReconcileNeverFails
  BY DEF Inv
<1> QED
  BY <1>1, Invariance, PTL

\* No order is ever filled on credit, on either book.
THEOREM CashStaysNonNegative == Spec => []CashNonNegative
<1>1. Inv => CashNonNegative
  BY DEF Inv
<1> QED
  BY <1>1, Invariance, PTL

\* max_position_shares bounds the position in every state of every run.
THEOREM PositionStaysCapped == Spec => []PositionCap
<1>1. Inv => PositionCap
  BY DEF Inv
<1> QED
  BY <1>1, Invariance, PTL

\* A session tick that ends without a kill ends within max_loss_usd and
\* max_notional_usd at its own mark (runtime.py 112-137, 217-228).
THEOREM QuietTicksWithinLimits == Spec => []QuietTickWithinLimits
<1>1. Inv => QuietTickWithinLimits
  BY DEF Inv
<1> QED
  BY <1>1, Invariance, PTL

\* The bundle's mirror has the account's cash and shares between ticks
\* (runtime.py 209-215, 276-277).
THEOREM MirrorAlwaysAgrees == Spec => []MirrorAgrees
<1>1. Inv => MirrorAgrees
  BY DEF Inv
<1> QED
  BY <1>1, Invariance, PTL

\* A kill decided after the tick's order is followed by a flatten that leaves
\* nothing held (runtime.py 248-277).
THEOREM LateKillsFlatten == Spec => []LateKillFlattens
<1>1. Inv => LateKillFlattens
  BY DEF Inv
<1> QED
  BY <1>1, Invariance, PTL

\* After a kill no step increases the position.
THEOREM NoBuyAfterKill == Spec => KilledNeverBuys
<1>1. ASSUME TypeInv, Inv, [Next]_vars
      PROVE  [killed # "no" => account'.shares <= account.shares]_vars
  <2> SUFFICES ASSUME killed # "no" PROVE account'.shares <= account.shares
    OBVIOUS
  <2>1. RuntimeTypeOK /\ account.shares \in Nat
    BY <1>1 DEF TypeInv, TypeOK, RuntimeTypeOK
  <2>2. pc # "submit"
    BY <1>1 DEF Inv, OrderOut
  <2>3. CASE CloseTick
    BY <2>1, <2>3, MarkedType DEF CloseTick, Marked, RuntimeTypeOK
  <2>4. CASE CheckBooks
    BY <2>1, <2>4 DEF CheckBooks, Reconcile
  <2>5. CASE SubmitFlatten
    <3> DEFINE ack == DryAck("SELL", account.shares, tick.price)
    <3>1. Flatten(ack)
      BY <2>5 DEF SubmitFlatten
    <3>2. ack.filled \in Nat
      BY <2>1, DryAckType DEF Ack, RuntimeTypeOK, Sides
    <3> HIDE DEF ack
    <3>3. account' = account \/ account'.shares = account.shares - ack.filled
      BY <2>1, <3>1 DEF Flatten, ApplyFill, RuntimeTypeOK
    <3> QED
      BY <2>1, <3>2, <3>3, SMT
  <2>6. CASE UNCHANGED vars
    BY <2>1, <2>6 DEF vars
  <2> QED
    BY <1>1, <2>2, <2>3, <2>4, <2>5, <2>6
       DEF Next, RunLocal, LocalStep, Ended, Submit, Settle, FeedLagKill,
           OffHours, DecisionKill, RiskKill, Hold, PlaceOrder, Consider, Ready
<1> QED
  BY <1>1, Invariance, PTL DEF Spec, KilledNeverBuys

-----------------------------------------------------------------------------
(***************************************************************************)
(* LiveDry implements TradingBook, the broker's book and the kill flag     *)
(* being its state.                                                        *)
(***************************************************************************)

\* What an order the broker accepts does to its book, in terms of CashFlow.
LEMMA DryBookMoves ==
  ASSUME TypeOK, NEW side \in Sides, NEW qty \in Nat, qty > 0,
         NEW p \in Prices, Accepts(side, qty, p)
  PROVE  /\ DryBook(side, qty, p).cash = broker.cash + CashFlow(side, qty, p)
         /\ DryBook(side, qty, p).shares = broker.shares + Signed(side, qty)
<1>1. broker.cash \in Int /\ broker.shares \in Nat
  BY DEF TypeOK
<1>2. /\ ExecPrice(side, p) \in Nat /\ FeeFor(qty) \in Nat
      /\ qty * ExecPrice(side, p) \in Nat
  BY ExecPriceNat, FeeAssumption, ProductNat DEF FeeFor
<1>3. CASE side = "BUY"
  <2>1. DryBook(side, qty, p) =
          [cash   |-> broker.cash - (qty * ExecPrice(side, p) + FeeFor(qty)),
           shares |-> broker.shares + qty]
    BY <1>3 DEF DryBook
  <2>2. CashFlow(side, qty, p) = -(qty * ExecPrice(side, p) + FeeFor(qty))
    BY <1>3 DEF CashFlow
  <2>3. Signed(side, qty) = qty
    BY <1>3 DEF Signed
  <2> HIDE DEF ExecPrice
  <2> QED
    BY <1>1, <1>2, <2>1, <2>2, <2>3, SMT
<1>4. CASE side = "SELL"
  <2>1. DryBook(side, qty, p) =
          [cash   |-> broker.cash + (qty * ExecPrice(side, p) - FeeFor(qty)),
           shares |-> broker.shares - qty]
    BY <1>4 DEF DryBook
  <2>2. CashFlow(side, qty, p) = qty * ExecPrice(side, p) - FeeFor(qty)
    BY <1>4 DEF CashFlow
  <2>3. Signed(side, qty) = -qty
    BY <1>4 DEF Signed
  <2> QED
    BY <1>1, <1>2, <2>1, <2>2, <2>3, SMT
<1> QED
  BY <1>3, <1>4 DEF Sides

\* The abstract specification counts cash with the same operator.
LEMMA SameCashFlow ==
  ASSUME NEW side, NEW qty, NEW p
  PROVE  Abstract!CashFlow(side, qty, p) = CashFlow(side, qty, p)
BY DEF CashFlow, ExecPrice, FeeFor, Abstract!CashFlow, Abstract!ExecPrice,
       Abstract!FeeFor

LEMMA AbstractInit == Init => Abstract!Init
BY DEF Init, InitRuntime, Abstract!Init

LEMMA AbstractNext ==
  TypeInv /\ Inv /\ Inv' /\ [Next]_vars => [Abstract!Next]_(Abstract!bookVars)
<1> SUFFICES ASSUME TypeInv, Inv, Inv', [Next]_vars
             PROVE  [Abstract!Next]_(Abstract!bookVars)
  OBVIOUS
<1> USE DEF Abstract!bookVars
<1>0. /\ TypeOK /\ tick.price \in Prices /\ BooksAgree
      /\ broker.shares \in Nat /\ broker.cash \in Int
  BY DEF TypeInv, TypeOK, RuntimeTypeOK, Inv
<1>1. CASE UNCHANGED broker
  <2>1. CASE killed # "no" /\ killed' = "no"
    <3>1. ~ (killed # "no" /\ killed' = "no")
      BY <1>0, <1>1
         DEF Next, RunLocal, LocalStep, Ended, vars, Submit, Settle, CheckBooks,
             Reconcile, SubmitFlatten, Flatten, CloseTick, FeedLagKill, OffHours,
             DecisionKill, RiskKill, Hold, PlaceOrder, Consider, Ready
    <3> QED
      BY <2>1, <3>1
  <2>2. CASE killed = "no" /\ killed' # "no"
    BY <1>1, <2>2 DEF Abstract!Next, Abstract!Stop
  <2>3. CASE (killed # "no") = (killed' # "no")
    BY <1>1, <2>3
  <2> QED
    BY <2>1, <2>2, <2>3
<1>2. ASSUME Submit, broker' # broker PROVE Abstract!Next
  <2> DEFINE qty == Pending.qty
             side == Pending.side
  <2>1. broker' = DryBook(side, qty, tick.price) /\ pc = "submit"
    BY <1>2 DEF Submit, Settle
  <2>2. /\ killed = "no" /\ side \in Sides /\ qty \in Nat /\ qty > 0
    <3>1. killed = "no" /\ qty > 0
      BY <2>1 DEF Inv, OrderOut
    <3>2. Pending \in Order
      BY <2>1, LastOfSeq DEF Pending, TypeInv, TypeOK, RuntimeTypeOK
    <3> QED
      BY <3>1, <3>2 DEF Order
  <2>3. Accepts(side, qty, tick.price)
    BY <1>2, <2>1 DEF DryBook
  <2>4. /\ broker'.cash = broker.cash + CashFlow(side, qty, tick.price)
        /\ broker'.shares = broker.shares + Signed(side, qty)
    BY <1>0, <2>1, <2>2, <2>3, DryBookMoves
  <2>5. /\ broker'.cash >= 0
        /\ MaxPosition # None => broker'.shares <= MaxPosition
    BY DEF Inv, CashNonNegative, PositionCap, BooksAgree
  <2> HIDE DEF qty, side
  <2>6. CASE side = "BUY"
    <3>1. broker'.shares > broker.shares /\ broker'.shares - broker.shares = qty
      BY <1>0, <2>2, <2>4, <2>6, SMT DEF Signed
    <3>2. broker'.cash =
            broker.cash + CashFlow("BUY", broker'.shares - broker.shares,
                                   tick.price)
      BY <2>4, <2>6, <3>1
    <3>3. (killed # "no") = FALSE /\ (killed' # "no") \in BOOLEAN
      BY <2>2
    <3>4. Abstract!Buy(tick.price)
      BY <2>5, <3>1, <3>2, <3>3, SameCashFlow, Zenon DEF Abstract!Buy, Abstract!WithinCap
    <3> QED
      BY <1>0, <3>4 DEF Abstract!Next
  <2>7. CASE side = "SELL"
    <3>1. qty <= broker.shares
      BY <2>3, <2>7 DEF Accepts
    <3>2. /\ broker'.shares >= 0 /\ broker'.shares < broker.shares
          /\ broker.shares - broker'.shares = qty
      BY <1>0, <2>2, <2>4, <2>7, <3>1, SMT DEF Signed
    <3>3. broker'.cash =
            broker.cash + CashFlow("SELL", broker.shares - broker'.shares,
                                   tick.price)
      BY <2>4, <2>7, <3>2
    <3>4. (killed # "no") = FALSE /\ (killed' # "no") \in BOOLEAN
      BY <2>2
    <3>5. Abstract!Sell(tick.price)
      BY <3>2, <3>3, <3>4, SameCashFlow, Zenon DEF Abstract!Sell
    <3> QED
      BY <1>0, <3>5 DEF Abstract!Next
  <2> QED
    BY <2>2, <2>6, <2>7 DEF Sides
<1>3. ASSUME SubmitFlatten, broker' # broker PROVE Abstract!Next
  <2>1. /\ broker' = DryBook("SELL", account.shares, tick.price)
        /\ pc = "flatten" /\ UNCHANGED killed
    BY <1>3 DEF SubmitFlatten, Flatten
  <2>2. account.shares = broker.shares /\ killed # "no"
    BY <1>0, <2>1 DEF BooksAgree, Inv, FlattensOnKill
  <2>3. /\ Accepts("SELL", broker.shares, tick.price) /\ broker.shares > 0
    BY <1>0, <1>3, <2>1, <2>2 DEF DryBook
  <2>4. /\ broker'.cash = broker.cash + CashFlow("SELL", broker.shares, tick.price)
        /\ broker'.shares = broker.shares + Signed("SELL", broker.shares)
    BY <1>0, <2>1, <2>2, <2>3, DryBookMoves DEF Sides
  <2>5. broker'.shares = 0
    BY <1>0, <2>4, SMT DEF Signed
  <2>6. (killed # "no") = TRUE /\ (killed' # "no") = (killed # "no")
    BY <2>1, <2>2
  <2>7. Abstract!Unwind(tick.price)
    BY <2>3, <2>4, <2>5, <2>6, SameCashFlow, Zenon DEF Abstract!Unwind
  <2> QED
    BY <1>0, <2>7 DEF Abstract!Next
<1> QED
  BY <1>1, <1>2, <1>3 DEF Next, RunLocal, CheckBooks, Ended, vars

\* Every run of the loop over the dry-run broker is a run of the trading book:
\* it pays execution price and fees for what it trades, stays within cash and
\* cap, and after the kill only sells off what it holds.
THEOREM LiveDryImplements == Spec => ImplementsTradingBook
<1>1. Spec => [](TypeInv /\ Inv) /\ Init /\ [][Next]_vars
  BY Invariance DEF Spec
<1> QED
  BY <1>1, AbstractInit, AbstractNext, PTL DEF ImplementsTradingBook, Abstract!Spec
=============================================================================
