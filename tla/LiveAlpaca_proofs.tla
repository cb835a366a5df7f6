------------------------- MODULE LiveAlpaca_proofs --------------------------
(***************************************************************************)
(* Invariants of LiveAlpaca for every choice of prices, limits, targets    *)
(* and session length, with a network and an exchange that do what they    *)
(* please within Outcomes, ExecuteLate and Lapse.                          *)
(***************************************************************************)
EXTENDS LiveAlpaca, Shared_proofs

-----------------------------------------------------------------------------
(***************************************************************************)
(* The runtime's part of a step.                                           *)
(***************************************************************************)
Accounts == [cash : Int, shares : Nat, peak : Int]
Mirrors  == [cash : Int, shares : Nat, peak : Int, killed : BOOLEAN, filled : Int]

\* The account of a tick that starts.
LEMMA MarkedType ==
  ASSUME RuntimeTypeOK, NEW p \in Prices
  PROVE  Marked(p) \in Accounts /\ Marked(p).shares = account.shares
  BY MarkType DEF RuntimeTypeOK, Marked, Accounts

\* The target an order is placed for.
LEMMA TargetType ==
  ASSUME RuntimeTypeOK, NEW p \in Prices, NEW want \in Targets,
         Verdict(p, want).target # None
  PROVE  Verdict(p, want).target \in Nat
<1>1. account.cash \in Int /\ account.shares \in Nat
  BY DEF RuntimeTypeOK
<1>2. EquityAt(account.cash, account.shares, p) \in Int
  BY <1>1, EquityInt
<1>3. Marked(p).peak \in Int
  BY MarkedType DEF Accounts
<1>4. want \in Int
  BY RuntimeAssumption
<1> QED
  BY <1>1, <1>2, <1>3, <1>4, VerdictBounds DEF Verdict

\* A step without the broker keeps the types and the position, leaves a kill in
\* place, and either leaves the orders alone or registers one that is unfilled.
LEMMA LocalStepFacts ==
  ASSUME RuntimeTypeOK, LocalStep
  PROVE  /\ RuntimeTypeOK'
         /\ account'.shares = account.shares
         /\ killed' = "no" => killed = "no"
         /\ pc \in {"idle", "close"}
         /\ \/ book' = book /\ pc' # "submit"
            \/ /\ pc' = "submit"
               /\ \E o \in Order : o.filled = 0 /\ book' = Append(book, o)
<1> DEFINE Goal ==
      /\ RuntimeTypeOK'
      /\ account'.shares = account.shares
      /\ killed' = "no" => killed = "no"
      /\ pc \in {"idle", "close"}
      /\ \/ book' = book /\ pc' # "submit"
         \/ /\ pc' = "submit"
            /\ \E o \in Order : o.filled = 0 /\ book' = Append(book, o)
<1> USE DEF RuntimeTypeOK, Accounts, Mirrors
<1>1. CASE FeedLagKill
  BY <1>1 DEF FeedLagKill, Ready, KillReasons
<1>2. CASE CloseTick
  <2>1. account' = Marked(tick.price) /\ tick.price \in Prices
    BY <1>2 DEF CloseTick, Marked
  <2>2. paper' \in Mirrors
    BY <1>2 DEF CloseTick
  <2>3. /\ ticks' = ticks + 1 /\ killed' \in {"drawdown", killed}
        /\ pc' \in {"idle", "reconcile", "flatten"} /\ pc = "close"
        /\ UNCHANGED <<book, failures, tick>>
    BY <1>2 DEF CloseTick, AfterClose
  <2>4. account' \in Accounts /\ account'.shares = account.shares
    BY <2>1, MarkedType
  <2>5. killed' \in KillReasons \cup {"no"} /\ (killed' = "no" => killed = "no")
    <3>1. killed \in KillReasons \cup {"no"}
      OBVIOUS
    <3> QED
      BY <2>3, <3>1 DEF KillReasons
  <2>6. ticks' \in Nat
    <3>1. ticks \in Nat
      OBVIOUS
    <3> QED
      BY <2>3, <3>1
  <2> QED
    BY <2>2, <2>3, <2>4, <2>5, <2>6
<1>3. CASE \E p \in Prices : OffHours(p)
  <2>1. PICK p \in Prices : OffHours(p)
    BY <1>3
  <2>2. account' = Marked(p)
    BY <2>1 DEF OffHours, Marked
  <2> QED
    BY <2>1, <2>2, MarkedType DEF OffHours, Ready
<1>4. CASE \E p \in Prices : DecisionKill(p)
  <2>1. PICK p \in Prices : DecisionKill(p)
    BY <1>4
  <2> QED
    BY <2>1, MarkedType DEF DecisionKill, Consider, Ready, KillReasons
<1>5. CASE \E p \in Prices, want \in Targets : RiskKill(p, want)
  <2>1. PICK p \in Prices, want \in Targets : RiskKill(p, want)
    BY <1>5
  <2> QED
    BY <2>1, MarkedType DEF RiskKill, Consider, Ready, KillReasons
<1>6. CASE \E p \in Prices, want \in Targets : Hold(p, want)
  <2>1. PICK p \in Prices, want \in Targets : Hold(p, want)
    BY <1>6
  <2> QED
    BY <2>1, MarkedType DEF Hold, Consider, Ready
<1>7. CASE \E p \in Prices, want \in Targets : PlaceOrder(p, want)
  <2>1. PICK p \in Prices, want \in Targets : PlaceOrder(p, want)
    BY <1>7
  <2> DEFINE target == Verdict(p, want).target
             order  == IF target > account.shares
                         THEN NewOrder("BUY", target - account.shares)
                         ELSE NewOrder("SELL", account.shares - target)
  <2>2. target \in Nat
    BY <2>1, TargetType DEF PlaceOrder
  <2>3. order \in Order /\ order.filled = 0
    <3>1. account.shares \in Nat
      OBVIOUS
    <3> HIDE DEF target
    <3> QED BY <2>2, <3>1, SMT DEF NewOrder, Order, Sides, Phases
  <2>4. book' = Append(book, order)
    BY <2>1 DEF PlaceOrder
  <2> HIDE DEF order
  <2>5. book' \in Seq(Order)
    BY <2>3, <2>4, SMT
  <2>6. \E o \in Order : o.filled = 0 /\ book' = Append(book, o)
    BY <2>3, <2>4
  <2> QED
    BY <2>1, <2>5, <2>6, MarkedType DEF PlaceOrder, Consider, Ready
<1> QED
  BY <1>1, <1>2, <1>3, <1>4, <1>5, <1>6, <1>7 DEF LocalStep

\* An answer to the rebalance order keeps the types; the position moves only by
\* a fill of at least one share.
LEMMA SettleFacts ==
  ASSUME RuntimeTypeOK, Len(book) > 0, NEW ack \in Ack, NEW slow \in BOOLEAN,
         Settle(ack, slow)
  PROVE  /\ RuntimeTypeOK'
         /\ pc' = "close"
         /\ killed' = "no" => killed = "no"
         /\ book' = [book EXCEPT ![Len(book)] = ApplyResult(Pending, ack)]
         /\ account'.shares # account.shares =>
              ack.status = "FILLED" /\ ack.filled > 0
<1>1. Pending \in Order /\ Len(book) \in 1 .. Len(book) /\ book \in Seq(Order)
  BY LastOfSeq DEF Pending, RuntimeTypeOK
<1>2. account \in Accounts
  BY DEF RuntimeTypeOK, Accounts
<1>3. \/ account' = account
      \/ /\ ack.status = "FILLED"
         /\ CanApplyFill(account, Pending.side, ack.filled, ack.price, ack.fee)
         /\ account' = ApplyFill(account, Pending.side, ack.filled, ack.price,
                                 ack.fee)
  BY DEF Settle
<1>4. /\ account' \in Accounts
      /\ account'.shares # account.shares => ack.status = "FILLED" /\ ack.filled > 0
  BY <1>1, <1>2, <1>3, ApplyFillType DEF Order, Ack, Accounts, CanApplyFill
<1>5. book' = [book EXCEPT ![Len(book)] = ApplyResult(Pending, ack)]
  BY DEF Settle, Pending
<1>6. book' \in Seq(Order)
  <2>1. ApplyResult(Pending, ack) \in Order
    BY <1>1, ApplyResultType
  <2> QED
    BY <1>1, <1>5, <2>1, SMT
<1>7. paper' \in Mirrors
  <2>1. Signed(Pending.side, ack.filled) \in Int
    BY <1>1 DEF Signed, Ack, Order
  <2>2. paper \in Mirrors
    BY DEF RuntimeTypeOK, Mirrors
  <2>3. paper.filled + Signed(Pending.side, ack.filled) \in Int
    BY <2>1, <2>2 DEF Mirrors
  <2>4. \/ paper' = paper
        \/ paper' = [paper EXCEPT !.filled =
                       paper.filled + Signed(Pending.side, ack.filled)]
    BY DEF Settle
  <2> QED
    BY <2>2, <2>3, <2>4 DEF Mirrors
<1>8. killed' \in KillReasons \cup {"no"} /\ (killed' = "no" => killed = "no")
  BY DEF Settle, KillReasons, RuntimeTypeOK
<1> QED
  BY <1>4, <1>5, <1>6, <1>7, <1>8 DEF Settle, RuntimeTypeOK, Accounts, Mirrors

\* The flatten order, sent after a kill that stays.
LEMMA FlattenFacts ==
  ASSUME RuntimeTypeOK, NEW ack \in Ack, Flatten(ack)
  PROVE  /\ RuntimeTypeOK'
         /\ pc = "flatten" /\ pc' = "idle" /\ killed' = killed
         /\ book' = Append(book, ApplyResult(FlattenOrder, ack))
         /\ FlattenOrder \in Order
         /\ account'.shares # account.shares =>
              ack.status = "FILLED" /\ ack.filled > 0
<1>1. account \in Accounts
  BY DEF RuntimeTypeOK, Accounts
<1>2. /\ account' \in Accounts
      /\ account'.shares # account.shares => ack.status = "FILLED" /\ ack.filled > 0
  <2>1. \/ account' = account
        \/ /\ ack.status = "FILLED"
           /\ CanApplyFill(account, "SELL", ack.filled, ack.price, ack.fee)
           /\ account' = ApplyFill(account, "SELL", ack.filled, ack.price, ack.fee)
    BY DEF Flatten
  <2> QED
    BY <1>1, <2>1, ApplyFillType DEF Ack, Sides, Accounts, CanApplyFill
<1>3. FlattenOrder \in Order
  BY <1>1 DEF FlattenOrder, NewOrder, Order, Sides, Phases, Accounts
<1>4. book' \in Seq(Order)
  BY <1>3, ApplyResultType DEF Flatten, RuntimeTypeOK
<1>5. paper' \in Mirrors
  BY <1>2 DEF Flatten, RuntimeTypeOK, Accounts, Mirrors
<1> QED
  BY <1>2, <1>3, <1>4, <1>5 DEF Flatten, RuntimeTypeOK, Accounts, Mirrors

\* The comparison with a snapshot changes no book; a session that goes on after
\* it had the position of the snapshot, if a mismatch is a kill.
LEMMA ReconcileFacts ==
  ASSUME RuntimeTypeOK, NEW snap, Reconcile(snap)
  PROVE  /\ RuntimeTypeOK'
         /\ pc = "reconcile" /\ pc' \in {"idle", "flatten"}
         /\ UNCHANGED <<account, book>>
         /\ killed' = "no" => /\ killed = "no"
                              /\ KillOnMismatch => account.shares = snap.shares
<1>1. /\ failures' \in {failures, failures + 1}
      /\ killed' \in {"reconcile", killed}
      /\ paper' = [paper EXCEPT !.killed = paper'.killed]
      /\ paper'.killed \in {TRUE, paper.killed}
      /\ pc = "reconcile" /\ pc' \in {"idle", "flatten"}
      /\ UNCHANGED <<account, book, ticks, tick>>
  BY DEF Reconcile, AfterClose, RuntimeTypeOK
<1>2. killed \in KillReasons \cup {"no"} /\ failures \in Nat /\ paper \in Mirrors
  BY DEF RuntimeTypeOK, Mirrors
<1>3. killed' \in KillReasons \cup {"no"} /\ failures' \in Nat
  <2>1. "reconcile" \in KillReasons
    BY DEF KillReasons
  <2> QED
    BY <1>1, <1>2, <2>1
<1>4. paper' \in Mirrors
  BY <1>1, <1>2 DEF Mirrors
<1>5. killed' = "no" => killed = "no" /\ (KillOnMismatch => account.shares = snap.shares)
  BY DEF Reconcile, Reconciles
<1> QED
  BY <1>1, <1>3, <1>4, <1>5 DEF RuntimeTypeOK, Mirrors

-----------------------------------------------------------------------------
(***************************************************************************)
(* The exchange's part of a step.                                          *)
(***************************************************************************)
Entries == [executed : Nat, live : BOOLEAN]

LEMMA PlainAckFacts ==
  ASSUME NEW s \in Statuses, NEW r \in Reasons
  PROVE  PlainAck(s, r) \in Ack /\ PlainAck(s, r).filled = 0
BY DEF PlainAck, Ack

LEMMA NotFilledFacts ==
  ASSUME NEW n \in Nat, NEW live \in BOOLEAN, NEW s \in Statuses,
         NEW out \in NotFilled(n, live, s)
  PROVE  /\ out.ack \in Ack /\ out.ack.filled = 0
         /\ out.executed = n /\ out.live \in BOOLEAN /\ out.price \in Prices
<1>1. PICK p \in Prices : out = Report(n, p, live, PlainAck(s, "other"))
  BY DEF NotFilled
<1>2. PlainAck(s, "other") \in Ack /\ PlainAck(s, "other").filled = 0
  BY PlainAckFacts DEF Reasons
<1> QED
  BY <1>1, <1>2 DEF Report

\* An order without an answer may have been executed, and is reported unfilled.
LEMMA UnansweredFacts ==
  ASSUME NEW qty \in Nat, NEW out \in Unanswered(qty), tick.price \in Prices
  PROVE  /\ out.ack \in Ack /\ out.ack.filled = 0
         /\ out.executed \in 0 .. qty /\ out.live \in BOOLEAN /\ out.price \in Prices
<1> DEFINE N == IF LateFills THEN 0 .. qty ELSE {qty}
<1>1. CASE out = Report(0, tick.price, FALSE, PlainAck("REJECTED", "other"))
  BY <1>1, PlainAckFacts DEF Report, Statuses, Reasons
<1>2. CASE \E n \in N : \/ out \in NotFilled(n, n < qty, "REJECTED")
                        \/ out \in NotFilled(n, n < qty, "NEW")
  <2>1. PICK n \in N : \/ out \in NotFilled(n, n < qty, "REJECTED")
                       \/ out \in NotFilled(n, n < qty, "NEW")
    BY <1>2
  <2>2. n \in Nat /\ n \in 0 .. qty
    OBVIOUS
  <2>3. /\ (n < qty) \in BOOLEAN
        /\ "REJECTED" \in Statuses /\ "NEW" \in Statuses
    BY DEF Statuses
  <2>4. /\ out.ack \in Ack /\ out.ack.filled = 0
        /\ out.executed = n /\ out.live \in BOOLEAN /\ out.price \in Prices
    BY <2>1, <2>2, <2>3, NotFilledFacts, Zenon
  <2> QED
    BY <2>2, <2>4
<1> QED
  BY <1>1, <1>2, Zenon DEF Unanswered

\* A reported fill is one of at least as many shares, at a price there is.
LEMMA AsFilledFacts ==
  ASSUME NEW n \in Nat, NEW live \in BOOLEAN, NEW out \in AsFilled(n, live),
         tick.price \in Prices
  PROVE  /\ out.ack \in Ack /\ out.ack.filled = n
         /\ out.executed = n /\ out.live \in BOOLEAN /\ out.price \in Prices
<1>1. PICK p \in Prices : \E q \in {p, tick.price} :
        out = Report(n, p, live, FilledAck(n, q))
  BY DEF AsFilled
<1>2. PICK q \in Prices : out = Report(n, p, live, FilledAck(n, q))
  BY <1>1
<1>3. FilledAck(n, q) \in Ack /\ FilledAck(n, q).filled = n
  <2>1. q \in Nat /\ Scale \in Nat
    BY PricesAssumption, ScaleAssumption
  <2>2. q * Scale \in Nat /\ FeeFor(n) \in Nat
    BY <2>1, ProductNat, FeeAssumption DEF FeeFor
  <2> QED
    BY <2>2 DEF FilledAck, Ack, Statuses, Reasons
<1> QED
  BY <1>2, <1>3 DEF Report

\* Whatever submit reports of an order, what it reports as filled was executed,
\* and no more was executed than was ordered.
LEMMA OutcomeFacts ==
  ASSUME NEW qty \in Nat, NEW out \in Outcomes(qty), tick.price \in Prices
  PROVE  /\ out.ack \in Ack
         /\ out.executed \in 0 .. qty /\ out.live \in BOOLEAN
         /\ out.price \in Prices
         /\ out.ack.filled <= out.executed
<1>0. \A s \in Statuses, r \in Reasons :
        PlainAck(s, r) \in Ack /\ PlainAck(s, r).filled = 0
  BY PlainAckFacts
<1>1. CASE out \in Refused
  <2>1. PICK r \in {"insufficient", "other"} :
          out = Report(0, tick.price, FALSE, PlainAck("REJECTED", r))
    BY <1>1 DEF Refused
  <2> QED
    BY <1>0, <2>1 DEF Report, Statuses, Reasons
<1>2. CASE out \in Filled(qty)
  <2>1. /\ out.ack \in Ack /\ out.ack.filled = qty
        /\ out.executed = qty /\ out.live \in BOOLEAN /\ out.price \in Prices
    BY <1>2, AsFilledFacts, Zenon DEF Filled
  <2> QED
    BY <2>1
<1>3. CASE out \in InParts(qty)
  <2>1. \/ \E n \in 1 .. qty - 1 : out \in AsFilled(n, TRUE)
        \/ \E n \in 0 .. qty - 1 : \/ out \in NotFilled(n, FALSE, "CANCELED")
                                   \/ out \in NotFilled(n, TRUE, "NEW")
    BY <1>3, Zenon DEF InParts
  <2>2. CASE \E n \in 1 .. qty - 1 : out \in AsFilled(n, TRUE)
    <3>1. PICK n \in 1 .. qty - 1 : out \in AsFilled(n, TRUE)
      BY <2>2
    <3>2. n \in Nat /\ n \in 0 .. qty /\ TRUE \in BOOLEAN
      OBVIOUS
    <3>3. /\ out.ack \in Ack /\ out.ack.filled = n
          /\ out.executed = n /\ out.live \in BOOLEAN /\ out.price \in Prices
      BY <3>1, <3>2, AsFilledFacts, Zenon
    <3> QED
      BY <3>2, <3>3
  <2>3. CASE \E n \in 0 .. qty - 1 : \/ out \in NotFilled(n, FALSE, "CANCELED")
                                     \/ out \in NotFilled(n, TRUE, "NEW")
    <3>1. PICK n \in 0 .. qty - 1 : \/ out \in NotFilled(n, FALSE, "CANCELED")
                                    \/ out \in NotFilled(n, TRUE, "NEW")
      BY <2>3
    <3>2. n \in Nat /\ n \in 0 .. qty
      OBVIOUS
    <3>3. /\ TRUE \in BOOLEAN /\ FALSE \in BOOLEAN
          /\ "CANCELED" \in Statuses /\ "NEW" \in Statuses
      BY DEF Statuses
    <3>4. /\ out.ack \in Ack /\ out.ack.filled = 0
          /\ out.executed = n /\ out.live \in BOOLEAN /\ out.price \in Prices
      BY <3>1, <3>2, <3>3, NotFilledFacts, Zenon
    <3> QED
      BY <3>2, <3>4
  <2> QED
    BY <2>1, <2>2, <2>3
<1>4. CASE out \in Unanswered(qty)
  <2>1. /\ out.ack \in Ack /\ out.ack.filled = 0
        /\ out.executed \in 0 .. qty /\ out.live \in BOOLEAN /\ out.price \in Prices
    BY <1>4, UnansweredFacts
  <2> QED
    BY <2>1
<1> QED
  BY <1>1, <1>2, <1>3, <1>4 DEF Outcomes

LEMMA ExecutedType ==
  ASSUME NEW acct \in [cash : Int, shares : Int], NEW side, NEW n \in Int,
         NEW p \in Prices
  PROVE  Executed(acct, side, n, p) \in [cash : Int, shares : Int]
<1>1. Signed(side, n) \in Int
  BY DEF Signed
<1>2. p \in Int /\ Scale \in Int
  BY PricesAssumption, ScaleAssumption
<1>3. Signed(side, n) * p * Scale \in Int
  BY <1>1, <1>2, SMT
<1> QED
  BY <1>1, <1>3 DEF Executed

-----------------------------------------------------------------------------
(***************************************************************************)
(* The inductive invariant.  The exchange has an entry for every order but *)
(* the one being submitted, which has no fill yet; and a program that goes *)
(* on is in step with the exchange whenever nothing was executed since the *)
(* last snapshot that had the position, at every point of a tick.          *)
(***************************************************************************)
OneEntryEach ==
  Len(exchange) = IF pc = "submit" THEN Len(book) - 1 ELSE Len(book)

PendingIsUnfilled == pc = "submit" => Pending.filled = 0

InStep ==
  killed = "no" /\ KillOnMismatch /\ ~ moved => account.shares = broker.shares

Inv == TypeOK /\ OneEntryEach /\ PendingIsUnfilled /\ FillsAreReal /\ InStep

LEMMA InvInit == Init => Inv
<1> SUFFICES ASSUME Init PROVE Inv
  OBVIOUS
<1>1. (CHOOSE p \in Prices : TRUE) \in Prices
  BY PricesAssumption
<1>2. RuntimeTypeOK
  BY <1>1, RuntimeAssumption DEF Init, InitRuntime, RuntimeTypeOK, Order
<1>3. /\ broker = [cash |-> BrokerCash, shares |-> 0] /\ BrokerCash \in Int
      /\ exchange = << >> /\ moved = FALSE /\ asked = << >>
  BY AlpacaAssumption DEF Init
<1>4. TypeOK
  <2>1. broker \in [cash : Int, shares : Int]
    BY <1>3
  <2>2. exchange \in Seq([executed : Nat, live : BOOLEAN])
    BY <1>3
  <2>3. Len(asked) <= 1 /\ (asked # << >> => pc = "reconcile")
    BY <1>3
  <2>4. moved \in BOOLEAN
    BY <1>3
  <2> QED
    BY <1>2, <2>1, <2>2, <2>3, <2>4 DEF TypeOK
<1> QED
  BY <1>3, <1>4 DEF Init, InitRuntime, Inv, OneEntryEach, PendingIsUnfilled,
              FillsAreReal, InStep

\* The orders of a step's book agree with the exchange: an order that is new
\* or has a new answer is filled by no more than was executed of it.
LEMMA InvSubmit == Inv /\ Submit => Inv'
<1> SUFFICES ASSUME Inv, Submit PROVE Inv'
  OBVIOUS
<1>1. /\ RuntimeTypeOK /\ pc = "submit" /\ Len(exchange) = Len(book) - 1
      /\ broker \in [cash : Int, shares : Int]
      /\ exchange \in Seq(Entries) /\ moved \in BOOLEAN /\ asked' = asked
      /\ asked = << >> /\ Pending.filled = 0
  BY DEF Inv, TypeOK, OneEntryEach, PendingIsUnfilled, Submit, Entries
<1>2. book \in Seq(Order) /\ tick.price \in Prices /\ Len(book) > 0
  BY <1>1 DEF RuntimeTypeOK
<1>3. Pending \in Order
  BY <1>2, LastOfSeq DEF Pending
<1>4. Pending.qty \in Nat
  BY <1>3 DEF Order
<1>5. PICK out \in Outcomes(Pending.qty), slow \in BOOLEAN :
        Settle(out.ack, slow) /\ Placed(Pending.side, out)
  BY DEF Submit
<1> DEFINE ack == out.ack
           order == ApplyResult(Pending, ack)
<1>6. /\ ack \in Ack /\ out.executed \in 0 .. Pending.qty
      /\ out.live \in BOOLEAN /\ out.price \in Prices /\ ack.filled <= out.executed
  BY <1>2, <1>4, <1>5, OutcomeFacts
<1>7. /\ RuntimeTypeOK' /\ pc' = "close"
      /\ killed' = "no" => killed = "no"
      /\ book' = [book EXCEPT ![Len(book)] = order]
      /\ account'.shares # account.shares => ack.filled > 0
  BY <1>1, <1>2, <1>5, <1>6, SettleFacts
<1>8. /\ broker' = Executed(broker, Pending.side, out.executed, out.price)
      /\ exchange' = Append(exchange, [executed |-> out.executed, live |-> out.live])
      /\ moved' = (moved \/ out.executed > 0)
  BY <1>5 DEF Placed
<1>9. /\ order.qty = Pending.qty
      /\ order.filled = IF ack.status = "FILLED" THEN ack.filled ELSE 0
  BY <1>1, <1>3 DEF ApplyResult, Order
<1>10. ack.filled \in Nat
  BY <1>6 DEF Ack
<1> HIDE DEF ack, order
<1>11. TypeOK'
  <2>1. broker' \in [cash : Int, shares : Int]
    BY <1>1, <1>2, <1>6, <1>8, ExecutedType
  <2>2. exchange' \in Seq(Entries)
    <3>1. [executed |-> out.executed, live |-> out.live] \in Entries
      BY <1>6 DEF Entries
    <3> QED
      BY <1>1, <1>8, <3>1, SMT
  <2>3. moved' \in BOOLEAN
    BY <1>8
  <2>4. Len(asked') <= 1 /\ (asked' # << >> => pc' = "reconcile")
    BY <1>1
  <2> QED
    BY <1>7, <2>1, <2>2, <2>3, <2>4 DEF TypeOK, Entries
<1>12. OneEntryEach'
  BY <1>1, <1>2, <1>7, <1>8, SMT DEF OneEntryEach
<1>13. PendingIsUnfilled'
  BY <1>7 DEF PendingIsUnfilled
<1>14. FillsAreReal'
  <2> SUFFICES ASSUME NEW i \in DOMAIN exchange'
               PROVE  /\ book'[i].filled <= exchange'[i].executed
                      /\ exchange'[i].executed <= book'[i].qty
    BY DEF FillsAreReal
  <2>1. CASE i = Len(book)
    <3>1. book'[i] = order /\ exchange'[i].executed = out.executed
      BY <1>1, <1>2, <1>7, <1>8, <2>1
    <3> QED
      BY <1>4, <1>6, <1>9, <1>10, <3>1
  <2>2. CASE i # Len(book)
    <3>1. i \in DOMAIN exchange /\ book'[i] = book[i] /\ exchange'[i] = exchange[i]
      BY <1>1, <1>2, <1>7, <1>8, <2>2
    <3> QED
      BY <3>1 DEF Inv, FillsAreReal
  <2> QED
    BY <2>1, <2>2
<1>15. InStep'
  <2> SUFFICES ASSUME killed' = "no", KillOnMismatch, ~ moved'
               PROVE  account'.shares = broker'.shares
    BY DEF InStep
  <2>1. killed = "no" /\ ~ moved /\ ~ (out.executed > 0)
    BY <1>7, <1>8, Zenon
  <2>2. out.executed = 0
    BY <1>6, <2>1
  <2>3. account'.shares = account.shares
    BY <1>6, <1>7, <1>10, <2>2
  <2>4. broker'.shares = broker.shares
    <3>1. Signed(Pending.side, out.executed) = 0
      BY <2>2, NothingSigned
    <3>2. broker'.shares = broker.shares + Signed(Pending.side, out.executed)
      BY <1>8 DEF Executed
    <3>3. broker.shares \in Int
      BY <1>1
    <3> QED
      BY <2>2, <3>1, <3>2, <3>3
  <2> QED
    BY <2>1, <2>3, <2>4 DEF Inv, InStep
<1> QED
  BY <1>11, <1>12, <1>13, <1>14, <1>15 DEF Inv

LEMMA InvFlatten == Inv /\ SubmitFlatten => Inv'
<1> SUFFICES ASSUME Inv, SubmitFlatten PROVE Inv'
  OBVIOUS
<1>1. /\ RuntimeTypeOK /\ pc = "flatten" /\ Len(exchange) = Len(book)
      /\ broker \in [cash : Int, shares : Int]
      /\ exchange \in Seq(Entries) /\ moved \in BOOLEAN /\ asked' = asked
      /\ asked = << >>
  BY DEF Inv, TypeOK, OneEntryEach, SubmitFlatten, Entries
<1>2. book \in Seq(Order) /\ tick.price \in Prices /\ account.shares \in Nat
  BY <1>1 DEF RuntimeTypeOK
<1>3. PICK out \in Outcomes(account.shares) :
        Flatten(out.ack) /\ Placed("SELL", out)
  BY DEF SubmitFlatten
<1> DEFINE ack == out.ack
           order == ApplyResult(FlattenOrder, ack)
<1>4. /\ ack \in Ack /\ out.executed \in 0 .. account.shares
      /\ out.live \in BOOLEAN /\ out.price \in Prices /\ ack.filled <= out.executed
  BY <1>2, <1>3, OutcomeFacts
<1>5. /\ RuntimeTypeOK' /\ pc' = "idle" /\ killed' = killed
      /\ book' = Append(book, order) /\ FlattenOrder \in Order
      /\ account'.shares # account.shares => ack.filled > 0
  BY <1>1, <1>3, <1>4, FlattenFacts
<1>6. /\ broker' = Executed(broker, "SELL", out.executed, out.price)
      /\ exchange' = Append(exchange, [executed |-> out.executed, live |-> out.live])
      /\ moved' = (moved \/ out.executed > 0)
  BY <1>3 DEF Placed
<1>7. /\ order.qty = account.shares
      /\ order.filled = IF ack.status = "FILLED" THEN ack.filled ELSE 0
  BY DEF ApplyResult, FlattenOrder, NewOrder
<1>8. ack.filled \in Nat
  BY <1>4 DEF Ack
<1> HIDE DEF ack, order
<1>9. TypeOK'
  <2>1. broker' \in [cash : Int, shares : Int]
    BY <1>1, <1>2, <1>4, <1>6, ExecutedType
  <2>2. exchange' \in Seq(Entries)
    <3>1. [executed |-> out.executed, live |-> out.live] \in Entries
      BY <1>4 DEF Entries
    <3> QED
      BY <1>1, <1>6, <3>1, SMT
  <2>3. moved' \in BOOLEAN
    BY <1>6
  <2>4. Len(asked') <= 1 /\ (asked' # << >> => pc' = "reconcile")
    BY <1>1
  <2> QED
    BY <1>5, <2>1, <2>2, <2>3, <2>4 DEF TypeOK, Entries
<1>10. OneEntryEach'
  BY <1>1, <1>2, <1>5, <1>6, SMT DEF OneEntryEach
<1>11. PendingIsUnfilled'
  BY <1>5 DEF PendingIsUnfilled
<1>12. FillsAreReal'
  <2> SUFFICES ASSUME NEW i \in DOMAIN exchange'
               PROVE  /\ book'[i].filled <= exchange'[i].executed
                      /\ exchange'[i].executed <= book'[i].qty
    BY DEF FillsAreReal
  <2>1. CASE i = Len(book) + 1
    <3>1. book'[i] = order /\ exchange'[i].executed = out.executed
      BY <1>1, <1>2, <1>5, <1>6, <2>1
    <3> QED
      BY <1>2, <1>4, <1>7, <1>8, <3>1
  <2>2. CASE i # Len(book) + 1
    <3>1. i \in DOMAIN exchange /\ book'[i] = book[i] /\ exchange'[i] = exchange[i]
      BY <1>1, <1>2, <1>5, <1>6, <2>2
    <3> QED
      BY <3>1 DEF Inv, FillsAreReal
  <2> QED
    BY <2>1, <2>2
<1>13. InStep'
  <2> SUFFICES ASSUME killed' = "no", KillOnMismatch, ~ moved'
               PROVE  account'.shares = broker'.shares
    BY DEF InStep
  <2>1. killed = "no" /\ ~ moved /\ ~ (out.executed > 0)
    BY <1>5, <1>6, Zenon
  <2>2. out.executed = 0
    BY <1>4, <2>1
  <2>3. account'.shares = account.shares
    BY <1>4, <1>5, <1>8, <2>2
  <2>4. broker'.shares = broker.shares
    <3>1. Signed("SELL", out.executed) = 0
      BY <2>2, NothingSigned
    <3>2. broker'.shares = broker.shares + Signed("SELL", out.executed)
      BY <1>6 DEF Executed
    <3>3. broker.shares \in Int
      BY <1>1
    <3> QED
      BY <2>2, <3>1, <3>2, <3>3
  <2> QED
    BY <2>1, <2>3, <2>4 DEF Inv, InStep
<1> QED
  BY <1>9, <1>10, <1>11, <1>12, <1>13 DEF Inv

\* A step without the broker finds no snapshot under way.
LEMMA InvLocal == Inv /\ RunLocal => Inv'
<1> SUFFICES ASSUME Inv, RunLocal PROVE Inv'
  OBVIOUS
<1>1. RuntimeTypeOK /\ LocalStep /\ UNCHANGED <<broker, exchange, moved, asked>>
  BY DEF Inv, TypeOK, RunLocal
<1>2. /\ RuntimeTypeOK'
      /\ account'.shares = account.shares
      /\ killed' = "no" => killed = "no"
      /\ pc \in {"idle", "close"}
      /\ \/ book' = book /\ pc' # "submit"
         \/ /\ pc' = "submit"
            /\ \E o \in Order : o.filled = 0 /\ book' = Append(book, o)
  BY <1>1, LocalStepFacts
<1>3. /\ book \in Seq(Order) /\ exchange \in Seq(Entries)
      /\ Len(exchange) = Len(book) /\ asked = << >>
  BY <1>1, <1>2 DEF Inv, TypeOK, OneEntryEach, RuntimeTypeOK, Entries
<1>4. TypeOK'
  BY <1>1, <1>2, <1>3 DEF Inv, TypeOK
<1>5. InStep'
  BY <1>1, <1>2 DEF Inv, InStep
<1>6. CASE book' = book /\ pc' # "submit"
  BY <1>1, <1>3, <1>4, <1>5, <1>6
     DEF Inv, OneEntryEach, PendingIsUnfilled, FillsAreReal
<1>7. CASE /\ pc' = "submit"
           /\ \E o \in Order : o.filled = 0 /\ book' = Append(book, o)
  <2>1. PICK o \in Order : o.filled = 0 /\ book' = Append(book, o)
    BY <1>7
  <2>2. /\ Len(book') = Len(book) + 1 /\ book'[Len(book')] = o
        /\ \A i \in DOMAIN exchange : book'[i] = book[i]
    BY <1>3, <2>1, SMT
  <2>3. OneEntryEach' /\ PendingIsUnfilled'
    BY <1>1, <1>3, <1>7, <2>1, <2>2, SMT DEF OneEntryEach, PendingIsUnfilled, Pending
  <2>4. FillsAreReal'
    BY <1>1, <2>2 DEF Inv, FillsAreReal
  <2> QED
    BY <1>4, <1>5, <2>3, <2>4 DEF Inv
<1> QED
  BY <1>2, <1>6, <1>7

\* A comparison with the position leaves the two in step or kills, and one
\* with a position that was not received says nothing new.
LEMMA InvCheck == Inv /\ (AskCash \/ CheckBooks) => Inv'
<1> SUFFICES ASSUME Inv, AskCash \/ CheckBooks PROVE Inv'
  OBVIOUS
<1>1. CASE AskCash
  <2>1. PICK cash : asked' = <<cash>>
    BY <1>1 DEF AskCash
  <2>2. Len(asked') <= 1 /\ pc' = "reconcile"
    BY <1>1, <2>1 DEF AskCash, runtimeVars
  <2>3. UNCHANGED <<runtimeVars, broker, exchange, moved>>
    BY <1>1 DEF AskCash
  <2>4. TypeOK'
    BY <2>2, <2>3 DEF Inv, TypeOK, RuntimeTypeOK, runtimeVars
  <2> QED
    BY <2>3, <2>4 DEF Inv, OneEntryEach, PendingIsUnfilled, Pending,
                      FillsAreReal, InStep, runtimeVars
<1>2. CASE CheckBooks
  <2>1. PICK shares \in {broker.shares} \cup Unknown(0) :
          /\ Reconcile([cash |-> asked[1], shares |-> shares])
          /\ moved' = (moved /\ shares # broker.shares)
    BY <1>2 DEF CheckBooks
  <2>2. asked' = << >> /\ UNCHANGED <<broker, exchange>>
    BY <1>2 DEF CheckBooks
  <2>3. /\ RuntimeTypeOK'
        /\ pc = "reconcile" /\ pc' \in {"idle", "flatten"}
        /\ UNCHANGED <<account, book>>
        /\ killed' = "no" => /\ killed = "no"
                             /\ KillOnMismatch => account.shares = shares
    BY <2>1, ReconcileFacts DEF Inv, TypeOK
  <2>4. TypeOK'
    <3>1. Len(asked') <= 1 /\ (asked' # << >> => pc' = "reconcile")
      BY <2>2
    <3>2. moved' \in BOOLEAN
      BY <2>1
    <3> QED
      BY <2>2, <2>3, <3>1, <3>2 DEF Inv, TypeOK
  <2>5. OneEntryEach' /\ PendingIsUnfilled' /\ FillsAreReal'
    BY <2>2, <2>3 DEF Inv, OneEntryEach, PendingIsUnfilled, FillsAreReal
  <2>6. InStep'
    BY <2>1, <2>2, <2>3 DEF Inv, InStep
  <2> QED
    BY <2>4, <2>5, <2>6 DEF Inv
<1> QED
  BY <1>1, <1>2

\* The exchange executes no more than was ordered, and notes that it moved.
LEMMA InvExchange == Inv /\ Exchange => Inv'
<1> SUFFICES ASSUME Inv, NEW i \in DOMAIN exchange, ExecuteLate(i) \/ Lapse(i)
             PROVE  Inv'
  BY DEF Exchange
<1>1. /\ RuntimeTypeOK /\ exchange \in Seq(Entries) /\ book \in Seq(Order)
      /\ broker \in [cash : Int, shares : Int] /\ moved \in BOOLEAN
      /\ UNCHANGED <<runtimeVars, asked>>
  BY DEF Inv, TypeOK, RuntimeTypeOK, Entries, ExecuteLate, Lapse
<1>2. UNCHANGED <<account, book, killed, pc, tick>> /\ RuntimeTypeOK'
  BY <1>1 DEF runtimeVars, RuntimeTypeOK
<1>3. Len(exchange) <= Len(book)
  BY <1>1, SMT DEF Inv, OneEntryEach
<1>4. book[i] \in Order /\ exchange[i] \in Entries
  BY <1>1, <1>3, SMT
<1>5. book[i].qty \in Nat /\ exchange[i].executed \in Nat
  BY <1>4 DEF Order, Entries
<1>6. CASE ExecuteLate(i)
  <2>1. PICK n \in 1 .. book[i].qty - exchange[i].executed, p \in Prices :
          /\ broker' = Executed(broker, book[i].side, n, p)
          /\ exchange' = [exchange EXCEPT
               ![i] = [executed |-> exchange[i].executed + n,
                       live     |-> exchange[i].executed + n < book[i].qty]]
    BY <1>6 DEF ExecuteLate
  <2> DEFINE entry == [executed |-> exchange[i].executed + n,
                       live     |-> exchange[i].executed + n < book[i].qty]
  <2>2. /\ entry.executed \in Nat /\ entry.live \in BOOLEAN
        /\ exchange[i].executed <= entry.executed /\ entry.executed <= book[i].qty
    BY <1>5, <2>1
  <2>3. entry \in Entries
    BY <2>2 DEF Entries
  <2>4. exchange' = [exchange EXCEPT ![i] = entry]
    BY <2>1
  <2> HIDE DEF entry
  <2>5. exchange' \in Seq(Entries) /\ Len(exchange') = Len(exchange)
        /\ DOMAIN exchange' = DOMAIN exchange
    BY <1>1, <2>3, <2>4, SMT
  <2>6. broker' \in [cash : Int, shares : Int]
    BY <1>1, <2>1, ExecutedType
  <2>7. moved' = TRUE
    BY <1>6 DEF ExecuteLate
  <2>8. TypeOK'
    BY <1>1, <1>2, <2>5, <2>6, <2>7 DEF Inv, TypeOK, Entries
  <2>9. FillsAreReal'
    <3> SUFFICES ASSUME NEW j \in DOMAIN exchange
                 PROVE  /\ book[j].filled <= exchange'[j].executed
                        /\ exchange'[j].executed <= book[j].qty
      BY <1>2, <2>5 DEF FillsAreReal
    <3>1. CASE j = i
      <4>1. exchange'[i] = entry
        BY <1>1, <2>4
      <4>2. book[i].filled <= exchange[i].executed /\ book[i].filled \in Nat
        BY <1>4 DEF Inv, FillsAreReal, Order
      <4> QED
        BY <1>5, <2>2, <3>1, <4>1, <4>2
    <3>2. CASE j # i
      <4>1. exchange'[j] = exchange[j]
        BY <1>1, <2>4, <3>2
      <4> QED
        BY <4>1 DEF Inv, FillsAreReal
    <3> QED
      BY <3>1, <3>2
  <2>10. OneEntryEach' /\ PendingIsUnfilled' /\ InStep'
    BY <1>2, <2>5, <2>7 DEF Inv, OneEntryEach, PendingIsUnfilled, Pending, InStep
  <2> QED
    BY <2>8, <2>9, <2>10 DEF Inv
<1>7. CASE Lapse(i)
  <2>1. /\ exchange' = [exchange EXCEPT ![i] = [exchange[i] EXCEPT !.live = FALSE]]
        /\ UNCHANGED <<broker, moved>>
    BY <1>7 DEF Lapse
  <2> DEFINE entry == [exchange[i] EXCEPT !.live = FALSE]
  <2>2. entry \in Entries /\ entry.executed = exchange[i].executed
    BY <1>4 DEF Entries
  <2>3. exchange' = [exchange EXCEPT ![i] = entry]
    BY <2>1
  <2> HIDE DEF entry
  <2>4. exchange' \in Seq(Entries) /\ Len(exchange') = Len(exchange)
        /\ DOMAIN exchange' = DOMAIN exchange
    BY <1>1, <2>2, <2>3, SMT
  <2>5. \A j \in DOMAIN exchange : exchange'[j].executed = exchange[j].executed
    BY <1>1, <2>2, <2>3
  <2>6. TypeOK'
    BY <1>1, <1>2, <2>1, <2>4 DEF Inv, TypeOK, Entries
  <2>7. FillsAreReal'
    BY <1>2, <2>4, <2>5 DEF Inv, FillsAreReal
  <2> QED
    BY <1>2, <2>1, <2>4, <2>6, <2>7
       DEF Inv, OneEntryEach, PendingIsUnfilled, Pending, InStep
<1> QED
  BY <1>6, <1>7

\* An answer that cannot be read ends the session: the exchange has one more
\* entry, for an order that the book keeps unfilled.
LEMMA RaiseFacts ==
  ASSUME Inv, SubmitRaises
  PROVE  /\ RuntimeTypeOK' /\ pc' = "raised" /\ UNCHANGED <<account, killed, asked>>
         /\ \/ pc = "submit" /\ book' = book
            \/ pc = "flatten" /\ book' = Append(book, FlattenOrder)
         /\ Len(book') = Len(exchange) + 1
         /\ \A i \in DOMAIN exchange : book'[i] = book[i]
         /\ \E order \in Order :
              /\ order.filled = 0 /\ book'[Len(book')] = order
              /\ \E out \in Unanswered(order.qty) : Placed(order.side, out)
<1>1. /\ RuntimeTypeOK /\ book \in Seq(Order) /\ exchange \in Seq(Entries)
      /\ account.shares \in Nat /\ Len(book) \in Nat /\ Len(exchange) \in Nat
  BY DEF Inv, TypeOK, RuntimeTypeOK, Entries
<1>2. /\ pc' = "raised"
      /\ UNCHANGED <<account, paper, killed, ticks, failures, tick, asked>>
  BY DEF SubmitRaises
<1>3. CASE pc = "submit"
  <2>1. /\ book' = book
        /\ \E out \in Unanswered(Pending.qty) : Placed(Pending.side, out)
    BY <1>3 DEF SubmitRaises
  <2>2. Len(exchange) = Len(book) - 1 /\ Pending.filled = 0
    BY <1>3 DEF Inv, OneEntryEach, PendingIsUnfilled
  <2>3. Pending \in Order /\ book'[Len(book')] = Pending /\ Len(book') = Len(exchange) + 1
    BY <1>1, <2>1, <2>2, LastOfSeq DEF Pending
  <2>4. RuntimeTypeOK'
    BY <1>1, <1>2, <2>1 DEF RuntimeTypeOK
  <2> QED
    BY <1>2, <1>3, <2>1, <2>2, <2>3, <2>4
<1>4. CASE pc # "submit"
  <2>1. /\ pc = "flatten" /\ book' = Append(book, FlattenOrder)
        /\ \E out \in Unanswered(FlattenOrder.qty) : Placed(FlattenOrder.side, out)
    BY <1>4 DEF SubmitRaises
  <2>2. FlattenOrder \in Order /\ FlattenOrder.filled = 0
    BY <1>1 DEF FlattenOrder, NewOrder, Order, Sides, Phases
  <2>3. Len(exchange) = Len(book)
    BY <1>4 DEF Inv, OneEntryEach
  <2> HIDE DEF FlattenOrder
  <2>4. /\ book' \in Seq(Order) /\ Len(book') = Len(exchange) + 1
        /\ book'[Len(book')] = FlattenOrder
        /\ \A i \in DOMAIN exchange : book'[i] = book[i]
    BY <1>1, <2>1, <2>2, <2>3, SMT
  <2>5. RuntimeTypeOK'
    BY <1>1, <1>2, <2>4 DEF RuntimeTypeOK
  <2> QED
    BY <1>2, <2>1, <2>2, <2>4, <2>5
<1> QED
  BY <1>3, <1>4

LEMMA InvSubmitRaises == Inv /\ SubmitRaises => Inv'
<1> SUFFICES ASSUME Inv, SubmitRaises PROVE Inv'
  OBVIOUS
<1>1. /\ RuntimeTypeOK /\ exchange \in Seq(Entries) /\ moved \in BOOLEAN
      /\ broker \in [cash : Int, shares : Int] /\ Len(exchange) \in Nat
      /\ asked = << >> /\ tick.price \in Prices
  BY DEF Inv, TypeOK, RuntimeTypeOK, SubmitRaises, Entries
<1>2. /\ RuntimeTypeOK' /\ pc' = "raised" /\ UNCHANGED <<account, killed, asked>>
  BY RaiseFacts
<1>3. PICK order \in Order :
        /\ order.filled = 0 /\ book'[Len(book')] = order
        /\ \E out \in Unanswered(order.qty) : Placed(order.side, out)
  BY RaiseFacts
<1>3a. PICK out \in Unanswered(order.qty) : Placed(order.side, out)
  BY <1>3
<1>3b. /\ Len(book') = Len(exchange) + 1
       /\ \A i \in DOMAIN exchange : book'[i] = book[i]
  BY RaiseFacts
<1>4. order.qty \in Nat
  BY DEF Order
<1>5. out.executed \in 0 .. order.qty /\ out.live \in BOOLEAN /\ out.price \in Prices
  BY <1>1, <1>4, UnansweredFacts
<1>6. /\ broker' = Executed(broker, order.side, out.executed, out.price)
      /\ exchange' = Append(exchange, [executed |-> out.executed, live |-> out.live])
      /\ moved' = (moved \/ out.executed > 0)
  BY <1>3a DEF Placed
<1> DEFINE entry == [executed |-> out.executed, live |-> out.live]
<1>7. entry \in Entries /\ entry.executed = out.executed
  BY <1>5 DEF Entries
<1>8. exchange' = Append(exchange, entry)
  BY <1>6
<1> HIDE DEF entry
<1>9. /\ exchange' \in Seq(Entries) /\ Len(exchange') = Len(exchange) + 1
      /\ exchange'[Len(exchange) + 1] = entry
      /\ \A i \in 1 .. Len(exchange) : exchange'[i] = exchange[i]
  BY <1>1, <1>7, <1>8, SMT
<1>10. TypeOK'
  <2>1. broker' \in [cash : Int, shares : Int]
    BY <1>1, <1>5, <1>6, ExecutedType
  <2>2. moved' \in BOOLEAN /\ Len(asked') <= 1 /\ asked' = << >>
    BY <1>1, <1>2, <1>6
  <2> QED
    BY <1>2, <1>9, <2>1, <2>2 DEF TypeOK, Entries
<1>11. OneEntryEach' /\ PendingIsUnfilled'
  BY <1>2, <1>3, <1>3b, <1>9 DEF OneEntryEach, PendingIsUnfilled
<1>12. FillsAreReal'
  <2> SUFFICES ASSUME NEW i \in DOMAIN exchange'
               PROVE  /\ book'[i].filled <= exchange'[i].executed
                      /\ exchange'[i].executed <= book'[i].qty
    BY DEF FillsAreReal
  <2>1. CASE i = Len(exchange) + 1
    BY <1>3, <1>3b, <1>4, <1>5, <1>7, <1>9, <2>1
  <2>2. CASE i # Len(exchange) + 1
    <3>1. i \in 1 .. Len(exchange)
      BY <1>1, <1>9, <2>2
    <3> QED
      BY <1>1, <1>3b, <1>9, <3>1 DEF Inv, FillsAreReal
  <2> QED
    BY <2>1, <2>2
<1>13. InStep'
  <2> SUFFICES ASSUME killed' = "no", KillOnMismatch, ~ moved'
               PROVE  account'.shares = broker'.shares
    BY DEF InStep
  <2>1. ~ moved /\ ~ (out.executed > 0)
    BY <1>6, Zenon
  <2>2. out.executed = 0
    BY <1>4, <1>5, <2>1
  <2>3. Signed(order.side, out.executed) = 0
    BY <2>2, NothingSigned DEF Order
  <2>4. broker'.shares = broker.shares + Signed(order.side, out.executed)
    BY <1>6 DEF Executed
  <2> QED
    BY <1>1, <1>2, <2>1, <2>3, <2>4 DEF Inv, InStep
<1> QED
  BY <1>10, <1>11, <1>12, <1>13 DEF Inv

LEMMA InvSnapshotRaises == Inv /\ SnapshotRaises => Inv'
<1> SUFFICES ASSUME Inv, SnapshotRaises PROVE Inv'
  OBVIOUS
<1>1. /\ pc = "reconcile" /\ pc' = "raised" /\ asked' = << >>
      /\ UNCHANGED <<account, paper, book, killed, ticks, failures, tick, broker,
                     exchange, moved>>
  BY DEF SnapshotRaises
<1>2. TypeOK'
  BY <1>1 DEF Inv, TypeOK, RuntimeTypeOK
<1> QED
  BY <1>1, <1>2 DEF Inv, OneEntryEach, PendingIsUnfilled, FillsAreReal, InStep

LEMMA InvNext == Inv /\ [Next]_vars => Inv'
<1>1. Inv /\ UNCHANGED vars => Inv'
  BY DEF Inv, TypeOK, RuntimeTypeOK, OneEntryEach, PendingIsUnfilled, Pending,
         FillsAreReal, InStep, vars
<1> QED
  BY <1>1, InvLocal, InvSubmit, InvCheck, InvFlatten, InvSubmitRaises,
     InvSnapshotRaises, InvExchange DEF Next, Ended

LEMMA Invariance == Spec => []Inv
  BY InvInit, InvNext, PTL DEF Spec

-----------------------------------------------------------------------------
(***************************************************************************)
(* What was executed, summed over the orders.                              *)
(***************************************************************************)
Lots(orders, entries) ==
  [i \in DOMAIN entries |-> Signed(orders[i].side, entries[i].executed)]

LEMMA LotsType ==
  ASSUME NEW orders, NEW entries \in Seq(Entries)
  PROVE  /\ Lots(orders, entries) \in Seq(Int)
         /\ Len(Lots(orders, entries)) = Len(entries)
         /\ \A i \in 1 .. Len(entries) :
              Lots(orders, entries)[i] = Signed(orders[i].side, entries[i].executed)
<1> DEFINE s == Lots(orders, entries)
<1>1. DOMAIN entries = 1 .. Len(entries) /\ Len(entries) \in Nat
  OBVIOUS
<1>2. ASSUME NEW i \in 1 .. Len(entries)
      PROVE  s[i] = Signed(orders[i].side, entries[i].executed) /\ s[i] \in Int
  <2>1. s[i] = Signed(orders[i].side, entries[i].executed)
    BY <1>1 DEF Lots
  <2>2. entries[i] \in Entries
    OBVIOUS
  <2>3. entries[i].executed \in Int
    BY <2>2 DEF Entries
  <2> QED
    BY <2>1, <2>3, SignedInt
<1>3. s = [i \in 1 .. Len(entries) |-> s[i]]
  BY <1>1 DEF Lots
<1> HIDE DEF s
<1>4. s \in [1 .. Len(entries) -> Int]
  BY ONLY <1>2, <1>3
<1>5. s \in Seq(Int) /\ Len(s) = Len(entries)
  BY <1>1, <1>4
<1> QED
  BY <1>2, <1>5 DEF s

\* The sum depends on the sides and on what was executed.
LEMMA LotsSame ==
  ASSUME NEW orders, NEW orders1, NEW entries \in Seq(Entries),
         NEW entries1 \in Seq(Entries), Len(entries1) = Len(entries),
         \A i \in 1 .. Len(entries) : /\ orders1[i].side = orders[i].side
                                      /\ entries1[i].executed = entries[i].executed
  PROVE  Lots(orders1, entries1) = Lots(orders, entries)
<1> DEFINE s == Lots(orders, entries)
           t == Lots(orders1, entries1)
<1>1. /\ s \in Seq(Int) /\ Len(s) = Len(entries)
      /\ \A i \in 1 .. Len(entries) : s[i] = Signed(orders[i].side, entries[i].executed)
  BY LotsType
<1>2. /\ t \in Seq(Int) /\ Len(t) = Len(entries1)
      /\ \A i \in 1 .. Len(entries1) :
           t[i] = Signed(orders1[i].side, entries1[i].executed)
  BY LotsType
<1> HIDE DEF s, t
<1>3. \A i \in 1 .. Len(t) : t[i] = s[i]
  BY <1>1, <1>2
<1>4. t = s
  BY <1>1, <1>2, <1>3, SeqEqual
<1> QED
  BY <1>4 DEF s, t

\* A new entry adds what it has executed.
LEMMA LotsAppend ==
  ASSUME NEW orders, NEW entries \in Seq(Entries), NEW e \in Entries,
         NEW entries1, entries1 = Append(entries, e)
  PROVE  Total(Lots(orders, entries1)) =
           Total(Lots(orders, entries)) + Signed(orders[Len(entries) + 1].side, e.executed)
<1> DEFINE s == Lots(orders, entries)
           t == Lots(orders, entries1)
           m == Signed(orders[Len(entries) + 1].side, e.executed)
<1>1. /\ entries1 \in Seq(Entries) /\ Len(entries1) = Len(entries) + 1
      /\ Len(entries) \in Nat
      /\ \A i \in 1 .. Len(entries) : entries1[i] = entries[i]
      /\ entries1[Len(entries) + 1] = e
  BY SMT
<1>2. m \in Int
  BY SignedInt DEF Entries
<1>3. /\ s \in Seq(Int) /\ Len(s) = Len(entries)
      /\ \A i \in 1 .. Len(entries) : s[i] = Signed(orders[i].side, entries[i].executed)
  BY LotsType
<1>4. /\ t \in Seq(Int) /\ Len(t) = Len(entries1)
      /\ \A i \in 1 .. Len(entries1) :
           t[i] = Signed(orders[i].side, entries1[i].executed)
  BY <1>1, LotsType
<1>5. t[Len(entries) + 1] = m /\ \A i \in 1 .. Len(entries) : t[i] = s[i]
  <2> HIDE DEF s, t
  <2>1. Len(entries) + 1 \in 1 .. Len(entries1)
    BY <1>1
  <2>2. \A i \in 1 .. Len(entries) : i \in 1 .. Len(entries1)
    BY <1>1
  <2> QED
    BY <1>1, <1>3, <1>4, <2>1, <2>2
<1> HIDE DEF s, t, m
<1>6. t = Append(s, m)
  <2> DEFINE u == Append(s, m)
  <2>1. /\ u \in Seq(Int) /\ Len(u) = Len(t)
        /\ \A i \in 1 .. Len(t) : t[i] = u[i]
    BY <1>1, <1>2, <1>3, <1>4, <1>5, SMT
  <2> HIDE DEF u
  <2>2. t = u
    BY <1>4, <2>1, SeqEqual
  <2> QED
    BY <2>2 DEF u
<1>7. Total(t) = Total(s) + m
  BY <1>2, <1>3, <1>6, TotalAppend
<1> QED
  BY <1>7 DEF s, t, m

\* An order that executes n more adds these.
LEMMA LotsMore ==
  ASSUME NEW orders, NEW entries \in Seq(Entries), NEW k \in 1 .. Len(entries),
         NEW e \in Entries, NEW n \in Int, e.executed = entries[k].executed + n,
         NEW entries1, entries1 = [entries EXCEPT ![k] = e]
  PROVE  Total(Lots(orders, entries1)) =
           Total(Lots(orders, entries)) + Signed(orders[k].side, n)
<1> DEFINE s == Lots(orders, entries)
           t == Lots(orders, entries1)
           side == orders[k].side
<1>1. /\ entries1 \in Seq(Entries) /\ Len(entries1) = Len(entries)
      /\ \A i \in 1 .. Len(entries) : i # k => entries1[i] = entries[i]
      /\ entries1[k] = e
  BY SMT
<1>2. /\ s \in Seq(Int) /\ Len(s) = Len(entries)
      /\ \A i \in 1 .. Len(entries) : s[i] = Signed(orders[i].side, entries[i].executed)
  BY LotsType
<1>3. /\ t \in Seq(Int) /\ Len(t) = Len(entries1)
      /\ \A i \in 1 .. Len(entries1) :
           t[i] = Signed(orders[i].side, entries1[i].executed)
  BY <1>1, LotsType
<1>4. \A i \in 1 .. Len(entries) : i # k => t[i] = s[i]
  <2> HIDE DEF s, t
  <2> QED
    BY <1>1, <1>2, <1>3
<1>5. t[k] - s[k] = Signed(side, n)
  <2>1. s[k] = Signed(side, entries[k].executed) /\ t[k] = Signed(side, e.executed)
    <3> HIDE DEF s, t
    <3> QED
      BY <1>1, <1>2, <1>3
  <2>2. entries[k].executed \in Int /\ e.executed \in Int
    <3>1. entries[k] \in Entries
      OBVIOUS
    <3> QED
      BY <3>1 DEF Entries
  <2> HIDE DEF s, t, side
  <2> QED
    BY <2>1, <2>2 DEF Signed
<1> HIDE DEF s, t
<1>6. Total(t) = Total(s) + (t[k] - s[k])
  <2>1. k \in 1 .. Len(s) /\ Len(t) = Len(s)
    BY <1>1, <1>2, <1>3
  <2>2. \A i \in 1 .. Len(s) : i # k => t[i] = s[i]
    BY <1>2, <1>4
  <2> QED
    BY <1>2, <1>3, <2>1, <2>2, TotalExcept
<1> QED
  BY <1>5, <1>6 DEF s, t

-----------------------------------------------------------------------------
(***************************************************************************)
(* The difference of account and brokerage, order by order.  It has an     *)
(* explanation as long as the program has not been killed; a flatten order *)
(* is only sent after a kill.                                              *)
(***************************************************************************)
FlattensOnKill == pc = "flatten" => killed # "no"

Explained == FlattensOnKill /\ DivergenceIsUnseenFills

LEMMA NetExecutedLots == NetExecuted = Total(Lots(book, exchange))
BY DEF NetExecuted, Lots

LEMMA ExplainedInit == Init => Explained
<1> SUFFICES ASSUME Init PROVE Explained
  OBVIOUS
<1>1. /\ book = << >> /\ exchange = << >> /\ pc = "idle"
      /\ broker.shares = 0 /\ account.shares = 0
  BY DEF Init, InitRuntime
<1>2. NetFilled(book) = 0
  <2>1. NetFilled(<< >>) = Total(<< >>)
    BY DEF NetFilled
  <2> QED
    BY <1>1, <2>1, TotalEmpty
<1>3. NetExecuted = 0
  <2>1. NetExecuted = Total(<< >>)
    BY <1>1 DEF NetExecuted
  <2> QED
    BY <2>1, TotalEmpty
<1>4. broker.shares - account.shares = NetExecuted - NetFilled(book)
  BY <1>1, <1>2, <1>3
<1> QED
  BY <1>1, <1>4 DEF Explained, FlattensOnKill, DivergenceIsUnseenFills

\* A flatten order comes after a kill.
LEMMA FlattensOnKillNext ==
  ASSUME FlattensOnKill, Inv, [Next]_vars
  PROVE  FlattensOnKill'
<1>1. CASE RunLocal
  BY <1>1
     DEF RunLocal, LocalStep, FeedLagKill, CloseTick, AfterClose, OffHours, DecisionKill,
         RiskKill, Hold, PlaceOrder, Consider, Ready, FlattensOnKill
<1>2. CASE Submit
  BY <1>2 DEF Submit, Settle, FlattensOnKill
<1>3. CASE AskCash \/ Exchange \/ UNCHANGED vars
  BY <1>3 DEF AskCash, Exchange, ExecuteLate, Lapse, vars, runtimeVars, FlattensOnKill
<1>4. CASE CheckBooks
  BY <1>4 DEF CheckBooks, Reconcile, AfterClose, FlattensOnKill
<1>5. CASE SubmitFlatten
  BY <1>5 DEF SubmitFlatten, Flatten, FlattensOnKill
<1>6. CASE SubmitRaises \/ SnapshotRaises
  BY <1>6 DEF SubmitRaises, SnapshotRaises, FlattensOnKill
<1> QED
  BY <1>1, <1>2, <1>3, <1>4, <1>5, <1>6 DEF Next, Ended

\* What the invariant says of the books of a step.
LEMMA BooksType ==
  ASSUME Inv
  PROVE  /\ RuntimeTypeOK /\ book \in Seq(Order) /\ exchange \in Seq(Entries)
         /\ account.shares \in Int /\ broker \in [cash : Int, shares : Int]
         /\ NetFilled(book) \in Int /\ NetExecuted \in Int
         /\ Len(exchange) \in Nat /\ Len(book) \in Nat
<1>1. /\ RuntimeTypeOK /\ book \in Seq(Order) /\ exchange \in Seq(Entries)
      /\ account.shares \in Int /\ broker \in [cash : Int, shares : Int]
  BY DEF Inv, TypeOK, RuntimeTypeOK, Entries
<1>2. NetFilled(book) \in Int
  BY <1>1, NetInt
<1>3. NetExecuted \in Int
  <2>1. Lots(book, exchange) \in Seq(Int)
    BY <1>1, LotsType
  <2> QED
    BY <2>1, TotalInt, NetExecutedLots
<1> QED
  BY <1>1, <1>2, <1>3

\* A fill the account applies moves it by what the order is marked with; one it
\* does not apply is a kill.
LEMMA SettleMoves ==
  ASSUME RuntimeTypeOK, Len(book) > 0, Pending.filled = 0, NEW ack \in Ack,
         NEW slow \in BOOLEAN, Settle(ack, slow), killed' = "no"
  PROVE  NetFilled(book') - NetFilled(book) = account'.shares - account.shares
<1> DEFINE side  == Pending.side
           order == ApplyResult(Pending, ack)
<1>1. book \in Seq(Order) /\ account.shares \in Int
  BY DEF RuntimeTypeOK
<1>2. Pending \in Order /\ Len(book) \in 1 .. Len(book)
  BY <1>1, LastOfSeq DEF Pending
<1>3. /\ order \in Order /\ order.side = side
      /\ order.filled = IF ack.status = "FILLED" THEN ack.filled ELSE 0
  <2>1. order \in Order
    BY <1>2, ApplyResultType
  <2> QED
    BY <1>2, <2>1 DEF ApplyResult, Order
<1>4. book' = [book EXCEPT ![Len(book)] = order]
  BY DEF Settle, Pending
<1>5. ack.filled \in Int /\ side \in Sides
  BY <1>2 DEF Ack, Order
<1>6. NetFilled(book') = NetFilled(book) + Signed(order.side, order.filled)
  <2> HIDE DEF order
  <2> QED
    BY <1>1, <1>2, <1>3, <1>4, NetAnswered DEF Pending
<1>7. NetFilled(book) \in Int
  BY <1>1, NetInt
<1>8. CASE ack.status = "FILLED"
  <2>1. /\ CanApplyFill(account, side, ack.filled, ack.price, ack.fee)
        /\ account' = ApplyFill(account, side, ack.filled, ack.price, ack.fee)
    BY <1>8 DEF Settle
  <2>2. account'.shares = account.shares + Signed(side, ack.filled)
    <3>0. account \in Accounts
      BY DEF RuntimeTypeOK, Accounts
    <3>1. side = "BUY" => account'.shares = account.shares + ack.filled
      BY <2>1, <3>0 DEF ApplyFill, Accounts
    <3>2. side = "SELL" => account'.shares = account.shares - ack.filled
      BY <2>1, <3>0 DEF ApplyFill, Accounts
    <3> HIDE DEF side
    <3> QED
      BY <1>1, <1>5, <3>1, <3>2 DEF Signed, Sides
  <2>3. order.filled = ack.filled
    BY <1>3, <1>8
  <2> HIDE DEF order, side
  <2>4. Signed(side, ack.filled) \in Int
    BY <1>5, SignedInt
  <2> QED
    BY <1>1, <1>3, <1>6, <1>7, <2>2, <2>3, <2>4
<1>9. CASE ack.status # "FILLED"
  <2>1. account' = account /\ order.filled = 0 /\ 0 \in Int
    BY <1>3, <1>9 DEF Settle
  <2> HIDE DEF order
  <2>2. Signed(order.side, order.filled) = 0
    BY <2>1, NothingSigned
  <2> QED
    BY <1>1, <1>6, <1>7, <2>1, <2>2
<1> QED
  BY <1>8, <1>9

LEMMA ExplainedLocal ==
  ASSUME Inv, DivergenceIsUnseenFills, RunLocal
  PROVE  DivergenceIsUnseenFills'
<1>1. LocalStep /\ UNCHANGED <<broker, exchange>>
  BY DEF RunLocal
<1>2. /\ account'.shares = account.shares
      /\ killed' = "no" => killed = "no"
      /\ pc \in {"idle", "close"}
      /\ \/ book' = book
         \/ \E o \in Order : o.filled = 0 /\ book' = Append(book, o)
  BY <1>1, LocalStepFacts DEF Inv, TypeOK
<1>3. /\ book \in Seq(Order) /\ exchange \in Seq(Entries)
      /\ NetFilled(book) \in Int /\ Len(exchange) = Len(book)
  BY <1>2, BooksType DEF Inv, OneEntryEach
<1>4. CASE book' = book
  <2>1. NetExecuted' = NetExecuted
    BY <1>1, <1>4 DEF NetExecuted
  <2> QED
    BY <1>1, <1>2, <1>4, <2>1 DEF DivergenceIsUnseenFills
<1>5. CASE \E o \in Order : o.filled = 0 /\ book' = Append(book, o)
  <2>1. PICK o \in Order : o.filled = 0 /\ book' = Append(book, o)
    BY <1>5
  <2>2. NetFilled(book') = NetFilled(book)
    <3>1. NetFilled(book') = NetFilled(book) + Signed(o.side, o.filled)
      BY <1>3, <2>1, NetAppend
    <3>2. Signed(o.side, o.filled) = 0
      BY <2>1, NothingSigned DEF Order
    <3> QED
      BY <1>3, <3>1, <3>2
  <2>3. Lots(book', exchange) = Lots(book, exchange)
    <3>1. \A i \in 1 .. Len(exchange) : book'[i].side = book[i].side
      BY <1>3, <2>1
    <3> QED
      BY <1>3, <3>1, LotsSame
  <2>4. NetExecuted' = NetExecuted
    <3>1. NetExecuted' = Total(Lots(book', exchange'))
      BY DEF NetExecuted, Lots
    <3> QED
      BY <1>1, <2>3, <3>1, NetExecutedLots
  <2> QED
    BY <1>1, <1>2, <2>2, <2>4 DEF DivergenceIsUnseenFills
<1> QED
  BY <1>2, <1>4, <1>5

\* An order that comes back adds to both sums, and the difference to the
\* difference of the two positions.
LEMMA ExplainedSubmit ==
  ASSUME Inv, DivergenceIsUnseenFills, Submit
  PROVE  DivergenceIsUnseenFills'
<1>1. /\ RuntimeTypeOK /\ pc = "submit" /\ Len(exchange) = Len(book) - 1
      /\ Pending.filled = 0
  BY DEF Inv, TypeOK, OneEntryEach, PendingIsUnfilled, Submit
<1>2. /\ book \in Seq(Order) /\ exchange \in Seq(Entries)
      /\ account.shares \in Int /\ broker \in [cash : Int, shares : Int]
      /\ NetFilled(book) \in Int /\ NetExecuted \in Int
      /\ Len(exchange) \in Nat /\ Len(book) \in Nat
  BY BooksType
<1>3. tick.price \in Prices /\ Len(book) > 0
  BY <1>1, <1>2 DEF RuntimeTypeOK
<1>4. Pending \in Order
  BY <1>2, <1>3, LastOfSeq DEF Pending
<1>5. Pending.qty \in Nat
  BY <1>4 DEF Order
<1>6. PICK out \in Outcomes(Pending.qty), slow \in BOOLEAN :
        Settle(out.ack, slow) /\ Placed(Pending.side, out)
  BY DEF Submit
<1>7. out.ack \in Ack /\ out.executed \in 0 .. Pending.qty /\ out.live \in BOOLEAN
  BY <1>3, <1>5, <1>6, OutcomeFacts
<1> DEFINE order == ApplyResult(Pending, out.ack)
           entry == [executed |-> out.executed, live |-> out.live]
           more  == Signed(Pending.side, out.executed)
<1>8. /\ RuntimeTypeOK'
      /\ killed' = "no" => killed = "no"
      /\ book' = [book EXCEPT ![Len(book)] = order]
  BY <1>1, <1>3, <1>6, <1>7, SettleFacts
<1>9. order.side = Pending.side
  BY <1>4 DEF ApplyResult, Order
<1>10. entry \in Entries /\ out.executed \in Int
  BY <1>5, <1>7 DEF Entries
<1>11. more \in Int
  BY <1>10, SignedInt
<1>12. broker'.shares = broker.shares + more /\ exchange' = Append(exchange, entry)
  BY <1>6 DEF Placed, Executed
<1>13. NetExecuted' = NetExecuted + more
  <2>1. NetExecuted' = Total(Lots(book', exchange'))
    BY DEF NetExecuted, Lots
  <2>2. \A i \in 1 .. Len(exchange) : book'[i].side = book[i].side
    <3> HIDE DEF order
    <3> QED
      BY <1>1, <1>2, <1>8
  <2>3. book'[Len(exchange) + 1].side = Pending.side
    <3>1. Len(exchange) + 1 = Len(book) /\ Len(book) \in 1 .. Len(book)
      BY <1>1, <1>2, <1>3
    <3> HIDE DEF order
    <3> QED
      BY <1>2, <1>8, <1>9, <3>1
  <2>4. entry.executed = out.executed
    OBVIOUS
  <2> HIDE DEF entry
  <2>5. Total(Lots(book', exchange')) =
          Total(Lots(book, exchange)) + Signed(Pending.side, entry.executed)
    <3>1. exchange \in Seq(Entries) /\ entry \in Entries
      BY <1>2, <1>10
    <3>2. exchange' = Append(exchange, entry)
      BY <1>12
    <3>3. Total(Lots(book', exchange')) = Total(Lots(book', exchange))
            + Signed(book'[Len(exchange) + 1].side, entry.executed)
      BY <3>1, <3>2, LotsAppend, Zenon
    <3>4. Lots(book', exchange) = Lots(book, exchange)
      BY <2>2, <3>1, LotsSame
    <3> QED
      BY <2>3, <3>3, <3>4
  <2>6. Signed(Pending.side, entry.executed) = more
    BY <2>4
  <2> HIDE DEF more
  <2> QED
    BY <2>1, <2>5, <2>6, NetExecutedLots, Zenon
<1> HIDE DEF order, entry, more
<1> SUFFICES ASSUME killed' = "no"
             PROVE  broker'.shares - account'.shares = NetExecuted' - NetFilled(book')
  BY DEF DivergenceIsUnseenFills
<1>14. NetFilled(book') - NetFilled(book) = account'.shares - account.shares
  BY <1>1, <1>3, <1>6, <1>7, SettleMoves
<1>15. broker.shares - account.shares = NetExecuted - NetFilled(book)
  BY <1>8 DEF DivergenceIsUnseenFills
<1>16. account'.shares \in Int /\ NetFilled(book') \in Int
  <2>1. account'.shares \in Int /\ book' \in Seq(Order)
    BY <1>8 DEF RuntimeTypeOK
  <2> QED
    BY <2>1, NetInt
<1>17. /\ broker.shares \in Int /\ account.shares \in Int
       /\ NetFilled(book) \in Int /\ NetExecuted \in Int
  BY <1>2
<1>18. broker'.shares = broker.shares + more
  BY <1>12
<1> QED
  BY <1>11, <1>18, <1>13, <1>14, <1>15, <1>16, <1>17

\* What the exchange executes on its own is the brokerage's and not the
\* account's; what lapses changes nothing.
LEMMA ExplainedExchange ==
  ASSUME Inv, DivergenceIsUnseenFills, Exchange
  PROVE  DivergenceIsUnseenFills'
<1>1. PICK i \in DOMAIN exchange : ExecuteLate(i) \/ Lapse(i)
  BY DEF Exchange
<1>2. /\ book \in Seq(Order) /\ exchange \in Seq(Entries)
      /\ account.shares \in Int /\ broker \in [cash : Int, shares : Int]
      /\ NetFilled(book) \in Int /\ NetExecuted \in Int /\ Len(exchange) \in Nat
  BY BooksType
<1>3. UNCHANGED <<account, book, killed>>
  BY <1>1 DEF ExecuteLate, Lapse, runtimeVars
<1>4. i \in 1 .. Len(exchange) /\ exchange[i] \in Entries
  BY <1>2
<1>5. exchange[i].executed \in Nat
  BY <1>4 DEF Entries
<1>6. NetExecuted' = Total(Lots(book, exchange'))
  BY <1>3 DEF NetExecuted, Lots
<1>7. CASE ExecuteLate(i)
  <2>1. PICK n \in 1 .. book[i].qty - exchange[i].executed, p \in Prices :
          /\ broker' = Executed(broker, book[i].side, n, p)
          /\ exchange' = [exchange EXCEPT
               ![i] = [executed |-> exchange[i].executed + n,
                       live     |-> exchange[i].executed + n < book[i].qty]]
    BY <1>7 DEF ExecuteLate
  <2> DEFINE entry == [executed |-> exchange[i].executed + n,
                       live     |-> exchange[i].executed + n < book[i].qty]
             more  == Signed(book[i].side, n)
  <2>2. n \in Nat
    BY <2>1
  <2>3. entry \in Entries /\ entry.executed = exchange[i].executed + n
    BY <1>5, <2>2 DEF Entries
  <2>4. exchange' = [exchange EXCEPT ![i] = entry]
    BY <2>1
  <2>5. broker'.shares = broker.shares + more
    BY <2>1 DEF Executed
  <2>6. more \in Int
    BY <2>2, SignedInt
  <2> HIDE DEF entry
  <2>7. NetExecuted' = NetExecuted + more
    <3>1. n \in Int
      BY <2>2
    <3>2. Total(Lots(book, exchange')) = Total(Lots(book, exchange)) + more
      <4>1. exchange \in Seq(Entries) /\ i \in 1 .. Len(exchange)
        BY <1>2, <1>4
      <4>2. Total(Lots(book, exchange')) =
              Total(Lots(book, exchange)) + Signed(book[i].side, n)
        BY <2>3, <2>4, <3>1, <4>1, LotsMore, Zenon
      <4> QED
        BY <4>2
    <3> HIDE DEF more
    <3> QED
      BY <1>6, <3>2, NetExecutedLots, Zenon
  <2>8. /\ broker.shares \in Int /\ account.shares \in Int
        /\ NetFilled(book) \in Int /\ NetExecuted \in Int
    BY <1>2
  <2> HIDE DEF more
  <2> SUFFICES ASSUME killed' = "no"
               PROVE  broker'.shares - account'.shares = NetExecuted' - NetFilled(book')
    BY DEF DivergenceIsUnseenFills
  <2>9. broker.shares - account.shares = NetExecuted - NetFilled(book)
    BY <1>3 DEF DivergenceIsUnseenFills
  <2>10. account'.shares = account.shares /\ NetFilled(book') = NetFilled(book)
    BY <1>3
  <2> QED
    BY <2>5, <2>6, <2>7, <2>8, <2>9, <2>10
<1>8. CASE Lapse(i)
  <2>1. /\ exchange' = [exchange EXCEPT ![i] = [exchange[i] EXCEPT !.live = FALSE]]
        /\ UNCHANGED broker
    BY <1>8 DEF Lapse
  <2> DEFINE entry == [exchange[i] EXCEPT !.live = FALSE]
  <2>2. entry \in Entries /\ entry.executed = exchange[i].executed
    BY <1>4 DEF Entries
  <2>3. exchange' = [exchange EXCEPT ![i] = entry]
    BY <2>1
  <2> HIDE DEF entry
  <2>4. /\ exchange' \in Seq(Entries) /\ Len(exchange') = Len(exchange)
        /\ \A j \in 1 .. Len(exchange) : exchange'[j].executed = exchange[j].executed
    BY <1>2, <1>4, <2>2, <2>3
  <2>5. Lots(book, exchange') = Lots(book, exchange)
    BY <1>2, <2>4, LotsSame
  <2>6. NetExecuted' = NetExecuted
    BY <1>6, <2>5, NetExecutedLots
  <2> QED
    BY <1>3, <2>1, <2>6 DEF DivergenceIsUnseenFills
<1> QED
  BY <1>1, <1>7, <1>8

\* An order whose answer could not be read: what was executed of it adds to what
\* the brokerage holds, and the account knows of none of it.
LEMMA ExplainedRaise ==
  ASSUME Inv, FlattensOnKill, DivergenceIsUnseenFills, SubmitRaises
  PROVE  DivergenceIsUnseenFills'
<1> SUFFICES ASSUME killed' = "no"
             PROVE  broker'.shares - account'.shares = NetExecuted' - NetFilled(book')
  BY DEF DivergenceIsUnseenFills
<1>1. /\ book' = book /\ UNCHANGED <<account, killed>>
  BY RaiseFacts DEF FlattensOnKill
<1>2. /\ exchange \in Seq(Entries) /\ tick.price \in Prices
      /\ account.shares \in Int /\ broker.shares \in Int
      /\ NetFilled(book) \in Int /\ NetExecuted \in Int /\ Len(exchange) \in Nat
  BY BooksType DEF RuntimeTypeOK
<1>3. PICK order \in Order :
        /\ book'[Len(book')] = order /\ Len(book') = Len(exchange) + 1
        /\ \E out \in Unanswered(order.qty) : Placed(order.side, out)
  BY RaiseFacts
<1>3a. PICK out \in Unanswered(order.qty) : Placed(order.side, out)
  BY <1>3
<1>4. order.qty \in Nat
  BY DEF Order
<1>5. out.executed \in 0 .. order.qty /\ out.live \in BOOLEAN
  BY <1>2, <1>4, UnansweredFacts
<1> DEFINE entry == [executed |-> out.executed, live |-> out.live]
           more  == Signed(order.side, out.executed)
<1>6. entry \in Entries /\ entry.executed = out.executed /\ out.executed \in Int
  BY <1>5 DEF Entries
<1>7. broker'.shares = broker.shares + more /\ exchange' = Append(exchange, entry)
  BY <1>3a DEF Placed, Executed
<1>8. more \in Int
  BY <1>6, SignedInt
<1>9. Total(Lots(book, exchange')) = Total(Lots(book, exchange))
                                       + Signed(book[Len(exchange) + 1].side, entry.executed)
  <2> HIDE DEF entry
  <2> QED
    BY <1>2, <1>6, <1>7, LotsAppend, Zenon
<1>10. Signed(book[Len(exchange) + 1].side, entry.executed) = more
  <2> HIDE DEF entry
  <2> QED
    BY <1>1, <1>3, <1>6
<1>11. NetExecuted' = Total(Lots(book, exchange'))
  BY <1>1 DEF NetExecuted, Lots
<1> HIDE DEF entry, more
<1>12. NetExecuted' = NetExecuted + more
  BY <1>9, <1>10, <1>11, NetExecutedLots
<1>13. broker.shares - account.shares = NetExecuted - NetFilled(book)
  BY <1>1 DEF DivergenceIsUnseenFills
<1>14. account'.shares = account.shares /\ NetFilled(book') = NetFilled(book)
  BY <1>1
<1>15. broker'.shares = broker.shares + more
  BY <1>7
<1> QED
  BY <1>2, <1>8, <1>12, <1>13, <1>14, <1>15

LEMMA ExplainedNext == Inv /\ Explained /\ [Next]_vars => Explained'
<1> SUFFICES ASSUME Inv, Explained, [Next]_vars PROVE Explained'
  OBVIOUS
<1>1. FlattensOnKill /\ DivergenceIsUnseenFills
  BY DEF Explained
<1>2. FlattensOnKill'
  BY <1>1, FlattensOnKillNext
<1>3. CASE AskCash \/ CheckBooks \/ SnapshotRaises
  <2>1. UNCHANGED <<account, book, broker, exchange>> /\ (killed' = "no" => killed = "no")
    BY <1>3 DEF AskCash, CheckBooks, Reconcile, SnapshotRaises, runtimeVars
  <2>2. NetExecuted' = NetExecuted
    BY <2>1 DEF NetExecuted
  <2> QED
    BY <1>1, <1>2, <2>1, <2>2 DEF Explained, DivergenceIsUnseenFills
<1>4. CASE SubmitFlatten
  <2>1. killed' # "no"
    BY <1>1, <1>4 DEF SubmitFlatten, Flatten, FlattensOnKill
  <2> QED
    BY <1>2, <2>1 DEF Explained, DivergenceIsUnseenFills
<1>5. CASE UNCHANGED vars
  <2>1. UNCHANGED <<account, book, broker, exchange, killed>>
    BY <1>5 DEF vars
  <2>2. NetExecuted' = NetExecuted
    BY <2>1 DEF NetExecuted
  <2> QED
    BY <1>1, <1>2, <2>1, <2>2 DEF Explained, DivergenceIsUnseenFills
<1>6. CASE RunLocal \/ Submit \/ SubmitRaises \/ Exchange
  BY <1>1, <1>2, <1>6, ExplainedLocal, ExplainedSubmit, ExplainedRaise,
     ExplainedExchange DEF Explained
<1> QED
  BY <1>3, <1>4, <1>5, <1>6 DEF Next, Ended

-----------------------------------------------------------------------------
(***************************************************************************)
(* The theorems.                                                           *)
(***************************************************************************)

\* Account, mirror, order book and counters of the runtime keep their types
\* whatever the network and the exchange do; the account's position is never
\* negative although the brokerage's may be.
THEOREM TypeCorrect == Spec => []TypeOK
<1>1. Inv => TypeOK
  BY DEF Inv
<1> QED
  BY <1>1, Invariance, PTL

\* No lost answer, partial fill or late fill makes the runtime believe in
\* shares that were not executed, and no order is executed beyond its size.
THEOREM FillsStayReal == Spec => []FillsAreReal
<1>1. Inv => FillsAreReal
  BY DEF Inv
<1> QED
  BY <1>1, Invariance, PTL

\* A tick that passed its reconcile has the brokerage's position, unless the
\* exchange moved after the snapshot was taken.
THEOREM QuietTicksAreInStep == Spec => []QuietTickInStep
<1>1. Inv => QuietTickInStep
  BY DEF Inv, InStep, QuietTickInStep
<1> QED
  BY <1>1, Invariance, PTL

\* Until a kill, account and brokerage differ by exactly what the exchange
\* executed and no acknowledgement told of, summed over the orders: no share is
\* lost or counted twice by any mix of partial fills, late fills and lost
\* answers.
THEOREM DivergenceIsExplained == Spec => []DivergenceIsUnseenFills
<1>1. Init => Inv /\ Explained
  BY InvInit, ExplainedInit
<1>2. Inv /\ Explained /\ [Next]_vars => (Inv /\ Explained)'
  BY InvNext, ExplainedNext
<1>3. Explained => DivergenceIsUnseenFills
  BY DEF Explained
<1> QED
  BY <1>1, <1>2, <1>3, PTL DEF Spec
=============================================================================
