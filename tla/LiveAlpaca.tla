----------------------------- MODULE LiveAlpaca -----------------------------
(***************************************************************************)
(* The live equities loop over AlpacaPaperBroker (live/equity_broker.py):  *)
(* orders go to a broker that executes them on its own time, over a        *)
(* network that loses requests and answers.                                *)
(*                                                                         *)
(* The exchange is not part of the repository.  It is modelled from what   *)
(* submit, _poll_order and snapshot expect of it: an accepted order may    *)
(* execute in parts, before or after the program has its answer, until it  *)
(* is done or expires; sales are not limited to what is held; no fee is    *)
(* charged.                                                                *)
(***************************************************************************)
EXTENDS EquityRuntime

CONSTANTS
  BrokerCash,      \* what the brokerage account holds at the start
  NetworkFails,    \* requests and answers may be lost
  LateFills        \* an order may execute after submit has returned

ASSUME AlpacaAssumption ==
  BrokerCash \in Nat /\ {NetworkFails, LateFills} \subseteq BOOLEAN

VARIABLES
  broker,     \* the brokerage account: [cash, shares]
  exchange,   \* per order of the book: [executed, live]
  moved,      \* the exchange executed something since the last snapshot that
              \* had the position
  asked       \* the half of a snapshot that has been received: << >> or <<cash>>

vars == <<account, paper, book, killed, ticks, failures, tick, pc,
          broker, exchange, moved, asked>>

Init ==
  /\ InitRuntime
  /\ broker = [cash |-> BrokerCash, shares |-> 0]
  /\ exchange = << >>
  /\ moved = FALSE
  /\ asked = << >>

-----------------------------------------------------------------------------
(* The exchange.                                                           *)

\* The account after n shares of an order executed at p.
Executed(acct, side, n, p) ==
  [cash   |-> acct.cash - Signed(side, n) * p * Scale,
   shares |-> acct.shares + Signed(side, n)]

\* A live order executes in part or to the end, between any two steps.
ExecuteLate(i) ==
  LET o == book[i] IN
  /\ LateFills
  /\ exchange[i].live
  /\ \E n \in 1 .. o.qty - exchange[i].executed, p \in Prices :
       /\ broker' = Executed(broker, o.side, n, p)
       /\ exchange' = [exchange EXCEPT
            ![i] = [executed |-> @.executed + n,
                    live     |-> @.executed + n < o.qty]]
  /\ moved' = TRUE
  /\ UNCHANGED <<runtimeVars, asked>>

\* A day order that was not completed lapses.
Lapse(i) ==
  /\ exchange[i].live
  /\ exchange' = [exchange EXCEPT ![i].live = FALSE]
  /\ UNCHANGED <<runtimeVars, broker, moved, asked>>

-----------------------------------------------------------------------------
(* submit: POST the order, and poll it once if the answer is not final.    *)

FilledAck(n, p) ==
  [status |-> "FILLED", filled |-> n, price |-> p * Scale, fee |-> FeeFor(n),
   reason |-> "none"]
PlainAck(status, reason) ==
  [status |-> status, filled |-> 0, price |-> 0, fee |-> 0, reason |-> reason]

\* What can have happened to an order of qty shares when submit returns: how
\* much was executed and at what price, whether the rest is live, and what submit
\* reports.
Report(n, p, live, ack) == [executed |-> n, price |-> p, live |-> live, ack |-> ack]

Refused ==
  {Report(0, tick.price, FALSE, PlainAck("REJECTED", r)) : r \in {"insufficient", "other"}}

\* A fill is booked at filled_avg_price, or at the mark where there is none.
AsFilled(n, live) ==
  UNION {{Report(n, p, live, FilledAck(n, q)) : q \in {p, tick.price}} : p \in Prices}

NotFilled(n, live, status) ==
  {Report(n, p, live, PlainAck(status, "other")) : p \in Prices}

Filled(qty) == AsFilled(qty, FALSE)

\* "partially_filled" is taken for the fill of an order that goes on; an order
\* that ended canceled or expired is reported so without looking at what it
\* filled; and one that is neither filled nor ended after the poll is "NEW",
\* also if it is partially filled by then.
InParts(qty) ==
       (UNION {AsFilled(n, TRUE) : n \in 1 .. qty - 1})
  \cup (UNION {NotFilled(n, FALSE, "CANCELED") : n \in 0 .. qty - 1})
  \cup (UNION {NotFilled(n, TRUE, "NEW") : n \in 0 .. qty - 1})

\* Fault: an order whose poll was not answered is taken for filled.
UnansweredFilled(qty) ==
  {Report(n, p, n < qty, FilledAck(qty, p)) : n \in 0 .. qty, p \in Prices}

\* No answer to the POST, which the exchange may have received: REJECTED.  No
\* answer to the poll: "NEW".  The order goes on by itself.
Unanswered(qty) ==
  {Report(0, tick.price, FALSE, PlainAck("REJECTED", "other"))}
  \cup (UNION {NotFilled(n, n < qty, "REJECTED") \cup NotFilled(n, n < qty, "NEW") :
                 n \in IF LateFills THEN 0 .. qty ELSE {qty}})

Outcomes(qty) ==
  Refused \cup Filled(qty)
    \cup (IF LateFills THEN InParts(qty) ELSE {})
    \cup (IF NetworkFails THEN Unanswered(qty) ELSE {})

\* The broker's side of a submit that ended in out.
Placed(side, out) ==
  /\ broker' = Executed(broker, side, out.executed, out.price)
  /\ exchange' = Append(exchange, [executed |-> out.executed, live |-> out.live])
  /\ moved' = (moved \/ out.executed > 0)

Submit ==
  /\ pc = "submit"
  /\ \E out \in Outcomes(Pending.qty), slow \in BOOLEAN :
       Settle(out.ack, slow) /\ Placed(Pending.side, out)
  /\ UNCHANGED asked

SubmitFlatten ==
  /\ pc = "flatten"
  /\ \E out \in Outcomes(account.shares) :
       Flatten(out.ack) /\ Placed("SELL", out)
  /\ UNCHANGED asked

\* The body of an answer is no JSON: the exception leaves on_tick before the
\* acknowledgement is applied, and the order goes on by itself.
SubmitRaises ==
  /\ NetworkFails /\ pc \in {"submit", "flatten"}
  /\ LET order == IF pc = "submit" THEN Pending ELSE FlattenOrder IN
       /\ \E out \in Unanswered(order.qty) : Placed(order.side, out)
       /\ book' = IF pc = "submit" THEN book ELSE Append(book, order)
  /\ pc' = "raised"
  /\ UNCHANGED <<account, paper, killed, ticks, failures, tick, asked>>

SnapshotRaises ==
  /\ NetworkFails /\ pc = "reconcile"
  /\ pc' = "raised" /\ asked' = << >>
  /\ UNCHANGED <<account, paper, book, killed, ticks, failures, tick, broker, exchange,
                 moved>>

\* snapshot is two requests, and the exchange may execute between them.  Without
\* an answer the cash is absent and the position reads zero.
Unknown(value) == IF NetworkFails THEN {value} ELSE {}

AskCash ==
  /\ pc = "reconcile" /\ asked = << >>
  /\ \E cash \in {broker.cash} \cup Unknown(None) : asked' = <<cash>>
  /\ UNCHANGED <<runtimeVars, broker, exchange, moved>>

CheckBooks ==
  /\ asked # << >>
  /\ \E shares \in {broker.shares} \cup Unknown(0) :
       /\ Reconcile([cash |-> asked[1], shares |-> shares])
       /\ moved' = (moved /\ shares # broker.shares)
  /\ asked' = << >>
  /\ UNCHANGED <<broker, exchange>>

RunLocal == LocalStep /\ UNCHANGED <<broker, exchange, moved, asked>>

Exchange == \E i \in DOMAIN exchange : ExecuteLate(i) \/ Lapse(i)

Ended == (SessionOver \/ pc = "raised") /\ UNCHANGED vars

Next ==
  \/ RunLocal \/ Submit \/ AskCash \/ CheckBooks \/ SubmitFlatten
  \/ SubmitRaises \/ SnapshotRaises \/ Exchange \/ Ended

Spec == Init /\ [][Next]_vars

-----------------------------------------------------------------------------
TypeOK ==
  /\ RuntimeTypeOK
  /\ broker \in [cash : Int, shares : Int]
  /\ exchange \in Seq([executed : Nat, live : BOOLEAN])
  /\ moved \in BOOLEAN
  /\ Len(asked) <= 1 /\ (asked # << >> => pc = "reconcile")

\* The program never believes in a fill the exchange did not make, and the
\* exchange never fills more than was ordered.
FillsAreReal ==
  \A i \in DOMAIN exchange :
    book[i].filled <= exchange[i].executed /\ exchange[i].executed <= book[i].qty

NetExecuted ==
  Total([i \in DOMAIN exchange |-> Signed(book[i].side, exchange[i].executed)])

\* While the session runs, every share by which the account and the brokerage
\* differ is the unseen part of some order: summing over the orders, what was
\* executed less what was acknowledged.
DivergenceIsUnseenFills ==
  killed = "no" =>
    broker.shares - account.shares = NetExecuted - NetFilled(book)

\* A session tick that ended without a kill has the right position, unless the
\* exchange moved after the last snapshot that had the position; a snapshot that
\* failed, and reads as zero, does not pass for one that agrees.
QuietTickInStep ==
  /\ pc = "idle" /\ killed = "no" /\ tick.rth
  /\ ReconcileEvery = 1 /\ KillOnMismatch
  /\ ~ moved
  => account.shares = broker.shares

-----------------------------------------------------------------------------
(* What the documentation says and the code does not do.                   *)

\* docs/ROADMAP.md: "Capital limits + kill enforced on live path".  The cap is
\* applied to the position the account believes in.
BrokerPositionCap == MaxPosition # None => broker.shares <= MaxPosition
=============================================================================
