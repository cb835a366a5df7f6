------------------------------- MODULE Orders -------------------------------
(***************************************************************************)
(* The order state machine of live/orders.py: a managed order, the phases  *)
(* it may move through, and what a broker acknowledgement does to it.      *)
(*                                                                         *)
(* An acknowledgement is [status, filled, price, fee, reason]; the reason  *)
(* is kept only as far as the runtime looks at it, "insufficient" or not.  *)
(***************************************************************************)
EXTENDS Market

Phases   == {"NEW", "SUBMITTED", "PARTIAL", "FILLED", "REJECTED", "CANCELED"}
Statuses == {"NEW", "FILLED", "REJECTED", "CANCELED"}
Reasons  == {"none", "insufficient", "other"}

Allowed ==
  [ from \in Phases |->
      CASE from = "NEW"       -> {"SUBMITTED", "REJECTED", "CANCELED"}
        [] from = "SUBMITTED" -> {"PARTIAL", "FILLED", "REJECTED", "CANCELED"}
        [] from = "PARTIAL"   -> {"FILLED", "CANCELED", "REJECTED"}
        [] OTHER              -> {} ]

\* transition: staying in a phase is a no-op, any other move must be allowed.
Legal(from, to) == to = from \/ to \in Allowed[from]

Order == [side : Sides, qty : Nat, phase : Phases, filled : Nat]
Ack   == [status : Statuses, filled : Nat, price : Nat, fee : Nat,
          reason : Reasons]

Signed(side, qty) == IF side = "BUY" THEN qty ELSE -qty

\* The position a list of orders accounts for: bought less sold.
NetFilled(orders) ==
  Total([i \in DOMAIN orders |-> Signed(orders[i].side, orders[i].filled)])

NewOrder(side, qty) ==
  [side |-> side, qty |-> qty, phase |-> "NEW", filled |-> 0]

\* The phase an acknowledgement asks for.
Destination(o, ack) ==
  CASE ack.status = "FILLED" /\ ack.filled < o.qty  -> "PARTIAL"
    [] ack.status = "FILLED" /\ ack.filled >= o.qty -> "FILLED"
    [] ack.status = "NEW"                           -> "SUBMITTED"
    [] OTHER                                        -> ack.status

Submitted(o) == IF o.phase = "NEW" THEN "SUBMITTED" ELSE o.phase

\* apply_result raises ValueError exactly when the move is illegal.
Raises(o, ack) == ~ Legal(Submitted(o), Destination(o, ack))

\* Faults: a fill counts as the whole order; a fill in part is not recorded.
ApplyResultWhole(o, ack) ==
  [o EXCEPT !.phase  = IF Raises(o, ack) THEN Submitted(o)
                                         ELSE Destination(o, ack),
            !.filled = o.qty]
ApplyResultFinal(o, ack) ==
  [o EXCEPT !.phase  = IF Raises(o, ack) THEN Submitted(o)
                                         ELSE Destination(o, ack),
            !.filled = IF Destination(o, ack) = "FILLED" THEN ack.filled ELSE @]

\* apply_result: the fill quantity is stored before the move is attempted, so
\* it stays changed when the move raises.
ApplyResult(o, ack) ==
  [o EXCEPT !.phase  = IF Raises(o, ack) THEN Submitted(o)
                                         ELSE Destination(o, ack),
            !.filled = IF ack.status = "FILLED" THEN ack.filled ELSE @]
=============================================================================
