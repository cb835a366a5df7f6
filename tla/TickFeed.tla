------------------------------ MODULE TickFeed ------------------------------
(***************************************************************************)
(* What a session may rely on from the stream of bars it trades on: nothing*)
(* from before the session started, and no bar twice.  There is no promise *)
(* about the order of the bars, nor that the stream does not end.          *)
(***************************************************************************)
EXTENDS Sequences, SequencesExt

CONSTANTS Bars, None

VARIABLES
  barred,   \* the bars from before the start, None until the session starts
  handed,   \* the bars handed to the strategy so far
  over      \* the session has ended

feed == <<barred, handed, over>>

Init == barred = None /\ handed = <<>> /\ over = FALSE

Start ==
  /\ barred = None /\ ~ over
  /\ \E B \in SUBSET Bars : barred' = B
  /\ UNCHANGED <<handed, over>>

Hand ==
  /\ barred # None /\ ~ over
  /\ \E b \in Bars \ (barred \cup ToSet(handed)) : handed' = Append(handed, b)
  /\ UNCHANGED <<barred, over>>

End ==
  /\ ~ over
  /\ over' = TRUE
  /\ UNCHANGED <<barred, handed>>

Next == Start \/ Hand \/ End

Spec == Init /\ [][Next]_feed
=============================================================================
