----------------------------- MODULE RangeFetch -----------------------------
(***************************************************************************)
(* What a paginated download of a range promises, whatever the pages are:  *)
(* its rows are received in order, without a gap and none twice, and it is *)
(* kept only if nothing is missing of what the vendor had when it began.   *)
(* A failed download keeps nothing.                                        *)
(***************************************************************************)
EXTENDS Naturals, Sequences

CONSTANT Wanted   \* the rows of the range, in order

VARIABLES
  rows,     \* rows received
  due,      \* number of rows of the range that existed at the beginning
  result    \* "fetching", "kept" or "failed"

fetch == <<rows, due, result>>

Init == rows = <<>> /\ due \in 0 .. Len(Wanted) /\ result = "fetching"

Receive ==
  /\ result = "fetching"
  /\ \E k \in Len(rows) + 1 .. Len(Wanted) : rows' = SubSeq(Wanted, 1, k)
  /\ UNCHANGED <<due, result>>

Finish ==
  /\ result = "fetching"
  /\ result' = "failed" \/ (result' = "kept" /\ due <= Len(rows))
  /\ UNCHANGED <<rows, due>>

Spec == Init /\ [][Receive \/ Finish]_fetch
=============================================================================
