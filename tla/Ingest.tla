------------------------------- MODULE Ingest -------------------------------
(***************************************************************************)
(* The four ingest commands: Binance futures (three paginated streams that *)
(* are merged), Polygon trades (pages linked by next_url), Alpha Vantage   *)
(* bars (one request) and news (one request per feed).  Each downloads all *)
(* it wants, then stores a Parquet file and after it a manifest with the   *)
(* hash of the file, over what an earlier run left in the slice.           *)
(*                                                                         *)
(* Time runs while the pages are requested: the vendor's range grows, and  *)
(* its last bar may be one that is still open.  Bars open every Width.     *)
(***************************************************************************)
EXTENDS Builtins, SequencesExt

CONSTANTS
  Width,        \* length of a bar
  FundingEvery, \* distance of funding events
  End,          \* end_ms; the range begins at 0
  Horizon,      \* bound on the clock
  Limit,        \* rows of a page
  Compact,      \* rows of a compact answer
  Feeds         \* number of news feeds

ASSUME IngestAssumption ==
  /\ Width \in Nat \ {0} /\ FundingEvery \in Nat \ {0} /\ Limit \in Nat \ {0}
  /\ Compact \in Nat \ {0} /\ Feeds \in Nat \ {0} /\ End \in Nat /\ Horizon \in Nat

VARIABLES
  vendor, day,  \* the command, and its day (None: no filter)
  now,          \* the vendor's clock
  began,        \* the clock when the command started
  stream,       \* the stream or feed being fetched, an index of Streams
  cursor,       \* startTime of the next request
  rows,         \* [stream -> rows received]
  pc,           \* "fetch", "parquet", "manifest", "done", "failed", "crashed"
  stored,       \* ticks of the Parquet file of this run, by slice
  files         \* [slice -> age of the Parquet file and of the manifest]

vars == <<vendor, day, now, began, stream, cursor, rows, pc, stored, files>>

Vendors == {"binance", "polygon", "alphavantage", "rss"}

Streams ==
  CASE vendor = "binance"      -> <<"kline", "mark", "funding">>
    [] vendor = "polygon"      -> <<"trades">>
    [] vendor = "alphavantage" -> <<"bars">>
    [] vendor = "rss"          -> [i \in 1 .. Feeds |-> "feed"]

Slices == 1 .. IF vendor = "rss" THEN Feeds ELSE 1

\* The slice a stream is stored in.
Slice == IF vendor = "rss" THEN stream ELSE 1

Init ==
  /\ vendor \in Vendors
  /\ day \in IF vendor = "rss" THEN {0} ELSE IF vendor = "alphavantage" THEN {None, 0, 1}
             ELSE {None}
  /\ now \in 0 .. Horizon /\ began = now
  /\ stream = 1 /\ cursor = 0 /\ pc = "fetch"
  /\ rows = [i \in DOMAIN Streams |-> <<>>]
  /\ stored = [i \in Slices |-> <<>>]
  /\ \E a \in {"none", "old"} :
       files = [i \in Slices |-> [parquet |-> a, manifest |-> a]]

-----------------------------------------------------------------------------
(* The vendors.                                                            *)

\* Rows of a stream by the time they are asked for with: the open of a bar,
\* the time of a funding event, the number of a trade.
Times(s) ==
  IF s = "funding" THEN {t \in 0 .. End : t % FundingEvery = 0}
  ELSE IF s = "trades" THEN 0 .. 2 * Limit
  ELSE {t \in 0 .. End : t % Width = 0}

\* Trades are of a past day; the other streams grow with the clock.
ExistAt(s, clock) == IF s = "trades" THEN Times(s) ELSE {t \in Times(s) : t <= clock}

Earliest(n, S) == {t \in S : Cardinality({u \in S : u < t}) < n}
Latest(n, S)   == {t \in S : Cardinality({u \in S : u > t}) < n}

\* The answer to a request: the first rows from the cursor that there are.
Asked == {t \in ExistAt(Streams[stream], now) : t >= cursor}
Page  == InOrder(Earliest(Limit, Asked))

DayOf(t) == t \div (3 * Width)

\* One answer: the latest rows, filtered by day where one was given.
CompactAnswer ==
  InOrder({t \in Latest(Compact, ExistAt("bars", now)) :
             day = None \/ DayOf(t) = day})

\* The entries of a feed, by date: several may be versions of one article.
Entries == {f \in SUBSET ExistAt("bars", now) : Cardinality(f) <= Compact}

Guid(t) == (t \div Width) % 2

\* Fault: only the day is looked at.
NewsOfDayTwice(entries) == InOrder({t \in entries : DayOf(t) = day})

\* dedupe_events keeps the earliest entry of each guid, and then the day counts.
NewsOfDay(entries) ==
  LET kept == {t \in entries : \A u \in entries : Guid(u) = Guid(t) => t <= u}
  IN  InOrder({t \in kept : DayOf(t) = day})

-----------------------------------------------------------------------------
(* Ticks: event times with the offset that tells apart what falls together.*)

\* Fault: mark prices are stamped like trades.
OffsetShared(s) == IF s = "funding" THEN 2 ELSE 0

Offset(s) == CASE s = "mark" -> 1 [] s = "funding" -> 2 [] OTHER -> 0

EventTime(s, t) ==
  3 * (IF s \in {"kline", "mark"} THEN t + Width - 1 ELSE t) + Offset(s)

\* A price is positive, a funding rate of either sign.
Price(s, t) == IF s = "funding" /\ (t \div FundingEvery) % 2 = 1 THEN -1 ELSE 1

Ticks(i) ==
  [j \in DOMAIN rows[i] |->
     [ts |-> EventTime(Streams[i], rows[i][j]), kind |-> Streams[i],
      price |-> Price(Streams[i], rows[i][j])]]

\* sorted() by (time, conditions): where times differ, as EventOrder says they
\* do, the conditions decide nothing.
ByTime(ticks) == Sorted(ticks, [j \in DOMAIN ticks |-> ticks[j].ts])

\* Binance merges its three streams, the others store what they received.
Merged ==
  IF vendor = "binance" THEN ByTime(Ticks(1) \o Ticks(2) \o Ticks(3)) ELSE Ticks(stream)

\* filter_price_bars: what a replay or a recording keeps of a slice.
PriceBars(ticks) ==
  Kept(ticks, {p \in DOMAIN ticks :
                 ticks[p].kind \notin {"mark", "funding"} /\ ticks[p].price > 0})

\* What a model is trained on: the whole slice, by event time.
TrainingTicks(ticks) == ByTime(ticks)

-----------------------------------------------------------------------------
(* The commands.                                                           *)

Pass ==
  /\ now < Horizon /\ pc = "fetch"
  /\ now' = now + 1
  /\ UNCHANGED <<vendor, day, began, stream, cursor, rows, pc, stored, files>>

\* Fault: one more than the close, where the next bar opens.
CursorAfterSkips(s, last) == IF s \in {"kline", "mark"} THEN last + Width + 1 ELSE last + 1

\* The last close (or funding time, or next_url) plus one.
CursorAfter(s, last) == IF s \in {"kline", "mark"} THEN last + Width ELSE last + 1

\* Binance's iterators give up where a page did not move the cursor.
NextCursor(s, last) ==
  IF vendor = "binance" /\ CursorAfter(s, last) <= cursor THEN End + 1 ELSE CursorAfter(s, last)

\* Requests go on to the end of the range, or while there is a next_url.
More == IF vendor = "polygon" THEN cursor \in Times("trades") ELSE cursor <= End

\* A page with rows.  One without ends a stream of Binance; of Polygon's, one that
\* has a next_url all the same changes nothing but that, and is no step here.
FetchPage ==
  /\ pc = "fetch" /\ vendor \in {"binance", "polygon"}
  /\ LET s == Streams[stream] IN
       /\ More /\ Page # <<>>
       /\ rows' = [rows EXCEPT ![stream] = @ \o Page]
       /\ cursor' = NextCursor(s, Last(Page))
  /\ UNCHANGED <<vendor, day, now, began, stream, pc, stored, files>>

StreamDone ==
  /\ pc = "fetch" /\ vendor \in {"binance", "polygon"}
  /\ ~ More \/ Page = <<>>
  /\ IF stream = Len(Streams)
     THEN pc' = "parquet" /\ UNCHANGED <<stream, cursor>>
     ELSE stream' = stream + 1 /\ cursor' = 0 /\ UNCHANGED pc
  /\ UNCHANGED <<vendor, day, now, began, rows, stored, files>>

FetchBars ==
  /\ pc = "fetch" /\ vendor = "alphavantage"
  /\ CompactAnswer # <<>>
  /\ rows' = [rows EXCEPT ![stream] = CompactAnswer]
  /\ pc' = "parquet"
  /\ UNCHANGED <<vendor, day, now, began, stream, cursor, stored, files>>

FetchFeed ==
  /\ pc = "fetch" /\ vendor = "rss"
  /\ \E entries \in Entries : rows' = [rows EXCEPT ![stream] = NewsOfDay(entries)]
  /\ pc' = "parquet"
  /\ UNCHANGED <<vendor, day, now, began, stream, cursor, stored, files>>

\* A request or its payload is an error, or a row is not a tick: a price, or a
\* funding rate, of zero.
FetchFails ==
  /\ pc = "fetch"
  /\ pc' = "failed"
  /\ UNCHANGED <<vendor, day, now, began, stream, cursor, rows, stored, files>>

WriteParquet ==
  /\ pc = "parquet"
  /\ stored' = [stored EXCEPT ![Slice] = Merged]
  /\ files' = [files EXCEPT ![Slice].parquet = "new"]
  /\ pc' = "manifest"
  /\ UNCHANGED <<vendor, day, now, began, stream, cursor, rows>>

\* Fault: the next feed is begun before the manifest of this one.
WriteManifestLate ==
  /\ pc = "manifest"
  /\ files' = IF vendor = "rss" /\ stream < Feeds THEN files
              ELSE [files EXCEPT ![Slice].manifest = "new"]
  /\ IF vendor = "rss" /\ stream < Feeds
     THEN stream' = stream + 1 /\ pc' = "fetch"
     ELSE pc' = "done" /\ UNCHANGED stream
  /\ UNCHANGED <<vendor, day, now, began, cursor, rows, stored>>

\* Fault: a feed that had no news is asked again.
WriteManifestRetries ==
  /\ pc = "manifest"
  /\ files' = [files EXCEPT ![Slice].manifest = "new"]
  /\ CASE vendor = "rss" /\ rows[stream] = <<>> -> pc' = "fetch" /\ UNCHANGED stream
       [] vendor = "rss" /\ rows[stream] # <<>> /\ stream < Feeds ->
            stream' = stream + 1 /\ pc' = "fetch"
       [] OTHER -> pc' = "done" /\ UNCHANGED stream
  /\ UNCHANGED <<vendor, day, now, began, cursor, rows, stored>>

\* The manifest; the news command goes on with the next feed.
WriteManifest ==
  /\ pc = "manifest"
  /\ files' = [files EXCEPT ![Slice].manifest = "new"]
  /\ IF vendor = "rss" /\ stream < Feeds
     THEN stream' = stream + 1 /\ pc' = "fetch"
     ELSE pc' = "done" /\ UNCHANGED stream
  /\ UNCHANGED <<vendor, day, now, began, cursor, rows, stored>>

\* The process ends between two writes, or a file cannot be written.
Crash ==
  /\ pc \in {"parquet", "manifest"}
  /\ pc' = "crashed"
  /\ UNCHANGED <<vendor, day, now, began, stream, cursor, rows, stored, files>>

Done == pc \in {"done", "failed", "crashed"} /\ UNCHANGED vars

Command ==
  \/ FetchPage \/ StreamDone \/ FetchBars \/ FetchFeed
  \/ WriteParquet \/ WriteManifest

Next == Pass \/ Command \/ FetchFails \/ Crash \/ Done

\* A request is answered or times out.
Spec == Init /\ [][Next]_vars /\ WF_vars(Command \/ FetchFails)
-----------------------------------------------------------------------------
(* Properties.                                                             *)

\* Well-typed state; what is received of a stream existed when it was, compact
\* answers are compact, and no article is in a day's news twice.
TypeOK ==
  /\ vendor \in Vendors /\ now \in began .. Horizon
  /\ stream \in DOMAIN Streams /\ cursor \in 0 .. End + 2 * Width + 2 * Limit
  /\ pc \in {"fetch", "parquet", "manifest", "done", "failed", "crashed"}
  /\ \A i \in DOMAIN Streams :
       /\ ToSet(rows[i]) \subseteq ExistAt(IF vendor = "rss" THEN "bars" ELSE Streams[i], now)
       /\ vendor \in {"alphavantage", "rss"} => Len(rows[i]) <= Compact
       /\ vendor = "rss" => \A t, u \in ToSet(rows[i]) : Guid(t) = Guid(u) => t = u
  /\ \A i \in Slices : \A f \in {"parquet", "manifest"} :
       files[i][f] \in {"none", "old", "new"}

RowsOf(s) ==
  IF \E i \in DOMAIN Streams : Streams[i] = s
  THEN rows[CHOOSE i \in DOMAIN Streams : Streams[i] = s] ELSE <<>>

DueOf(s) == IF s \in ToSet(Streams) THEN Cardinality(ExistAt(s, began)) ELSE 0

ResultOf(s) ==
  IF s \in ToSet(Streams)
  THEN CASE pc = "fetch"  -> "fetching"
         [] pc = "failed" -> "failed"
         [] OTHER         -> "kept"
  ELSE IF pc = "fetch" /\ stream = 1 THEN "fetching" ELSE "kept"

Klines == INSTANCE RangeFetch WITH
  Wanted <- InOrder(Times("kline")), rows <- RowsOf("kline"), due <- DueOf("kline"), result <- ResultOf("kline")
Marks == INSTANCE RangeFetch WITH
  Wanted <- InOrder(Times("mark")), rows <- RowsOf("mark"), due <- DueOf("mark"), result <- ResultOf("mark")
Funding == INSTANCE RangeFetch WITH
  Wanted <- InOrder(Times("funding")), rows <- RowsOf("funding"), due <- DueOf("funding"), result <- ResultOf("funding")
Trades == INSTANCE RangeFetch WITH
  Wanted <- InOrder(Times("trades")), rows <- RowsOf("trades"), due <- DueOf("trades"), result <- ResultOf("trades")

\* Every paginated download is the abstract one: the cursor and next_url leave
\* no gap and repeat nothing, with full, short and empty pages and while new
\* rows appear.
ImplementsRangeFetch ==
  Klines!Spec /\ Marks!Spec /\ Funding!Spec /\ Trades!Spec

\* However many rows appear while it runs, a command comes to an end.
CommandEnds == <>(pc \in {"done", "failed", "crashed"})

\* A slice is replaced whole: only a crash between its two files leaves a new
\* Parquet file with the manifest of an older run, a failed download of a later
\* feed does not, and a command that ends has stored every slice.
SliceIsWhole ==
  /\ \A i \in Slices :
       /\ files[i].manifest = "new" => files[i].parquet = "new"
       /\ files[i].parquet = "new" /\ files[i].manifest # "new" =>
            i = Slice /\ pc \in {"manifest", "crashed"}
  /\ pc = "done" => \A i \in Slices : files[i].manifest = "new"

\* A Binance slice is strictly ordered by event time although three streams
\* share their milliseconds, and the price bars that a replay reads from it are
\* the klines of the range.
EventOrder ==
  vendor = "binance" =>
    /\ \A i, j \in DOMAIN stored[1] : i < j => stored[1][i].ts < stored[1][j].ts
    /\ stored[1] # <<>> => PriceBars(stored[1]) = Ticks(1)

\* "Drop funding rows and non-positive prices before bar replay / training"
\* (io_parquet.py): a model is trained on the price bars of a slice.
TrainsOnPriceBars ==
  vendor = "binance" => TrainingTicks(stored[1]) = PriceBars(stored[1])
=============================================================================
