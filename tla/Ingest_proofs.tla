--------------------------- MODULE Ingest_proofs ----------------------------
(***************************************************************************)
(* Invariants of the ingest commands, and that a paginated download is the *)
(* abstract one of RangeFetch, for every range, page size, spacing of bars *)
(* and number of feeds.                                                    *)
(***************************************************************************)
EXTENDS Ingest, Shared_proofs

-----------------------------------------------------------------------------
(***************************************************************************)
(* Streams, slices and times.                                              *)
(***************************************************************************)
Kinds == {"kline", "mark", "funding", "trades", "bars", "feed"}

LEMMA ParameterTypes ==
  /\ Width \in Nat \ {0} /\ FundingEvery \in Nat \ {0} /\ Limit \in Nat \ {0}
  /\ Compact \in Nat \ {0} /\ Feeds \in Nat \ {0} /\ End \in Nat /\ Horizon \in Nat
  BY IngestAssumption

LEMMA StreamFacts ==
  ASSUME vendor \in Vendors
  PROVE  /\ Streams \in Seq(Kinds) /\ Len(Streams) \in Nat \ {0}
         /\ DOMAIN Streams = 1 .. Len(Streams)
         /\ vendor = "rss" => Len(Streams) = Feeds
         /\ vendor # "rss" => Slices = {1}
         /\ vendor = "rss" => Slices = 1 .. Feeds
<1>1. CASE vendor = "binance"
  <2>1. Streams = <<"kline", "mark", "funding">>
    BY <1>1 DEF Streams
  <2> QED
    BY <1>1, <2>1 DEF Kinds, Slices
<1>2. CASE vendor = "polygon"
  <2>1. Streams = <<"trades">>
    BY <1>2 DEF Streams
  <2> QED
    BY <1>2, <2>1 DEF Kinds, Slices
<1>3. CASE vendor = "alphavantage"
  <2>1. Streams = <<"bars">>
    BY <1>3 DEF Streams
  <2> QED
    BY <1>3, <2>1 DEF Kinds, Slices
<1>4. CASE vendor = "rss"
  <2>1. Streams = [i \in 1 .. Feeds |-> "feed"]
    BY <1>4 DEF Streams
  <2>2. Feeds \in Nat \ {0} /\ "feed" \in Kinds
    BY ParameterTypes DEF Kinds
  <2> QED
    BY <1>4, <2>1, <2>2 DEF Slices
<1> QED
  BY <1>1, <1>2, <1>3, <1>4 DEF Vendors

\* The slice of a stream, and whose slices come before it.
LEMMA SliceFacts ==
  ASSUME vendor \in Vendors, stream \in DOMAIN Streams
  PROVE  /\ Slice \in Slices /\ Slices \subseteq Int
         /\ Slice = Feeds \/ vendor # "rss" => \A i \in Slices : i <= Slice
<1>1. stream \in 1 .. Len(Streams) /\ Len(Streams) \in Nat
  BY StreamFacts
<1>2. CASE vendor = "rss"
  BY <1>1, <1>2, StreamFacts, ParameterTypes DEF Slice
<1>3. CASE vendor # "rss"
  <2>1. Slice = 1 /\ Slices = {1}
    BY <1>3, StreamFacts DEF Slice
  <2> QED
    BY <2>1
<1> QED
  BY <1>2, <1>3

LEMMA TimesFacts ==
  ASSUME NEW s
  PROVE  /\ Times(s) \subseteq Nat /\ IsFiniteSet(Times(s))
         /\ s # "trades" => \A t \in Times(s) : t <= End
         /\ s = "trades" => \A t \in Times(s) : t <= 2 * Limit
<1>1. IsFiniteSet(0 .. End) /\ IsFiniteSet(0 .. 2 * Limit)
  <2>1. End \in Int /\ 2 * Limit \in Int
    BY ParameterTypes
  <2> QED
    BY <2>1, FS_Interval
<1>2. CASE s = "trades"
  <2>1. Times(s) = 0 .. 2 * Limit
    BY <1>2 DEF Times
  <2>2. 2 * Limit \in Nat
    BY ParameterTypes
  <2> QED
    BY <1>1, <1>2, <2>1, <2>2
<1>3. CASE s # "trades"
  <2>1. Times(s) \in SUBSET (0 .. End)
    BY <1>3 DEF Times
  <2>2. End \in Nat
    BY ParameterTypes
  <2>3. IsFiniteSet(Times(s))
    BY <1>1, <2>1, FS_Subset
  <2> QED
    BY <1>3, <2>1, <2>2, <2>3
<1> QED
  BY <1>2, <1>3

\* What exists is of the range, and goes on to exist.
LEMMA ExistFacts ==
  ASSUME NEW s, NEW c \in Int
  PROVE  /\ ExistAt(s, c) \subseteq Times(s)
         /\ ExistAt(s, c) \subseteq Nat /\ IsFiniteSet(ExistAt(s, c))
         /\ ExistAt(s, c) \subseteq ExistAt(s, c + 1)
<1>1. ExistAt(s, c) \in SUBSET Times(s)
  BY DEF ExistAt
<1>2. ExistAt(s, c) \subseteq Nat /\ IsFiniteSet(ExistAt(s, c))
  BY <1>1, TimesFacts, FS_Subset
<1>3. ExistAt(s, c) \subseteq ExistAt(s, c + 1)
  <2>1. Times(s) \subseteq Int
    BY TimesFacts
  <2>2. \A t \in Times(s) : t <= c => t <= c + 1
    BY <2>1
  <2> QED
    BY <2>2 DEF ExistAt
<1> QED
  BY <1>1, <1>2, <1>3

-----------------------------------------------------------------------------
(***************************************************************************)
(* The answers.                                                            *)
(***************************************************************************)

\* The first rows of a set leave none out before them, and there are some if
\* the set has any.
LEMMA EarliestFacts ==
  ASSUME NEW S, S \subseteq Int, IsFiniteSet(S), NEW n \in Nat \ {0}
  PROVE  /\ Earliest(n, S) \subseteq S /\ IsFiniteSet(Earliest(n, S))
         /\ S # {} => Earliest(n, S) # {}
         /\ \A t \in Earliest(n, S), u \in S : u < t => u \in Earliest(n, S)
<1>1. Earliest(n, S) = {t \in S : Cardinality(Below(S, t)) < n}
  BY DEF Earliest, Below
<1>2. Earliest(n, S) \in SUBSET S
  BY <1>1
<1>3. ASSUME S # {} PROVE Earliest(n, S) # {}
  <2>1. Cardinality(S) \in Nat /\ Cardinality(S) # 0
    BY <1>3, FS_CardinalityType, FS_EmptySet
  <2>2. 1 \in 1 .. Cardinality(S)
    BY <2>1
  <2>3. PICK x \in S : Cardinality(Below(S, x)) = 1 - 1
    BY <2>2, PlaceTaken
  <2>4. Cardinality(Below(S, x)) < n
    BY <2>3
  <2> QED
    BY <1>1, <2>4
<1>4. ASSUME NEW t \in Earliest(n, S), NEW u \in S, u < t
      PROVE  u \in Earliest(n, S)
  <2>1. Cardinality(Below(S, u)) < Cardinality(Below(S, t))
    BY <1>1, <1>4, BelowRises
  <2>2. Cardinality(Below(S, u)) \in Int /\ Cardinality(Below(S, t)) \in Int
    <3>1. t \in S /\ Below(S, t) \in SUBSET S /\ Below(S, u) \in SUBSET S
      BY <1>1 DEF Below
    <3>2. IsFiniteSet(Below(S, t)) /\ IsFiniteSet(Below(S, u))
      BY <3>1, FS_Subset
    <3>3. Cardinality(Below(S, t)) \in Nat /\ Cardinality(Below(S, u)) \in Nat
      BY <3>2, FS_CardinalityType
    <3> QED
      BY <3>3
  <2>3. Cardinality(Below(S, t)) < n
    BY <1>1
  <2>4. Cardinality(Below(S, u)) < n
    BY <2>1, <2>2, <2>3
  <2> QED
    BY <1>1, <2>4
<1>5. IsFiniteSet(Earliest(n, S))
  BY <1>2, FS_Subset
<1> QED
  BY <1>2, <1>3, <1>4, <1>5

\* The n latest rows are at most n.
LEMMA LatestFacts ==
  ASSUME NEW S, S \subseteq Int, IsFiniteSet(S), NEW n \in Nat \ {0}
  PROVE  /\ Latest(n, S) \subseteq S /\ IsFiniteSet(Latest(n, S))
         /\ Cardinality(Latest(n, S)) <= n
<1> DEFINE L == Latest(n, S)
<1>1. L \in SUBSET S
  BY DEF Latest
<1>2. IsFiniteSet(L)
  BY <1>1, FS_Subset
<1>3. Cardinality(L) \in Nat
  BY <1>2, FS_CardinalityType
<1>4. CASE L = {}
  <2>1. Cardinality(L) = 0
    BY <1>4, FS_EmptySet
  <2> QED
    BY <1>1, <1>2, <2>1
<1>5. CASE L # {}
  <2>1. Cardinality(L) # 0
    BY <1>2, <1>5, FS_EmptySet
  <2>2. 1 \in 1 .. Cardinality(L)
    <3> HIDE DEF L
    <3> QED
      BY <1>3, <2>1
  <2>3. PICK m \in L : Cardinality(Below(L, m)) = 1 - 1
    BY <1>1, <1>2, <2>2, PlaceTaken
  <2>4. Below(L, m) = {}
    <3>1. Below(L, m) \in SUBSET L
      BY DEF Below
    <3>2. IsFiniteSet(Below(L, m)) /\ Cardinality(Below(L, m)) = 0
      BY <1>2, <2>3, <3>1, FS_Subset
    <3> QED
      BY <3>2, FS_EmptySet
  <2> DEFINE U == {u \in S : u > m}
  <2>5. L \ {m} \in SUBSET U
    <3> SUFFICES ASSUME NEW x \in L, x # m PROVE x > m
      BY <1>1
    <3>1. x \in Int /\ m \in Int /\ ~ (x < m)
      BY <1>1, <2>4 DEF Below
    <3> QED
      BY <3>1
  <2>6. Cardinality(U) < n
    BY DEF Latest
  <2>7. U \in SUBSET S
    OBVIOUS
  <2>8. IsFiniteSet(U) /\ Cardinality(U) \in Nat
    BY <2>7, FS_Subset, FS_CardinalityType
  <2>9. Cardinality(L \ {m}) <= Cardinality(U)
    BY <2>5, <2>8, FS_Subset
  <2>10. Cardinality(L \ {m}) = Cardinality(L) - 1
    BY <1>2, FS_RemoveElement
  <2> HIDE DEF U, L
  <2>11. Cardinality(L) <= n
    BY <1>3, <2>6, <2>8, <2>9, <2>10
  <2> QED
    BY <1>1, <1>2, <2>11 DEF L
<1> QED
  BY <1>4, <1>5

\* What a sequence in order is made of.
LEMMA InOrderRows ==
  ASSUME NEW S, S \subseteq Nat, IsFiniteSet(S)
  PROVE  /\ InOrder(S) \in Seq(Nat) /\ ToSet(InOrder(S)) = S
         /\ Len(InOrder(S)) = Cardinality(S) /\ Cardinality(S) \in Nat
<1>1. S \subseteq Int
  OBVIOUS
<1>2. Seq(S) \subseteq Seq(Nat)
  BY SeqMonotonic
<1>3. ToSet(InOrder(S)) = S
  BY <1>1, InOrderRange DEF ToSet
<1> QED
  BY <1>1, <1>2, <1>3, InOrderPlaces

LEMMA PageFacts ==
  ASSUME vendor \in Vendors, stream \in DOMAIN Streams, now \in Nat
  PROVE  LET P == Earliest(Limit, Asked)
             E == ExistAt(Streams[stream], now)
         IN  /\ Asked \subseteq E /\ P \subseteq Asked /\ P \subseteq Nat /\ IsFiniteSet(P)
             /\ Page \in Seq(Nat) /\ ToSet(Page) = P
             /\ Page # <<>> <=> Asked # {}
             /\ Page # <<>> => /\ Last(Page) \in P
                               /\ \A t \in P : t <= Last(Page)
             /\ \A t \in P, u \in Asked : u < t => u \in P
<1> DEFINE P == Earliest(Limit, Asked)
           E == ExistAt(Streams[stream], now)
<1>1. E \subseteq Nat /\ IsFiniteSet(E)
  BY ExistFacts
<1>2. Asked \in SUBSET E
  BY DEF Asked
<1>3. Asked \subseteq Int /\ IsFiniteSet(Asked)
  BY <1>1, <1>2, FS_Subset
<1>4. /\ P \subseteq Asked /\ IsFiniteSet(P) /\ (Asked # {} => P # {})
      /\ \A t \in P, u \in Asked : u < t => u \in P
  BY <1>3, EarliestFacts, ParameterTypes
<1>5. P \subseteq Nat
  BY <1>1, <1>2, <1>4
<1>6. Page = InOrder(P)
  BY DEF Page
<1> HIDE DEF P
<1>7. Page \in Seq(Nat) /\ ToSet(Page) = P
  BY <1>4, <1>5, <1>6, InOrderRows
<1>8. P # {} => Page # <<>> /\ Last(Page) \in P /\ \A t \in P : t <= Last(Page)
  <2> SUFFICES ASSUME P # {}
               PROVE  Page # <<>> /\ Last(Page) \in P /\ \A t \in P : t <= Last(Page)
    OBVIOUS
  <2>1. P \subseteq Int
    BY <1>5
  <2>2. /\ Len(Page) \in Nat \ {0}
        /\ Page[Len(Page)] \in P /\ \A t \in P : t <= Page[Len(Page)]
    BY <1>4, <1>6, <2>1, InOrderLast
  <2>3. Page # <<>>
    BY <2>2, EmptySeq
  <2> QED
    BY <2>2, <2>3 DEF Last
<1>9. P = {} => Page = <<>>
  BY <1>6, InOrderEmpty
<1> QED
  BY <1>2, <1>4, <1>5, <1>7, <1>8, <1>9 DEF P

-----------------------------------------------------------------------------
(***************************************************************************)
(* Type correctness.  Shape is what TypeOK leaves to the reader, RowsOK    *)
(* its statement on the rows of a stream.                                  *)
(***************************************************************************)
Ages == {"none", "old", "new"}
Stages == {"fetch", "parquet", "manifest", "done", "failed", "crashed"}

Shape ==
  /\ vendor \in Vendors
  /\ began \in Nat /\ now \in Nat /\ began <= now /\ now <= Horizon
  /\ stream \in DOMAIN Streams
  /\ cursor \in Nat /\ cursor <= End + 2 * Width + 2 * Limit
  /\ pc \in Stages
  /\ rows \in [DOMAIN Streams -> Seq(Nat)]
  /\ files \in [Slices -> [parquet : Ages, manifest : Ages]]

RowsOK(i) ==
  /\ ToSet(rows[i]) \subseteq ExistAt(IF vendor = "rss" THEN "bars" ELSE Streams[i], now)
  /\ vendor \in {"alphavantage", "rss"} => Len(rows[i]) <= Compact
  /\ vendor = "rss" => \A t, u \in ToSet(rows[i]) : Guid(t) = Guid(u) => t = u

TypeInv == Shape /\ \A i \in DOMAIN Streams : RowsOK(i)

LEMMA TypeInvImplies == TypeInv => TypeOK
<1> SUFFICES ASSUME TypeInv PROVE TypeOK
  OBVIOUS
<1>1. vendor \in Vendors /\ stream \in DOMAIN Streams /\ pc \in Stages
  BY DEF TypeInv, Shape
<1>2. now \in began .. Horizon /\ cursor \in 0 .. End + 2 * Width + 2 * Limit
  <2>1. /\ began \in Nat /\ now \in Nat /\ began <= now /\ now <= Horizon
        /\ cursor \in Nat /\ cursor <= End + 2 * Width + 2 * Limit
    BY DEF TypeInv, Shape
  <2>2. End + 2 * Width + 2 * Limit \in Nat
    BY ParameterTypes
  <2> QED
    BY <2>1, <2>2, ParameterTypes
<1>3. \A i \in Slices : \A f \in {"parquet", "manifest"} : files[i][f] \in Ages
  <2>1. files \in [Slices -> [parquet : Ages, manifest : Ages]]
    BY DEF TypeInv, Shape
  <2> QED
    BY <2>1
<1>4. \A i \in DOMAIN Streams : RowsOK(i)
  BY DEF TypeInv
<1> QED
  BY <1>1, <1>2, <1>3, <1>4 DEF TypeOK, RowsOK, Stages, Ages

LEMMA TypeInvInit == Init => TypeInv
<1> SUFFICES ASSUME Init PROVE TypeInv
  OBVIOUS
<1>1. vendor \in Vendors /\ stream = 1 /\ cursor = 0 /\ pc = "fetch" /\ began = now
      /\ now \in 0 .. Horizon
  BY DEF Init
<1>2. stream \in DOMAIN Streams
  BY <1>1, StreamFacts
<1>3. now \in Nat /\ now <= Horizon /\ began <= now
  BY <1>1, ParameterTypes
<1>4. rows = [i \in DOMAIN Streams |-> <<>>]
  BY DEF Init
<1>5. rows \in [DOMAIN Streams -> Seq(Nat)]
  BY <1>4
<1>6. files \in [Slices -> [parquet : Ages, manifest : Ages]]
  <2>1. PICK a \in {"none", "old"} :
          files = [i \in Slices |-> [parquet |-> a, manifest |-> a]]
    BY DEF Init
  <2>2. [parquet |-> a, manifest |-> a] \in [parquet : Ages, manifest : Ages]
    BY DEF Ages
  <2> QED
    BY <2>1, <2>2
<1>7. cursor \in Nat /\ cursor <= End + 2 * Width + 2 * Limit
  BY <1>1, ParameterTypes
<1>8. Shape
  BY <1>1, <1>2, <1>3, <1>5, <1>6, <1>7 DEF Shape, Stages
<1>9. ASSUME NEW i \in DOMAIN Streams PROVE RowsOK(i)
  <2>1. rows[i] = <<>>
    BY <1>4
  <2>2. ToSet(rows[i]) = {} /\ Len(rows[i]) = 0
    <3>1. DOMAIN rows[i] = {}
      BY <2>1
    <3> QED
      BY <2>1, <3>1, EmptySeq DEF ToSet
  <2>3. Len(rows[i]) <= Compact
    BY <2>2, ParameterTypes
  <2> QED
    BY <2>2, <2>3 DEF RowsOK
<1> QED
  BY <1>8, <1>9 DEF TypeInv

\* The cursor of the next request is behind the last row, and not far.
LEMMA CursorFacts ==
  ASSUME NEW s, NEW t \in Times(s)
  PROVE  /\ CursorAfter(s, t) \in Nat /\ t < CursorAfter(s, t)
         /\ CursorAfter(s, t) <= End + 2 * Width + 2 * Limit
<1> DEFINE c == CursorAfter(s, t)
<1>1. t \in Nat /\ (t <= End \/ t <= 2 * Limit)
  BY TimesFacts
<1>2. c = t + Width \/ c = t + 1
  BY DEF CursorAfter
<1> HIDE DEF c
<1>3. c \in Nat /\ t < c /\ c <= t + Width
  BY <1>1, <1>2, ParameterTypes
<1>4. c <= End + 2 * Width + 2 * Limit
  BY <1>1, <1>3, ParameterTypes
<1> QED
  BY <1>3, <1>4 DEF c

\* The vendors answer from the cursor on, so that no page makes Binance's iterators
\* give up.
LEMMA CursorMoves ==
  ASSUME vendor \in Vendors, stream \in DOMAIN Streams, now \in Nat, cursor \in Nat,
         Page # <<>>
  PROVE  NextCursor(Streams[stream], Last(Page)) = CursorAfter(Streams[stream], Last(Page))
<1> DEFINE s == Streams[stream]
           last == Last(Page)
<1>1. last \in Asked /\ last \in ExistAt(s, now)
  BY PageFacts
<1>2. last >= cursor /\ last \in Times(s)
  BY <1>1, ExistFacts DEF Asked
<1>3. CursorAfter(s, last) \in Nat /\ last < CursorAfter(s, last) /\ last \in Nat
  BY <1>2, CursorFacts, TimesFacts
<1> HIDE DEF s, last
<1>4. ~ (CursorAfter(s, last) <= cursor)
  BY <1>2, <1>3
<1>5. NextCursor(s, last) = CursorAfter(s, last)
  BY <1>4 DEF NextCursor
<1> QED
  BY <1>5 DEF s, last

\* The rows of the other streams stay as they are, and what existed exists.
LEMMA OtherRows ==
  ASSUME TypeInv, vendor' = vendor, now' \in {now, now + 1}, NEW i \in DOMAIN Streams,
         rows'[i] = rows[i]
  PROVE  RowsOK(i)'
<1> DEFINE s == IF vendor = "rss" THEN "bars" ELSE Streams[i]
<1>1. now \in Int /\ RowsOK(i)
  BY DEF TypeInv, Shape
<1>2. Streams' = Streams
  BY DEF Streams
<1>3. ExistAt(s, now) \subseteq ExistAt(s, now')
  BY <1>1, ExistFacts
<1> QED
  BY <1>1, <1>2, <1>3 DEF RowsOK, s

LEMMA TypeInvNext == TypeInv /\ [Next]_vars => TypeInv'
<1> SUFFICES ASSUME TypeInv, [Next]_vars PROVE TypeInv'
  OBVIOUS
<1>1. /\ Shape /\ \A i \in DOMAIN Streams : RowsOK(i)
      /\ vendor \in Vendors /\ stream \in DOMAIN Streams
      /\ now \in Nat /\ rows \in [DOMAIN Streams -> Seq(Nat)]
  BY DEF TypeInv, Shape
<1>2. ASSUME vendor' = vendor PROVE Streams' = Streams /\ Slices' = Slices
  BY <1>2 DEF Streams, Slices
<1>3. ASSUME vendor' = vendor, began' = began, now' \in {now, now + 1},
             now' <= Horizon, rows' = rows, files' = files,
             stream' \in DOMAIN Streams, cursor' \in {0, cursor}, pc' \in Stages
      PROVE  TypeInv'
  <2>1. Streams' = Streams /\ Slices' = Slices
    BY <1>2, <1>3
  <2>2. began' \in Nat /\ now' \in Nat /\ began' <= now'
    <3>1. began \in Nat /\ now \in Nat /\ began <= now
      BY <1>1 DEF Shape
    <3> QED
      BY <1>3, <3>1
  <2>3. cursor' \in Nat /\ cursor' <= End + 2 * Width + 2 * Limit
    <3>1. cursor \in Nat /\ cursor <= End + 2 * Width + 2 * Limit
      BY <1>1 DEF Shape
    <3>2. 0 <= End + 2 * Width + 2 * Limit
      BY ParameterTypes
    <3> QED
      BY <1>3, <3>1, <3>2
  <2>4. Shape'
    BY <1>1, <1>3, <2>1, <2>2, <2>3 DEF Shape
  <2>5. \A i \in DOMAIN Streams : RowsOK(i)'
    BY <1>3, OtherRows
  <2> QED
    BY <2>1, <2>4, <2>5 DEF TypeInv
<1>4. CASE Pass
  <2>1. now' = now + 1 /\ now' <= Horizon
    BY <1>1, <1>4, ParameterTypes DEF Pass
  <2> QED
    BY <1>1, <1>3, <1>4, <2>1 DEF Pass, Shape, Stages
<1>5. CASE FetchPage
  <2> DEFINE s == Streams[stream]
             E == ExistAt(s, now)
  <2>1. /\ Page # <<>> /\ rows' = [rows EXCEPT ![stream] = rows[stream] \o Page]
        /\ cursor' = CursorAfter(s, Last(Page)) /\ vendor \in {"binance", "polygon"}
        /\ UNCHANGED <<vendor, day, now, began, stream, pc, stored, files>>
    <3>1. cursor \in Nat
      BY <1>1 DEF Shape
    <3> QED
      BY <1>1, <1>5, <3>1, CursorMoves DEF FetchPage
  <2>2. /\ Page \in Seq(Nat) /\ ToSet(Page) \subseteq E
        /\ Last(Page) \in E /\ E \subseteq Times(s)
    <3>1. E \subseteq Times(s)
      BY <1>1, ExistFacts
    <3> QED
      BY <1>1, <2>1, <3>1, PageFacts
  <2>3. cursor' \in Nat /\ cursor' <= End + 2 * Width + 2 * Limit
    BY <2>1, <2>2, CursorFacts
  <2> DEFINE new == rows[stream] \o Page
  <2>4. /\ new \in Seq(Nat) /\ ToSet(new) \subseteq ToSet(rows[stream]) \cup ToSet(Page)
    <3> DEFINE old == rows[stream]
    <3>1. old \in Seq(Nat)
      BY <1>1
    <3> HIDE DEF old
    <3>2. /\ old \o Page \in Seq(Nat) /\ Len(old \o Page) = Len(old) + Len(Page)
          /\ \A i \in 1 .. Len(old) + Len(Page) :
               (old \o Page)[i] = IF i <= Len(old) THEN old[i] ELSE Page[i - Len(old)]
      BY <2>2, <3>1, ConcatProperties
    <3>3. ASSUME NEW i \in DOMAIN (old \o Page)
          PROVE  (old \o Page)[i] \in ToSet(old) \cup ToSet(Page)
      <4>1. Len(old) \in Nat /\ Len(Page) \in Nat
            /\ DOMAIN old = 1 .. Len(old) /\ DOMAIN Page = 1 .. Len(Page)
        BY <2>2, <3>1, LenProperties
      <4>2. DOMAIN (old \o Page) = 1 .. Len(old) + Len(Page)
        BY <3>2, LenProperties
      <4>3. i \in 1 .. Len(old) + Len(Page)
        BY <4>2
      <4>4. CASE i <= Len(old)
        BY <3>2, <4>1, <4>3, <4>4 DEF ToSet
      <4>5. CASE ~ (i <= Len(old))
        <5>1. i - Len(old) \in DOMAIN Page
          BY <4>1, <4>3, <4>5
        <5> QED
          BY <3>2, <4>3, <4>5, <5>1 DEF ToSet
      <4> QED
        BY <4>4, <4>5
    <3>4. ToSet(old \o Page) \subseteq ToSet(old) \cup ToSet(Page)
      BY <3>3 DEF ToSet
    <3> QED
      BY <3>2, <3>4 DEF old
  <2> HIDE DEF new
  <2>5. rows' = [rows EXCEPT ![stream] = new]
    BY <2>1 DEF new
  <2>6. rows' \in [DOMAIN Streams -> Seq(Nat)]
    BY <1>1, <2>4, <2>5
  <2>7. Streams' = Streams /\ Slices' = Slices
    BY <1>2, <2>1
  <2>8. Shape'
    BY <1>1, <2>1, <2>3, <2>6, <2>7 DEF Shape
  <2>9. ASSUME NEW i \in DOMAIN Streams PROVE RowsOK(i)'
    <3>1. CASE i = stream
      <4>1. rows'[i] = new
        BY <1>1, <2>5, <3>1
      <4>2. vendor' # "rss" /\ vendor' # "alphavantage" /\ now' = now
        BY <2>1
      <4>3. ToSet(rows[stream]) \subseteq E
        BY <1>1, <2>1 DEF RowsOK
      <4> QED
        BY <2>2, <2>4, <2>7, <3>1, <4>1, <4>2, <4>3 DEF RowsOK
    <3>2. CASE i # stream
      BY <1>1, <2>1, <2>5, <3>2, OtherRows
    <3> QED
      BY <3>1, <3>2
  <2> QED
    BY <2>7, <2>8, <2>9 DEF TypeInv
<1>6. CASE StreamDone
  <2>1. stream' \in DOMAIN Streams
    <3>1. stream' \in {stream, stream + 1} /\ (stream = Len(Streams) => stream' = stream)
      BY <1>6 DEF StreamDone
    <3>2. Len(Streams) \in Nat /\ DOMAIN Streams = 1 .. Len(Streams)
      BY <1>1, StreamFacts
    <3> QED
      BY <1>1, <3>1, <3>2
  <2>2. /\ cursor' \in {0, cursor} /\ pc' \in {pc, "parquet"}
        /\ UNCHANGED <<vendor, day, now, began, rows, stored, files>>
    BY <1>6 DEF StreamDone
  <2> QED
    BY <1>1, <1>3, <2>1, <2>2 DEF Shape, Stages
<1>7. ASSUME UNCHANGED <<vendor, day, now, began, stream, cursor, stored, files>>,
             pc' \in Stages, NEW S, S \subseteq Nat, IsFiniteSet(S),
             rows' = [rows EXCEPT ![stream] = InOrder(S)],
             S \subseteq ExistAt("bars", now), Cardinality(S) <= Compact,
             vendor = "alphavantage" \/ vendor = "rss",
             vendor = "rss" => \A t, u \in S : Guid(t) = Guid(u) => t = u
      PROVE  TypeInv'
  <2>1. Streams' = Streams /\ Slices' = Slices
    BY <1>2, <1>7
  <2>2. InOrder(S) \in Seq(Nat) /\ ToSet(InOrder(S)) = S /\ Len(InOrder(S)) = Cardinality(S)
    BY <1>7, InOrderRows
  <2>3. rows' \in [DOMAIN Streams -> Seq(Nat)]
    BY <1>1, <1>7, <2>2
  <2>4. Shape'
    BY <1>1, <1>7, <2>1, <2>3 DEF Shape
  <2>5. vendor = "alphavantage" => Streams[stream] = "bars"
    BY <1>1, StreamFacts DEF Streams
  <2>6. ASSUME NEW i \in DOMAIN Streams PROVE RowsOK(i)'
    <3>1. CASE i = stream
      <4>1. rows'[i] = InOrder(S)
        BY <1>1, <1>7, <3>1
      <4> QED
        BY <1>7, <2>1, <2>2, <2>5, <3>1, <4>1 DEF RowsOK
    <3>2. CASE i # stream
      BY <1>1, <1>7, <3>2, OtherRows
    <3> QED
      BY <3>1, <3>2
  <2> QED
    BY <2>1, <2>4, <2>6 DEF TypeInv
<1>8. CASE FetchBars
  <2> DEFINE B == ExistAt("bars", now)
             L == Latest(Compact, B)
             S == {t \in L : day = None \/ DayOf(t) = day}
  <2>1. B \subseteq Int /\ B \subseteq Nat /\ IsFiniteSet(B)
    BY <1>1, ExistFacts
  <2>2. L \subseteq B /\ IsFiniteSet(L) /\ Cardinality(L) <= Compact
    BY <2>1, LatestFacts, ParameterTypes
  <2>3. S \in SUBSET L
    OBVIOUS
  <2>4. IsFiniteSet(S) /\ Cardinality(S) <= Cardinality(L)
        /\ Cardinality(S) \in Nat /\ Cardinality(L) \in Nat
    BY <2>2, <2>3, FS_Subset, FS_CardinalityType
  <2>5. CompactAnswer = InOrder(S)
    BY DEF CompactAnswer
  <2>6. S \subseteq B /\ S \subseteq Nat
    BY <2>1, <2>2, <2>3
  <2> HIDE DEF S, L, B
  <2>7. Cardinality(S) <= Compact
    BY <2>2, <2>4, ParameterTypes
  <2>8. /\ UNCHANGED <<vendor, day, now, began, stream, cursor, stored, files>>
        /\ pc' = "parquet" /\ vendor = "alphavantage"
        /\ rows' = [rows EXCEPT ![stream] = InOrder(S)]
    BY <1>8, <2>5 DEF FetchBars
  <2> QED
    BY <1>7, <2>4, <2>6, <2>7, <2>8 DEF Stages, B
<1>9. CASE FetchFeed
  <2> DEFINE B == ExistAt("bars", now)
  <2>1. PICK entries \in Entries : rows' = [rows EXCEPT ![stream] = NewsOfDay(entries)]
    BY <1>9 DEF FetchFeed
  <2> DEFINE kept == {t \in entries : \A u \in entries : Guid(u) = Guid(t) => t <= u}
             S == {t \in kept : DayOf(t) = day}
  <2>2. entries \subseteq B /\ Cardinality(entries) <= Compact
    BY DEF Entries
  <2>3. B \subseteq Nat /\ IsFiniteSet(B)
    BY <1>1, ExistFacts
  <2>4. IsFiniteSet(entries) /\ S \in SUBSET entries /\ entries \subseteq Nat
    BY <2>2, <2>3, FS_Subset
  <2>5. IsFiniteSet(S) /\ Cardinality(S) <= Cardinality(entries)
        /\ Cardinality(S) \in Nat /\ Cardinality(entries) \in Nat
    BY <2>4, FS_Subset, FS_CardinalityType
  <2>6. ASSUME NEW t \in S, NEW u \in S, Guid(t) = Guid(u) PROVE t = u
    <3>1. t <= u /\ u <= t
      BY <2>6
    <3>2. t \in Int /\ u \in Int
      BY <2>4
    <3> QED
      BY <3>1, <3>2
  <2>7. NewsOfDay(entries) = InOrder(S)
    BY DEF NewsOfDay
  <2>8. S \subseteq B /\ S \subseteq Nat
    BY <2>2, <2>4
  <2> HIDE DEF S, kept, B
  <2>9. Cardinality(S) <= Compact
    BY <2>2, <2>5, ParameterTypes
  <2>10. /\ UNCHANGED <<vendor, day, now, began, stream, cursor, stored, files>>
         /\ pc' = "parquet" /\ vendor = "rss"
         /\ rows' = [rows EXCEPT ![stream] = InOrder(S)]
    BY <1>9, <2>1, <2>7 DEF FetchFeed
  <2> QED
    BY <1>7, <2>5, <2>6, <2>8, <2>9, <2>10 DEF Stages, B
<1>10. CASE FetchFails \/ Crash
  BY <1>1, <1>3, <1>10 DEF FetchFails, Crash, Shape, Stages
<1>11. ASSUME UNCHANGED <<vendor, day, now, began, cursor, rows>>,
              stream' \in DOMAIN Streams, pc' \in Stages,
              \/ files' = [files EXCEPT ![Slice].parquet = "new"]
              \/ files' = [files EXCEPT ![Slice].manifest = "new"]
       PROVE  TypeInv'
  <2>1. Streams' = Streams /\ Slices' = Slices
    BY <1>2, <1>11
  <2>2. files' \in [Slices -> [parquet : Ages, manifest : Ages]]
    <3>1. files \in [Slices -> [parquet : Ages, manifest : Ages]]
      BY <1>1 DEF Shape
    <3>2. "new" \in Ages
      BY DEF Ages
    <3> QED
      BY <1>11, <3>1, <3>2
  <2>3. Shape'
    BY <1>1, <1>11, <2>1, <2>2 DEF Shape
  <2>4. \A i \in DOMAIN Streams : RowsOK(i)'
    BY <1>11, OtherRows
  <2> QED
    BY <2>1, <2>3, <2>4 DEF TypeInv
<1>12. CASE WriteParquet
  BY <1>1, <1>11, <1>12 DEF WriteParquet, Stages
<1>13. CASE WriteManifest
  <2>1. stream' \in DOMAIN Streams
    <3>1. \/ stream' = stream
          \/ vendor = "rss" /\ stream < Feeds /\ stream' = stream + 1
      BY <1>13 DEF WriteManifest
    <3>2. /\ Len(Streams) \in Nat /\ DOMAIN Streams = 1 .. Len(Streams)
          /\ vendor = "rss" => Len(Streams) = Feeds
      BY <1>1, StreamFacts
    <3> QED
      BY <1>1, <3>1, <3>2
  <2>2. pc' \in Stages
    BY <1>13 DEF WriteManifest, Stages
  <2> QED
    BY <1>11, <1>13, <2>1, <2>2 DEF WriteManifest
<1>14. CASE Done \/ UNCHANGED vars
  BY <1>1, <1>3, <1>14 DEF Done, vars, Shape
<1> QED
  BY <1>4, <1>5, <1>6, <1>8, <1>9, <1>10, <1>12, <1>13, <1>14 DEF Next, Command

-----------------------------------------------------------------------------
(***************************************************************************)
(* The two files of a slice.  SliceIsWhole is not inductive: the slices    *)
(* before the one in work are stored and those behind it are not, and how  *)
(* far that one is goes with pc.                                           *)
(***************************************************************************)
FilesInv ==
  /\ \A i \in Slices :
       /\ i < Slice => files[i].parquet = "new" /\ files[i].manifest = "new"
       /\ i > Slice => files[i].parquet # "new" /\ files[i].manifest # "new"
  /\ pc \in {"fetch", "parquet", "failed"} =>
       files[Slice].parquet # "new" /\ files[Slice].manifest # "new"
  /\ pc = "manifest" => files[Slice].parquet = "new" /\ files[Slice].manifest # "new"
  /\ pc = "crashed" => files[Slice].manifest # "new"
  /\ pc = "done" => /\ files[Slice].parquet = "new" /\ files[Slice].manifest = "new"
                    /\ \A i \in Slices : i <= Slice

LEMMA FilesInvInit == Init => FilesInv
<1> SUFFICES ASSUME Init PROVE FilesInv
  OBVIOUS
<1>1. vendor \in Vendors /\ stream \in DOMAIN Streams /\ stream = 1 /\ pc = "fetch"
  BY TypeInvInit DEF TypeInv, Shape, Init
<1>2. Slice = 1 /\ Slice \in Slices /\ Slices \subseteq Int
  BY <1>1, SliceFacts DEF Slice
<1>3. \A i \in Slices : files[i].parquet # "new" /\ files[i].manifest # "new"
  <2>1. PICK a \in {"none", "old"} :
          files = [i \in Slices |-> [parquet |-> a, manifest |-> a]]
    BY DEF Init
  <2> QED
    BY <2>1
<1>4. \A i \in Slices : ~ (i < Slice)
  <2>1. \A i \in Slices : i \in 1 .. Feeds \/ i = 1
    BY <1>1, StreamFacts
  <2>2. Feeds \in Nat
    BY ParameterTypes
  <2> QED
    BY <1>2, <2>1, <2>2
<1> QED
  BY <1>1, <1>2, <1>3, <1>4 DEF FilesInv

LEMMA FilesInvNext == TypeInv /\ FilesInv /\ [Next]_vars => FilesInv'
<1> SUFFICES ASSUME TypeInv, FilesInv, [Next]_vars PROVE FilesInv'
  OBVIOUS
<1>1. /\ vendor \in Vendors /\ stream \in DOMAIN Streams /\ pc \in Stages
      /\ files \in [Slices -> [parquet : Ages, manifest : Ages]]
  BY DEF TypeInv, Shape
<1>2. Slice \in Slices /\ Slices \subseteq Int
  BY <1>1, SliceFacts
<1> DEFINE Quiet ==
             /\ vendor' = vendor /\ files' = files /\ Slice' = Slice
             /\ \/ pc' = pc
                \/ pc = "fetch" /\ pc' \in {"parquet", "failed"}
                \/ pc \in {"parquet", "manifest"} /\ pc' = "crashed"
<1>3. Quiet => FilesInv'
  <2> SUFFICES ASSUME Quiet PROVE FilesInv'
    OBVIOUS
  <2>1. Slices' = Slices
    BY DEF Slices
  <2> QED
    BY <2>1 DEF FilesInv
<1>4. CASE StreamDone
  <2>1. vendor' = vendor /\ vendor # "rss" /\ files' = files /\ pc = "fetch"
        /\ pc' \in {"fetch", "parquet"}
    BY <1>4 DEF StreamDone
  <2>2. Slice' = Slice
    BY <2>1 DEF Slice
  <2> QED
    BY <1>3, <2>1, <2>2
<1>5. CASE Pass \/ FetchPage \/ FetchBars \/ FetchFeed \/ FetchFails \/ Crash \/ Done
           \/ UNCHANGED vars
  <2>1. /\ vendor' = vendor /\ files' = files /\ stream' = stream
        /\ \/ pc' = pc
           \/ pc = "fetch" /\ pc' \in {"parquet", "failed"}
           \/ pc \in {"parquet", "manifest"} /\ pc' = "crashed"
    BY <1>5 DEF Pass, FetchPage, FetchBars, FetchFeed, FetchFails, Crash, Done, vars
  <2>2. Slice' = Slice
    BY <2>1 DEF Slice
  <2> QED
    BY <1>3, <2>1, <2>2
<1>6. CASE WriteParquet
  <2>1. /\ vendor' = vendor /\ stream' = stream /\ pc = "parquet" /\ pc' = "manifest"
        /\ files' = [files EXCEPT ![Slice].parquet = "new"]
    BY <1>6 DEF WriteParquet
  <2>2. Slice' = Slice /\ Slices' = Slices
    BY <2>1 DEF Slice, Slices
  <2>3. /\ files'[Slice].parquet = "new" /\ files'[Slice].manifest = files[Slice].manifest
        /\ \A i \in Slices : i # Slice => files'[i] = files[i]
    BY <1>1, <1>2, <2>1
  <2>4. \A i \in Slices : i < Slice \/ i > Slice => i # Slice
    BY <1>2
  <2> QED
    BY <2>1, <2>2, <2>3, <2>4 DEF FilesInv
<1>7. CASE WriteManifest
  <2>1. /\ vendor' = vendor /\ pc = "manifest" /\ pc' \in {"fetch", "done"}
        /\ files' = [files EXCEPT ![Slice].manifest = "new"]
    BY <1>7 DEF WriteManifest
  <2>2. Slices' = Slices
    BY <2>1 DEF Slices
  <2>3. /\ files'[Slice].parquet = "new" /\ files'[Slice].manifest = "new"
        /\ \A i \in Slices : i # Slice => files'[i] = files[i]
    BY <1>1, <1>2, <2>1 DEF FilesInv
  <2>4. \A i \in Slices : i < Slice \/ i > Slice => i # Slice
    BY <1>2
  <2>5. CASE vendor = "rss" /\ stream < Feeds
    <3>1. pc' = "fetch" /\ Slice' = Slice + 1 /\ Slice = stream
      BY <1>7, <2>1, <2>5 DEF WriteManifest, Slice
    <3>2. Slice + 1 \in Slices
      <4>1. Slices = 1 .. Feeds /\ Feeds \in Nat
        BY <1>1, <2>5, StreamFacts, ParameterTypes
      <4> QED
        BY <1>2, <2>5, <3>1, <4>1
    <3>3. \A i \in Slices : /\ i < Slice + 1 => i < Slice \/ i = Slice
                            /\ i > Slice + 1 => i > Slice /\ i # Slice
      BY <1>2
    <3>4. Slice + 1 > Slice /\ Slice + 1 # Slice
      BY <1>2
    <3>5. files'[Slice + 1].parquet # "new" /\ files'[Slice + 1].manifest # "new"
      BY <2>3, <3>2, <3>4 DEF FilesInv
    <3>6. ASSUME NEW i \in Slices
          PROVE  /\ i < Slice + 1 => files'[i].parquet = "new" /\ files'[i].manifest = "new"
                 /\ i > Slice + 1 => files'[i].parquet # "new" /\ files'[i].manifest # "new"
      BY <2>3, <2>4, <3>3 DEF FilesInv
    <3> QED
      BY <2>2, <3>1, <3>5, <3>6 DEF FilesInv
  <2>6. CASE ~ (vendor = "rss" /\ stream < Feeds)
    <3>1. pc' = "done" /\ stream' = stream
      BY <1>7, <2>6 DEF WriteManifest
    <3>2. Slice' = Slice
      BY <2>1, <3>1 DEF Slice
    <3>3. \A i \in Slices : i <= Slice
      <4>1. vendor = "rss" => Slice = Feeds
        <5>1. vendor = "rss" => stream \in 1 .. Feeds
          BY <1>1, StreamFacts
        <5>2. Feeds \in Nat
          BY ParameterTypes
        <5> QED
          BY <2>6, <5>1, <5>2 DEF Slice
      <4> QED
        BY <1>1, <4>1, SliceFacts
    <3> QED
      BY <2>2, <2>3, <2>4, <3>1, <3>2, <3>3 DEF FilesInv
  <2> QED
    BY <2>5, <2>6
<1> QED
  BY <1>4, <1>5, <1>6, <1>7 DEF Next, Command

LEMMA FilesInvImplies == TypeInv /\ FilesInv => SliceIsWhole
<1> SUFFICES ASSUME TypeInv, FilesInv PROVE SliceIsWhole
  OBVIOUS
<1>1. vendor \in Vendors /\ stream \in DOMAIN Streams /\ pc \in Stages
  BY DEF TypeInv, Shape
<1>2. Slice \in Slices /\ Slices \subseteq Int
  BY <1>1, SliceFacts
<1>3. ASSUME NEW i \in Slices
      PROVE  /\ files[i].manifest = "new" => files[i].parquet = "new"
             /\ files[i].parquet = "new" /\ files[i].manifest # "new" =>
                  i = Slice /\ pc \in {"manifest", "crashed"}
             /\ pc = "done" => files[i].manifest = "new"
  <2>1. i < Slice \/ i = Slice \/ i > Slice
    BY <1>2
  <2>2. i <= Slice => i < Slice \/ i = Slice
    BY <1>2
  <2> QED
    BY <1>1, <2>1, <2>2 DEF FilesInv, Stages
<1> QED
  BY <1>3 DEF SliceIsWhole

-----------------------------------------------------------------------------
(***************************************************************************)
(* Paginated downloads.  What has been received of a stream is the         *)
(* beginning of its range, up to the cursor of the stream in work; a       *)
(* stream that is finished has all the vendor had when the command began.  *)
(***************************************************************************)
Paged == vendor \in {"binance", "polygon"}

ReceivedUpTo(i, c) == rows[i] = InOrder(Below(Times(Streams[i]), c))

Complete(i) ==
  \E c \in Nat : /\ ReceivedUpTo(i, c)
                 /\ ExistAt(Streams[i], began) \subseteq Below(Times(Streams[i]), c)

PagesInv ==
  Paged =>
    /\ \A i \in DOMAIN Streams : i > stream => rows[i] = <<>>
    /\ ReceivedUpTo(stream, cursor)
    /\ \A i \in DOMAIN Streams :
         i < stream \/ pc \notin {"fetch", "failed"} => Complete(i)

LEMMA Multiples ==
  ASSUME NEW w \in Nat \ {0}, NEW a \in Nat, NEW b \in Nat,
         a % w = 0, b % w = 0, a < b + w
  PROVE  a <= b
<1> DEFINE q == a \div w
           r == b \div w
<1>1. q \in Int /\ r \in Int /\ a = w * q /\ b = w * r
  BY SMT
<1> HIDE DEF q, r
<1>2. CASE q <= r
  <2>1. w * q <= w * r
    BY <1>1, <1>2, SMT
  <2> QED
    BY <1>1, <2>1
<1>3. CASE r + 1 <= q
  <2>1. w * (r + 1) <= w * q
    BY <1>1, <1>3, SMT
  <2>2. w * (r + 1) = w * r + w
    BY <1>1, SMT
  <2> QED
    BY <1>1, <2>1, <2>2
<1> QED
  BY <1>1, <1>2, <1>3

\* Between a row and the cursor behind it there is no other row.
LEMMA CursorSkipsNothing ==
  ASSUME NEW s, NEW t \in Times(s), NEW last \in Times(s), t < CursorAfter(s, last)
  PROVE  t <= last
<1>1. t \in Nat /\ last \in Nat
  BY TimesFacts
<1>2. CASE s \in {"kline", "mark"}
  <2>1. t % Width = 0 /\ last % Width = 0 /\ t < last + Width
    BY <1>2 DEF Times, CursorAfter
  <2> QED
    BY <1>1, <2>1, Multiples, ParameterTypes
<1>3. CASE s \notin {"kline", "mark"}
  <2>1. t < last + 1
    BY <1>3 DEF CursorAfter
  <2> QED
    BY <1>1, <2>1
<1> QED
  BY <1>2, <1>3

\* A page goes on exactly where the rows received so far end.
LEMMA PageContinues ==
  ASSUME TypeInv, Paged, ReceivedUpTo(stream, cursor), Page # <<>>
  PROVE  LET s == Streams[stream]
             c == CursorAfter(s, Last(Page))
         IN  rows[stream] \o Page = InOrder(Below(Times(s), c)) /\ c \in Nat
<1> DEFINE s == Streams[stream]
           last == Last(Page)
           c == CursorAfter(s, last)
           A == Below(Times(s), cursor)
           P == Earliest(Limit, Asked)
<1>1. /\ vendor \in Vendors /\ stream \in DOMAIN Streams /\ now \in Nat /\ cursor \in Nat
  BY DEF TypeInv, Shape
<1>2. /\ Asked \subseteq ExistAt(s, now) /\ P \subseteq Asked /\ P \subseteq Nat
      /\ IsFiniteSet(P) /\ last \in P /\ (\A t \in P : t <= last)
      /\ \A t \in P, u \in Asked : u < t => u \in P
  BY <1>1, PageFacts
<1>3. Page = InOrder(P)
  BY DEF Page
<1>4. /\ ExistAt(s, now) \subseteq Times(s) /\ Times(s) \subseteq Nat
      /\ IsFiniteSet(Times(s))
  BY <1>1, ExistFacts, TimesFacts
<1>5. last \in Times(s) /\ last \in Nat /\ last >= cursor /\ (s = "trades" \/ last <= now)
  BY <1>2, <1>4 DEF Asked, ExistAt
<1>6. c \in Nat /\ last < c
  BY <1>5, CursorFacts
<1>7. \A t \in Times(s) : t < c => t <= last
  BY <1>5, CursorSkipsNothing
<1>8. \A t \in Times(s) : t >= cursor /\ (s = "trades" \/ t <= now) => t \in Asked
  BY DEF Asked, ExistAt
<1>9. \A t \in Asked : t >= cursor
  BY DEF Asked
<1>10. A \cup P = Below(Times(s), c)
  <2> HIDE DEF s, last, c, P
  <2>1. ASSUME NEW t \in A \cup P PROVE t \in Below(Times(s), c)
    <3>1. t \in Times(s) /\ t \in Nat /\ (t < cursor \/ t <= last)
      BY <1>2, <1>4, <2>1 DEF Below
    <3>2. t < c
      BY <1>1, <1>5, <1>6, <3>1
    <3> QED
      BY <3>1, <3>2 DEF Below
  <2>2. ASSUME NEW t \in Below(Times(s), c) PROVE t \in A \cup P
    <3>1. t \in Times(s) /\ t \in Nat /\ t <= last
      BY <1>4, <1>7, <2>2 DEF Below
    <3>2. CASE t < cursor
      BY <3>1, <3>2 DEF Below
    <3>3. CASE ~ (t < cursor)
      <4>1. t >= cursor /\ (s = "trades" \/ t <= now)
        BY <1>1, <1>5, <3>1, <3>3
      <4>2. t \in Asked
        BY <1>8, <3>1, <4>1
      <4>3. t = last \/ t < last
        BY <1>5, <3>1
      <4> QED
        BY <1>2, <4>2, <4>3
    <3> QED
      BY <3>2, <3>3
  <2> QED
    BY <2>1, <2>2
<1>11. A \subseteq Int /\ IsFiniteSet(A)
  <2>1. A \in SUBSET Times(s) /\ Times(s) \subseteq Int
    BY <1>4 DEF Below
  <2> QED
    BY <1>4, <2>1, FS_Subset
<1>12. \A a \in A, b \in P : a < b
  <2> SUFFICES ASSUME NEW a \in A, NEW b \in P PROVE a < b
    OBVIOUS
  <2>1. a < cursor /\ b >= cursor
    BY <1>2, <1>9 DEF Below
  <2>2. a \in Int /\ b \in Int
    BY <1>2, <1>11
  <2> QED
    BY <1>1, <2>1, <2>2
<1>13. InOrder(A \cup P) = InOrder(A) \o InOrder(P)
  <2>1. P \subseteq Int
    BY <1>2
  <2> HIDE DEF A, P
  <2> QED
    BY <1>2, <1>11, <1>12, <2>1, InOrderSplit
<1>14. rows[stream] = InOrder(A)
  BY DEF ReceivedUpTo
<1> QED
  BY <1>3, <1>6, <1>10, <1>13, <1>14

\* When the cursor has passed the range, or the vendor has nothing more, nothing
\* of what there was at the beginning is behind the cursor.
LEMMA NothingLeft ==
  ASSUME TypeInv, Paged, ~ More \/ Page = <<>>
  PROVE  ExistAt(Streams[stream], began) \subseteq Below(Times(Streams[stream]), cursor)
<1> DEFINE s == Streams[stream]
<1>1. /\ vendor \in Vendors /\ stream \in DOMAIN Streams /\ now \in Nat /\ cursor \in Nat
      /\ began \in Nat /\ began <= now
  BY DEF TypeInv, Shape
<1> SUFFICES ASSUME NEW t \in ExistAt(s, began) PROVE t < cursor /\ t \in Times(s)
  BY DEF Below
<1>2. t \in Times(s) /\ t \in Nat /\ Times(s) \subseteq Nat
  BY <1>1, ExistFacts, TimesFacts
<1>3. CASE Page = <<>>
  <2>1. Asked = {}
    BY <1>1, <1>3, PageFacts
  <2>2. t \in ExistAt(s, now)
    <3>1. s = "trades" \/ t <= began
      BY DEF ExistAt
    <3>2. s = "trades" \/ t <= now
      BY <1>1, <1>2, <3>1
    <3> QED
      BY <1>2, <3>2 DEF ExistAt
  <2>3. ~ (t >= cursor)
    BY <2>1, <2>2 DEF Asked
  <2> QED
    BY <1>1, <1>2, <2>3
<1>4. CASE ~ More /\ vendor = "polygon"
  <2>1. s = "trades"
    <3>1. Streams = <<"trades">>
      BY <1>4 DEF Streams
    <3> QED
      BY <1>1, <3>1
  <2>2. t <= 2 * Limit /\ cursor \notin 0 .. 2 * Limit
    BY <1>2, <1>4, <2>1, TimesFacts DEF More, Times
  <2>3. 2 * Limit \in Nat
    BY ParameterTypes
  <2> QED
    BY <1>1, <1>2, <2>2, <2>3
<1>5. CASE ~ More /\ vendor = "binance"
  <2>1. s # "trades"
    <3>1. Streams = <<"kline", "mark", "funding">>
      BY <1>5 DEF Streams
    <3>2. stream \in 1 .. 3
      BY <1>1, <3>1
    <3> QED
      BY <3>1, <3>2
  <2>2. t <= End /\ ~ (cursor <= End)
    BY <1>2, <1>5, <2>1, TimesFacts DEF More
  <2> QED
    BY <1>1, <1>2, <2>2, ParameterTypes
<1> QED
  BY <1>3, <1>4, <1>5 DEF Paged

LEMMA PagesInvInit == Init => PagesInv
<1> SUFFICES ASSUME Init PROVE PagesInv
  OBVIOUS
<1>1. /\ vendor \in Vendors /\ stream \in DOMAIN Streams /\ stream = 1 /\ cursor = 0
      /\ pc = "fetch" /\ rows = [i \in DOMAIN Streams |-> <<>>]
      /\ DOMAIN Streams = 1 .. Len(Streams)
  BY TypeInvInit, StreamFacts DEF TypeInv, Shape, Init
<1>2. Below(Times(Streams[stream]), 0) = {}
  BY TimesFacts DEF Below
<1>3. ReceivedUpTo(stream, cursor)
  BY <1>1, <1>2, InOrderEmpty DEF ReceivedUpTo
<1>4. \A i \in DOMAIN Streams : ~ (i < stream) /\ rows[i] = <<>>
  BY <1>1
<1> QED
  BY <1>1, <1>3, <1>4 DEF PagesInv

LEMMA PagesInvNext == TypeInv /\ PagesInv /\ [Next]_vars => PagesInv'
<1> SUFFICES ASSUME TypeInv, PagesInv, [Next]_vars, Paged' PROVE PagesInv'
  BY DEF PagesInv
<1>1. vendor' = vendor /\ began' = began
  BY DEF Next, Command, Pass, FetchPage, StreamDone, FetchBars, FetchFeed, FetchFails,
         WriteParquet, WriteManifest, Crash, Done, vars
<1>2. Streams' = Streams /\ Paged
  BY <1>1 DEF Streams, Paged
<1>3. /\ vendor \in Vendors /\ stream \in DOMAIN Streams /\ now \in Nat /\ cursor \in Nat
      /\ rows \in [DOMAIN Streams -> Seq(Nat)] /\ DOMAIN Streams \subseteq Int
  BY StreamFacts DEF TypeInv, Shape
<1>4. /\ \A i \in DOMAIN Streams : i > stream => rows[i] = <<>>
      /\ ReceivedUpTo(stream, cursor)
      /\ \A i \in DOMAIN Streams :
           i < stream \/ pc \notin {"fetch", "failed"} => Complete(i)
  BY <1>2 DEF PagesInv
<1>5. ASSUME NEW i \in DOMAIN Streams, rows'[i] = rows[i], Complete(i)
      PROVE  Complete(i)'
  BY <1>1, <1>2, <1>5 DEF Complete, ReceivedUpTo
<1>6. ASSUME rows' = rows, stream' = stream, cursor' = cursor,
             pc' \notin {"fetch", "failed"} => pc \notin {"fetch", "failed"}
      PROVE  PagesInv'
  BY <1>2, <1>4, <1>5, <1>6 DEF PagesInv, ReceivedUpTo
<1>7. CASE Pass \/ FetchFails \/ WriteParquet \/ Crash \/ Done \/ UNCHANGED vars
  BY <1>6, <1>7 DEF Pass, FetchFails, WriteParquet, Crash, Done, vars
<1>8. CASE WriteManifest
  BY <1>2, <1>6, <1>8 DEF WriteManifest, Paged
<1>9. CASE FetchBars \/ FetchFeed
  BY <1>2, <1>9 DEF FetchBars, FetchFeed, Paged
<1>10. CASE FetchPage
  <2>1. /\ Page # <<>> /\ rows' = [rows EXCEPT ![stream] = rows[stream] \o Page]
        /\ cursor' = CursorAfter(Streams[stream], Last(Page))
        /\ pc = "fetch" /\ UNCHANGED <<stream, pc>>
    <3>1. /\ vendor \in Vendors /\ stream \in DOMAIN Streams /\ now \in Nat
          /\ cursor \in Nat
      BY DEF TypeInv, Shape
    <3> QED
      BY <1>10, <3>1, CursorMoves DEF FetchPage
  <2>2. rows'[stream] = InOrder(Below(Times(Streams[stream]), cursor'))
    BY <1>2, <1>3, <1>4, <2>1, PageContinues
  <2>3. ReceivedUpTo(stream, cursor)'
    BY <1>2, <2>1, <2>2 DEF ReceivedUpTo
  <2>4. \A i \in DOMAIN Streams : i # stream => rows'[i] = rows[i]
    BY <1>3, <2>1
  <2>5. \A i \in DOMAIN Streams : i > stream \/ i < stream => i # stream
    BY <1>3
  <2>6. ASSUME NEW i \in DOMAIN Streams, i < stream PROVE Complete(i)'
    BY <1>4, <1>5, <2>4, <2>5, <2>6
  <2> QED
    BY <1>2, <1>4, <2>1, <2>3, <2>4, <2>5, <2>6 DEF PagesInv
<1>11. CASE StreamDone
  <2>1. /\ pc = "fetch" /\ rows' = rows /\ (~ More \/ Page = <<>>)
    BY <1>11 DEF StreamDone
  <2>2. Complete(stream)
    BY <1>2, <1>3, <1>4, <2>1, NothingLeft DEF Complete
  <2>3. ASSUME NEW i \in DOMAIN Streams, i <= stream PROVE Complete(i)'
    <3>1. i = stream \/ i < stream
      BY <1>3, <2>3
    <3> QED
      BY <1>4, <1>5, <2>1, <2>2, <3>1
  <2>4. CASE stream = Len(Streams)
    <3>1. pc' = "parquet" /\ stream' = stream /\ cursor' = cursor
      BY <1>11, <2>4 DEF StreamDone
    <3>2. \A i \in DOMAIN Streams : i <= stream
      BY <1>3, <2>4, StreamFacts
    <3>3. \A i \in DOMAIN Streams : Complete(i)'
      BY <2>3, <3>2
    <3>4. ReceivedUpTo(stream, cursor)'
      BY <1>2, <1>4, <2>1, <3>1 DEF ReceivedUpTo
    <3> QED
      BY <1>2, <1>4, <2>1, <3>1, <3>3, <3>4 DEF PagesInv
  <2>5. CASE stream # Len(Streams)
    <3>1. pc' = pc /\ stream' = stream + 1 /\ cursor' = 0
      BY <1>11, <2>5 DEF StreamDone
    <3>2. stream + 1 \in DOMAIN Streams /\ stream + 1 > stream
      BY <1>3, <2>5, StreamFacts
    <3>3. \A i \in DOMAIN Streams : /\ i > stream + 1 => i > stream
                                    /\ i < stream + 1 => i <= stream
      BY <1>3
    <3>4. ReceivedUpTo(stream, cursor)'
      <4>1. Below(Times(Streams[stream + 1]), 0) = {}
        BY TimesFacts DEF Below
      <4> QED
        BY <1>2, <1>4, <2>1, <3>1, <3>2, <4>1, InOrderEmpty DEF ReceivedUpTo
    <3>5. \A i \in DOMAIN Streams : i < stream + 1 => Complete(i)'
      BY <2>3, <3>3
    <3> QED
      BY <1>2, <1>4, <2>1, <3>1, <3>3, <3>4, <3>5 DEF PagesInv
  <2> QED
    BY <2>4, <2>5
<1> QED
  BY <1>7, <1>8, <1>9, <1>10, <1>11 DEF Next, Command

-----------------------------------------------------------------------------
(***************************************************************************)
(* A paginated download is the abstract one.                               *)
(***************************************************************************)
Streamed == {"kline", "mark", "funding", "trades"}

Index(s) == CHOOSE i \in DOMAIN Streams : Streams[i] = s

\* The state of the abstract download of a stream that the command has.
LEMMA PresentFacts ==
  ASSUME vendor \in Vendors, NEW s \in Streamed, s \in ToSet(Streams)
  PROVE  /\ Paged /\ Index(s) \in DOMAIN Streams /\ Streams[Index(s)] = s
         /\ RowsOf(s) = rows[Index(s)] /\ DueOf(s) = Cardinality(ExistAt(s, began))
<1>1. PICK i \in DOMAIN Streams : Streams[i] = s
  BY DEF ToSet
<1>2. Index(s) \in DOMAIN Streams /\ Streams[Index(s)] = s
  BY <1>1 DEF Index
<1>3. vendor # "alphavantage"
  <2>1. vendor = "alphavantage" => Streams = <<"bars">>
    BY DEF Streams
  <2>2. vendor = "alphavantage" => s = "bars"
    BY <1>1, <2>1
  <2> QED
    BY <2>2 DEF Streamed
<1>4. vendor # "rss"
  <2>1. vendor = "rss" => Streams = [j \in 1 .. Feeds |-> "feed"]
    BY DEF Streams
  <2>2. vendor = "rss" => s = "feed"
    BY <1>1, <2>1
  <2> QED
    BY <2>2 DEF Streamed
<1>5. Paged
  BY <1>3, <1>4 DEF Paged, Vendors
<1>6. RowsOf(s) = rows[Index(s)]
  BY <1>1 DEF RowsOf, Index
<1> QED
  BY <1>2, <1>5, <1>6 DEF DueOf

\* A stream that the command does not have is the empty range.
LEMMA AbsentFacts ==
  ASSUME NEW s, s \notin ToSet(Streams)
  PROVE  RowsOf(s) = <<>> /\ DueOf(s) = 0
  BY DEF RowsOf, DueOf, ToSet

LEMMA ExistCount ==
  ASSUME NEW s, NEW c \in Int
  PROVE  /\ Cardinality(ExistAt(s, c)) \in 0 .. Len(InOrder(Times(s)))
         /\ Len(InOrder(Times(s))) \in Nat
<1>1. Times(s) \subseteq Int /\ IsFiniteSet(Times(s))
  BY TimesFacts
<1>2. Len(InOrder(Times(s))) = Cardinality(Times(s)) /\ Cardinality(Times(s)) \in Nat
  BY <1>1, InOrderPlaces
<1>3. /\ ExistAt(s, c) \in SUBSET Times(s) /\ IsFiniteSet(ExistAt(s, c))
  BY ExistFacts
<1>4. Cardinality(ExistAt(s, c)) <= Cardinality(Times(s))
  BY <1>1, <1>3, FS_Subset
<1>5. Cardinality(ExistAt(s, c)) \in Nat
  BY <1>3, FS_CardinalityType
<1> QED
  BY <1>2, <1>4, <1>5

LEMMA RangeInit ==
  ASSUME Init, NEW s \in Streamed
  PROVE  /\ RowsOf(s) = <<>> /\ DueOf(s) \in 0 .. Len(InOrder(Times(s)))
         /\ ResultOf(s) = "fetching"
<1>1. /\ vendor \in Vendors /\ stream = 1 /\ pc = "fetch"
      /\ rows = [i \in DOMAIN Streams |-> <<>>] /\ began \in Nat
  BY TypeInvInit DEF Init, TypeInv, Shape
<1>2. ResultOf(s) = "fetching"
  <2>1. CASE s \in ToSet(Streams)
    BY <1>1, <2>1 DEF ResultOf
  <2>2. CASE s \notin ToSet(Streams)
    BY <1>1, <2>2 DEF ResultOf
  <2> QED
    BY <2>1, <2>2
<1>3. CASE s \in ToSet(Streams)
  BY <1>1, <1>2, <1>3, PresentFacts, ExistCount
<1>4. CASE s \notin ToSet(Streams)
  <2>1. 0 \in 0 .. Len(InOrder(Times(s)))
    BY <1>1, ExistCount
  <2> QED
    BY <1>2, <1>4, <2>1, AbsentFacts
<1> QED
  BY <1>3, <1>4

\* What a page adds: the rows up to a later place of the range.
LEMMA PageReceives ==
  ASSUME TypeInv, PagesInv, FetchPage
  PROVE  LET s == Streams[stream]
         IN  \E k \in Len(rows[stream]) + 1 .. Len(InOrder(Times(s))) :
               rows'[stream] = SubSeq(InOrder(Times(s)), 1, k)
<1> DEFINE s == Streams[stream]
           c == CursorAfter(s, Last(Page))
           k == Cardinality(Below(Times(s), c))
           W == InOrder(Times(s))
<1>1. /\ vendor \in Vendors /\ stream \in DOMAIN Streams /\ now \in Nat
      /\ rows \in [DOMAIN Streams -> Seq(Nat)]
  BY DEF TypeInv, Shape
<1>2. Paged /\ Page # <<>> /\ rows' = [rows EXCEPT ![stream] = rows[stream] \o Page]
  BY DEF FetchPage, Paged
<1>3. ReceivedUpTo(stream, cursor)
  BY <1>2 DEF PagesInv
<1>4. rows'[stream] = rows[stream] \o Page
  BY <1>1, <1>2
<1>5. rows'[stream] = InOrder(Below(Times(s), c)) /\ c \in Nat
  BY <1>2, <1>3, <1>4, PageContinues
<1>6. Times(s) \subseteq Int /\ IsFiniteSet(Times(s))
  BY TimesFacts
<1>7. /\ IsFiniteSet(Below(Times(s), c)) /\ k \in 0 .. Cardinality(Times(s))
      /\ InOrder(Below(Times(s), c)) = SubSeq(W, 1, k)
  <2>1. c \in Int
    BY <1>5
  <2> HIDE DEF c
  <2> QED
    BY <1>6, <2>1, InOrderPrefix
<1>8. Len(W) = Cardinality(Times(s)) /\ Cardinality(Times(s)) \in Nat
  BY <1>6, InOrderPlaces
<1>9. Len(rows'[stream]) = k
  <2>1. Below(Times(s), c) \subseteq Int
    BY <1>6 DEF Below
  <2> QED
    BY <1>5, <1>7, <2>1, InOrderPlaces
<1>10. Len(rows[stream]) \in Nat /\ Len(rows[stream]) + 1 <= Len(rows'[stream])
  <2>1. rows[stream] \in Seq(Nat) /\ Page \in Seq(Nat)
    BY <1>1, PageFacts
  <2>2. Len(rows'[stream]) = Len(rows[stream]) + Len(Page)
    BY <1>4, <2>1, ConcatProperties
  <2>3. Len(Page) \in Nat /\ Len(Page) # 0 /\ Len(rows[stream]) \in Nat
    BY <1>2, <2>1, EmptySeq, LenProperties
  <2> QED
    BY <2>2, <2>3
<1> HIDE DEF k, W
<1>11. k \in Len(rows[stream]) + 1 .. Len(W)
  BY <1>7, <1>8, <1>9, <1>10
<1> QED
  BY <1>5, <1>7, <1>11 DEF W

\* A finished stream has at least what was due.
LEMMA CompleteIsEnough ==
  ASSUME NEW s, NEW r, NEW b \in Int, NEW c \in Nat,
         r = InOrder(Below(Times(s), c)), ExistAt(s, b) \subseteq Below(Times(s), c)
  PROVE  Cardinality(ExistAt(s, b)) <= Len(r)
<1>1. Times(s) \subseteq Int /\ IsFiniteSet(Times(s)) /\ c \in Int
  BY TimesFacts
<1>2. IsFiniteSet(Below(Times(s), c)) /\ Below(Times(s), c) \subseteq Int
  BY <1>1, InOrderPrefix DEF Below
<1>3. Len(r) = Cardinality(Below(Times(s), c))
  BY <1>2, InOrderPlaces
<1>4. Cardinality(ExistAt(s, b)) <= Cardinality(Below(Times(s), c))
  <2>1. ExistAt(s, b) \in SUBSET Below(Times(s), c)
    OBVIOUS
  <2> QED
    BY <1>2, <2>1, FS_Subset
<1> QED
  BY <1>3, <1>4

\* What a step of the command is to the download of one stream.
Receives(s) ==
  /\ ResultOf(s) = "fetching"
  /\ \E k \in Len(RowsOf(s)) + 1 .. Len(InOrder(Times(s))) :
       RowsOf(s)' = SubSeq(InOrder(Times(s)), 1, k)
  /\ DueOf(s)' = DueOf(s) /\ ResultOf(s)' = ResultOf(s)

Finishes(s) ==
  /\ ResultOf(s) = "fetching"
  /\ ResultOf(s)' = "failed" \/ (ResultOf(s)' = "kept" /\ DueOf(s) <= Len(RowsOf(s)))
  /\ RowsOf(s)' = RowsOf(s) /\ DueOf(s)' = DueOf(s)

Stutters(s) ==
  RowsOf(s)' = RowsOf(s) /\ DueOf(s)' = DueOf(s) /\ ResultOf(s)' = ResultOf(s)

\* How far a command is, to the streams it has and to those it has not.
LEMMA ResultFacts ==
  ASSUME NEW s
  PROVE  /\ s \in ToSet(Streams) =>
              /\ pc = "fetch" => ResultOf(s) = "fetching"
              /\ pc = "failed" => ResultOf(s) = "failed"
              /\ pc \notin {"fetch", "failed"} => ResultOf(s) = "kept"
         /\ s \notin ToSet(Streams) =>
              /\ pc = "fetch" /\ stream = 1 => ResultOf(s) = "fetching"
              /\ ~ (pc = "fetch" /\ stream = 1) => ResultOf(s) = "kept"
<1>1. CASE s \notin ToSet(Streams)
  BY <1>1 DEF ResultOf
<1>2. CASE s \in ToSet(Streams) /\ pc = "fetch"
  BY <1>2 DEF ResultOf
<1>3. CASE s \in ToSet(Streams) /\ pc = "failed"
  <2>1. pc # "fetch"
    BY <1>3
  <2> QED
    BY <1>3, <2>1 DEF ResultOf
<1>4. CASE s \in ToSet(Streams) /\ pc \notin {"fetch", "failed"}
  <2>1. pc # "fetch" /\ pc # "failed"
    BY <1>4
  <2> QED
    BY <1>4, <2>1 DEF ResultOf
<1> QED
  BY <1>1, <1>2, <1>3, <1>4

LEMMA ResultFactsNext ==
  ASSUME NEW s
  PROVE  /\ s \in ToSet(Streams)' =>
              /\ pc' = "fetch" => ResultOf(s)' = "fetching"
              /\ pc' = "failed" => ResultOf(s)' = "failed"
              /\ pc' \notin {"fetch", "failed"} => ResultOf(s)' = "kept"
         /\ s \notin ToSet(Streams)' =>
              /\ pc' = "fetch" /\ stream' = 1 => ResultOf(s)' = "fetching"
              /\ ~ (pc' = "fetch" /\ stream' = 1) => ResultOf(s)' = "kept"
<1>1. CASE s \notin ToSet(Streams)'
  BY <1>1 DEF ResultOf
<1>2. CASE s \in ToSet(Streams)' /\ pc' = "fetch"
  BY <1>2 DEF ResultOf
<1>3. CASE s \in ToSet(Streams)' /\ pc' = "failed"
  <2>1. pc' # "fetch"
    BY <1>3
  <2> QED
    BY <1>3, <2>1 DEF ResultOf
<1>4. CASE s \in ToSet(Streams)' /\ pc' \notin {"fetch", "failed"}
  <2>1. pc' # "fetch" /\ pc' # "failed"
    BY <1>4
  <2> QED
    BY <1>4, <2>1 DEF ResultOf
<1> QED
  BY <1>1, <1>2, <1>3, <1>4

\* The stages of a command: what follows what.
LEMMA StageFacts ==
  ASSUME TypeInv, [Next]_vars
  PROVE  /\ vendor' = vendor /\ began' = began /\ Streams' = Streams
         /\ pc \notin {"fetch", "manifest"} => pc' # "fetch"
         /\ pc = "manifest" /\ pc' = "fetch" => stream' = stream + 1 /\ vendor = "rss"
         /\ pc = "fetch" /\ pc' = "fetch" => stream' \in {stream, stream + 1}
         /\ pc \notin {"fetch", "failed"} => pc' # "failed"
         /\ pc = "failed" => pc' = "failed"
         /\ pc # "fetch" => rows' = rows
         /\ ~ FetchPage /\ Paged => rows' = rows
         /\ stream \in Nat \ {0}
<1>0. stream \in Nat \ {0}
  <2>1. vendor \in Vendors /\ stream \in DOMAIN Streams
    BY DEF TypeInv, Shape
  <2>2. stream \in 1 .. Len(Streams) /\ Len(Streams) \in Nat
    BY <2>1, StreamFacts
  <2> QED
    BY <2>2
<1>1. CASE Pass \/ FetchPage \/ FetchFails \/ WriteParquet \/ Crash \/ Done \/ UNCHANGED vars
  <2>1. /\ vendor' = vendor /\ began' = began /\ stream' = stream
        /\ pc # "fetch" => rows' = rows
        /\ ~ FetchPage => rows' = rows
    BY <1>1 DEF Pass, FetchPage, FetchFails, WriteParquet, Crash, Done, vars
  <2>2. \/ pc' = pc
        \/ pc = "fetch" /\ pc' = "failed"
        \/ pc = "parquet" /\ pc' = "manifest"
        \/ pc \in {"parquet", "manifest"} /\ pc' = "crashed"
    BY <1>1 DEF Pass, FetchPage, FetchFails, WriteParquet, Crash, Done, vars
  <2>3. Streams' = Streams
    BY <2>1 DEF Streams
  <2> QED
    BY <1>0, <2>1, <2>2, <2>3
<1>2. CASE StreamDone \/ FetchBars \/ FetchFeed \/ WriteManifest
  <2>1. vendor' = vendor /\ began' = began
    BY <1>2 DEF StreamDone, FetchBars, FetchFeed, WriteManifest
  <2>2. Streams' = Streams
    BY <2>1 DEF Streams
  <2>3. CASE StreamDone
    BY <1>0, <2>1, <2>2, <2>3 DEF StreamDone
  <2>4. CASE FetchBars \/ FetchFeed
    BY <1>0, <2>1, <2>2, <2>4 DEF FetchBars, FetchFeed, Paged
  <2>5. CASE WriteManifest
    BY <1>0, <2>1, <2>2, <2>5 DEF WriteManifest
  <2> QED
    BY <1>2, <2>3, <2>4, <2>5
<1> QED
  BY <1>1, <1>2 DEF Next, Command

LEMMA RangeStepAbsent ==
  ASSUME TypeInv, [Next]_vars, NEW s, s \notin ToSet(Streams)
  PROVE  Finishes(s) \/ Stutters(s)
<1>1. Streams' = Streams /\ stream \in Nat \ {0}
  BY StageFacts
<1>2. s \notin ToSet(Streams)'
  BY <1>1 DEF ToSet
<1>3. RowsOf(s) = <<>> /\ DueOf(s) = 0
  BY AbsentFacts
<1>4. RowsOf(s)' = <<>> /\ DueOf(s)' = 0
  BY <1>2 DEF RowsOf, DueOf, ToSet
<1>5. 0 <= Len(<<>>)
  BY EmptySeq
<1>6. CASE pc = "fetch" /\ stream = 1
  <2>1. ResultOf(s) = "fetching" /\ ResultOf(s)' \in {"fetching", "kept"}
    BY <1>2, <1>6, ResultFacts, ResultFactsNext
  <2> QED
    BY <1>3, <1>4, <1>5, <2>1 DEF Finishes, Stutters
<1>7. CASE ~ (pc = "fetch" /\ stream = 1)
  <2>1. ~ (pc' = "fetch" /\ stream' = 1)
    <3>1. stream + 1 # 1
      BY <1>1
    <3>2. pc' = "fetch" => pc \in {"fetch", "manifest"}
      BY StageFacts
    <3>3. pc = "manifest" /\ pc' = "fetch" => stream' # 1
      BY <3>1, StageFacts
    <3>4. pc = "fetch" /\ pc' = "fetch" => stream' # 1
      BY <1>7, <3>1, StageFacts
    <3> QED
      BY <3>2, <3>3, <3>4
  <2>2. ResultOf(s) = "kept" /\ ResultOf(s)' = "kept"
    BY <1>2, <1>7, <2>1, ResultFacts, ResultFactsNext
  <2> QED
    BY <1>3, <1>4, <2>2 DEF Stutters
<1> QED
  BY <1>6, <1>7

LEMMA RangeStepPresent ==
  ASSUME TypeInv, PagesInv, [Next]_vars, NEW s \in Streamed, s \in ToSet(Streams)
  PROVE  Receives(s) \/ Finishes(s) \/ Stutters(s)
<1>1. /\ Streams' = Streams /\ vendor' = vendor /\ began' = began
      /\ vendor \in Vendors /\ stream \in DOMAIN Streams /\ began \in Nat
      /\ rows \in [DOMAIN Streams -> Seq(Nat)] /\ pc \in Stages
  BY StageFacts DEF TypeInv, Shape
<1>2. PICK i \in DOMAIN Streams :
        /\ i = Index(s) /\ Paged /\ Streams[i] = s
        /\ RowsOf(s) = rows[i] /\ DueOf(s) = Cardinality(ExistAt(s, began))
  BY <1>1, PresentFacts
<1>3. s \in ToSet(Streams)'
  BY <1>1 DEF ToSet
<1>4. RowsOf(s)' = rows'[i]
  <2>1. \E j \in DOMAIN Streams : Streams[j] = s
    BY DEF ToSet
  <2> QED
    BY <1>1, <1>2, <2>1 DEF RowsOf, Index
<1>5. DueOf(s)' = DueOf(s)
  <2>1. DueOf(s)' = Cardinality(ExistAt(s, began))
    BY <1>1, <1>3 DEF DueOf
  <2> QED
    BY <1>2, <2>1
<1>6. CASE pc # "fetch"
  <2>1. rows' = rows /\ pc' # "fetch"
    BY <1>2, <1>6, StageFacts DEF Paged
  <2>2. pc = "failed" <=> pc' = "failed"
    BY <1>6, StageFacts
  <2>3. ResultOf(s)' = ResultOf(s)
    BY <1>3, <1>6, <2>1, <2>2, ResultFacts, ResultFactsNext
  <2> QED
    BY <1>2, <1>4, <1>5, <2>1, <2>3 DEF Stutters
<1>7. CASE pc = "fetch" /\ FetchPage
  <2>1. pc' = "fetch"
    BY <1>7 DEF FetchPage
  <2>2. ResultOf(s) = "fetching" /\ ResultOf(s)' = "fetching"
    BY <1>3, <1>7, <2>1, ResultFacts, ResultFactsNext
  <2>3. CASE i = stream
    <3>1. \E k \in Len(rows[stream]) + 1 .. Len(InOrder(Times(s))) :
            rows'[stream] = SubSeq(InOrder(Times(s)), 1, k)
      BY <1>2, <1>7, <2>3, PageReceives
    <3> QED
      BY <1>2, <1>4, <1>5, <2>2, <2>3, <3>1 DEF Receives
  <2>4. CASE i # stream
    <3>1. rows'[i] = rows[i]
      BY <1>1, <1>2, <1>7, <2>4 DEF FetchPage
    <3> QED
      BY <1>2, <1>4, <1>5, <2>2, <3>1 DEF Stutters
  <2> QED
    BY <2>3, <2>4
<1>8. CASE pc = "fetch" /\ ~ FetchPage
  <2>1. rows' = rows
    BY <1>2, <1>8, StageFacts
  <2>2. ResultOf(s) = "fetching"
    BY <1>8, ResultFacts
  <2>3. CASE pc' = "fetch"
    BY <1>2, <1>3, <1>4, <1>5, <2>1, <2>2, <2>3, ResultFactsNext DEF Stutters
  <2>4. CASE pc' = "failed"
    BY <1>2, <1>3, <1>4, <1>5, <2>1, <2>2, <2>4, ResultFactsNext DEF Finishes
  <2>5. CASE pc' \notin {"fetch", "failed"}
    <3>1. ResultOf(s)' = "kept"
      BY <1>3, <2>5, ResultFactsNext
    <3>2. Complete(i)'
      <4>1. PagesInv'
        BY PagesInvNext
      <4>2. Paged'
        BY <1>1, <1>2 DEF Paged
      <4> QED
        BY <1>1, <1>2, <2>5, <4>1, <4>2 DEF PagesInv
    <3>3. PICK c \in Nat : /\ rows[i] = InOrder(Below(Times(s), c))
                           /\ ExistAt(s, began) \subseteq Below(Times(s), c)
      BY <1>1, <1>2, <2>1, <3>2 DEF Complete, ReceivedUpTo
    <3>4. Cardinality(ExistAt(s, began)) <= Len(rows[i])
      <4>1. began \in Int
        BY <1>1
      <4> QED
        BY <3>3, <4>1, CompleteIsEnough
    <3> QED
      BY <1>2, <1>4, <1>5, <2>1, <2>2, <3>1, <3>4 DEF Finishes
  <2> QED
    BY <2>3, <2>4, <2>5
<1> QED
  BY <1>6, <1>7, <1>8

LEMMA RangeStep ==
  ASSUME TypeInv, PagesInv, [Next]_vars, NEW s \in Streamed
  PROVE  Receives(s) \/ Finishes(s) \/ Stutters(s)
  BY RangeStepAbsent, RangeStepPresent

LEMMA KlinesRefine ==
  /\ Init => Klines!Init
  /\ TypeInv /\ PagesInv /\ [Next]_vars => [Klines!Receive \/ Klines!Finish]_Klines!fetch
<1>1. "kline" \in Streamed
  BY DEF Streamed
<1>2. Init => Klines!Init
  BY <1>1, RangeInit DEF Klines!Init
<1>3. ASSUME TypeInv, PagesInv, [Next]_vars
      PROVE  [Klines!Receive \/ Klines!Finish]_Klines!fetch
  <2>1. Receives("kline") \/ Finishes("kline") \/ Stutters("kline")
    BY <1>1, <1>3, RangeStep
  <2>2. Receives("kline") => Klines!Receive
    BY DEF Receives, Klines!Receive
  <2>3. Finishes("kline") => Klines!Finish
    BY DEF Finishes, Klines!Finish
  <2>4. Stutters("kline") => UNCHANGED Klines!fetch
    BY DEF Stutters, Klines!fetch
  <2> QED
    BY <2>1, <2>2, <2>3, <2>4
<1> QED
  BY <1>2, <1>3

LEMMA MarksRefine ==
  /\ Init => Marks!Init
  /\ TypeInv /\ PagesInv /\ [Next]_vars => [Marks!Receive \/ Marks!Finish]_Marks!fetch
<1>1. "mark" \in Streamed
  BY DEF Streamed
<1>2. Init => Marks!Init
  BY <1>1, RangeInit DEF Marks!Init
<1>3. ASSUME TypeInv, PagesInv, [Next]_vars
      PROVE  [Marks!Receive \/ Marks!Finish]_Marks!fetch
  <2>1. Receives("mark") \/ Finishes("mark") \/ Stutters("mark")
    BY <1>1, <1>3, RangeStep
  <2>2. Receives("mark") => Marks!Receive
    BY DEF Receives, Marks!Receive
  <2>3. Finishes("mark") => Marks!Finish
    BY DEF Finishes, Marks!Finish
  <2>4. Stutters("mark") => UNCHANGED Marks!fetch
    BY DEF Stutters, Marks!fetch
  <2> QED
    BY <2>1, <2>2, <2>3, <2>4
<1> QED
  BY <1>2, <1>3

LEMMA FundingRefine ==
  /\ Init => Funding!Init
  /\ TypeInv /\ PagesInv /\ [Next]_vars => [Funding!Receive \/ Funding!Finish]_Funding!fetch
<1>1. "funding" \in Streamed
  BY DEF Streamed
<1>2. Init => Funding!Init
  BY <1>1, RangeInit DEF Funding!Init
<1>3. ASSUME TypeInv, PagesInv, [Next]_vars
      PROVE  [Funding!Receive \/ Funding!Finish]_Funding!fetch
  <2>1. Receives("funding") \/ Finishes("funding") \/ Stutters("funding")
    BY <1>1, <1>3, RangeStep
  <2>2. Receives("funding") => Funding!Receive
    BY DEF Receives, Funding!Receive
  <2>3. Finishes("funding") => Funding!Finish
    BY DEF Finishes, Funding!Finish
  <2>4. Stutters("funding") => UNCHANGED Funding!fetch
    BY DEF Stutters, Funding!fetch
  <2> QED
    BY <2>1, <2>2, <2>3, <2>4
<1> QED
  BY <1>2, <1>3

LEMMA TradesRefine ==
  /\ Init => Trades!Init
  /\ TypeInv /\ PagesInv /\ [Next]_vars => [Trades!Receive \/ Trades!Finish]_Trades!fetch
<1>1. "trades" \in Streamed
  BY DEF Streamed
<1>2. Init => Trades!Init
  BY <1>1, RangeInit DEF Trades!Init
<1>3. ASSUME TypeInv, PagesInv, [Next]_vars
      PROVE  [Trades!Receive \/ Trades!Finish]_Trades!fetch
  <2>1. Receives("trades") \/ Finishes("trades") \/ Stutters("trades")
    BY <1>1, <1>3, RangeStep
  <2>2. Receives("trades") => Trades!Receive
    BY DEF Receives, Trades!Receive
  <2>3. Finishes("trades") => Trades!Finish
    BY DEF Finishes, Trades!Finish
  <2>4. Stutters("trades") => UNCHANGED Trades!fetch
    BY DEF Stutters, Trades!fetch
  <2> QED
    BY <2>1, <2>2, <2>3, <2>4
<1> QED
  BY <1>2, <1>3

-----------------------------------------------------------------------------
(***************************************************************************)
(* The slice of a Binance command: what is stored is what is merged, once  *)
(* every stream is finished, and rows of a finished stream ascend.         *)
(***************************************************************************)
StoredInv ==
  vendor = "binance" =>
    /\ stored = [i \in Slices |-> stored[i]]
    /\ \/ stored[1] = <<>>
       \/ pc \in {"manifest", "done", "crashed"} /\ stored[1] = Merged

LEMMA StoredInvInit == Init => StoredInv
<1> SUFFICES ASSUME Init, vendor = "binance" PROVE StoredInv
  BY DEF StoredInv
<1>1. stored = [i \in Slices |-> <<>>] /\ Slices = {1}
  BY StreamFacts DEF Init, Vendors
<1>2. stored[1] = <<>> /\ stored = [i \in Slices |-> stored[i]]
  BY <1>1
<1> QED
  BY <1>2 DEF StoredInv

LEMMA StoredInvNext == TypeInv /\ StoredInv /\ [Next]_vars => StoredInv'
<1> SUFFICES ASSUME TypeInv, StoredInv, [Next]_vars, vendor' = "binance"
             PROVE  StoredInv'
  BY DEF StoredInv
<1>1. vendor = "binance" /\ Streams' = Streams /\ vendor \in Vendors
  BY StageFacts DEF TypeInv, Shape
<1>2. Slices = {1} /\ Slices' = Slices
  BY <1>1, StreamFacts DEF Slices
<1>3. /\ stored = [i \in Slices |-> stored[i]]
      /\ \/ stored[1] = <<>>
         \/ pc \in {"manifest", "done", "crashed"} /\ stored[1] = Merged
  BY <1>1 DEF StoredInv
<1>4. ASSUME rows' = rows PROVE Merged' = Merged
  BY <1>1, <1>4 DEF Merged, Ticks, Price, Offset, EventTime
<1>5. CASE WriteParquet
  <2>1. stored' = [stored EXCEPT ![1] = Merged] /\ pc' = "manifest" /\ rows' = rows
    BY <1>1, <1>5 DEF WriteParquet, Slice
  <2>2. stored'[1] = Merged /\ stored' = [i \in Slices |-> stored'[i]]
    BY <1>2, <1>3, <2>1
  <2> QED
    BY <1>2, <1>4, <2>1, <2>2 DEF StoredInv
<1>6. CASE ~ WriteParquet
  <2>1. stored' = stored
    BY <1>6 DEF Next, Command, Pass, FetchPage, StreamDone, FetchBars, FetchFeed,
                FetchFails, WriteManifest, Crash, Done, vars
  <2>2. ASSUME pc \in {"manifest", "done", "crashed"}
        PROVE  pc' \in {"manifest", "done", "crashed"} /\ rows' = rows
    BY <1>1, <1>6, <2>2 DEF Next, Command, Pass, FetchPage, StreamDone, FetchBars,
                FetchFeed, FetchFails, WriteManifest, Crash, Done, vars
  <2> QED
    BY <1>2, <1>3, <1>4, <2>1, <2>2 DEF StoredInv
<1> QED
  BY <1>5, <1>6

\* The ticks of a stream whose rows ascend.
Tick == [ts : Int, kind : Kinds, price : {-1, 1}]

RowsAscend(i) == \A j, k \in DOMAIN rows[i] : j < k => rows[i][j] < rows[i][k]

LEMMA CompleteAscends ==
  ASSUME NEW i \in DOMAIN Streams, Complete(i)
  PROVE  RowsAscend(i)
<1>1. PICK c \in Nat : ReceivedUpTo(i, c)
  BY DEF Complete
<1> DEFINE S == Below(Times(Streams[i]), c)
<1>2. S \subseteq Int /\ IsFiniteSet(S)
  <2>1. S \in SUBSET Times(Streams[i]) /\ Times(Streams[i]) \subseteq Int
    BY TimesFacts DEF Below
  <2> QED
    BY <2>1, TimesFacts, FS_Subset
<1>3. rows[i] = InOrder(S)
  BY <1>1 DEF ReceivedUpTo
<1> HIDE DEF S
<1>4. \A j, k \in DOMAIN InOrder(S) : j < k => InOrder(S)[j] < InOrder(S)[k]
  BY <1>2, InOrderAscends
<1> QED
  BY <1>3, <1>4 DEF RowsAscend

\* Times rise with the rows of a stream, and those of different streams differ.
LEMMA EventTimeFacts ==
  ASSUME NEW s \in {"kline", "mark", "funding"}, NEW t \in Nat
  PROVE  /\ EventTime(s, t) \in Int
         /\ \A u \in Nat : t < u => EventTime(s, t) < EventTime(s, u)
         /\ \A v \in {"kline", "mark", "funding"}, u \in Nat :
              v # s => EventTime(s, t) # EventTime(v, u)
<1>1. Width \in Int
  BY ParameterTypes
<1>2. \A u \in Nat : /\ EventTime("kline", u) = 3 * (u + Width - 1)
                     /\ EventTime("mark", u) = 3 * (u + Width - 1) + 1
                     /\ EventTime("funding", u) = 3 * u + 2
  <2> TAKE u \in Nat
  <2>1. /\ Offset("kline") = 0 /\ Offset("mark") = 1 /\ Offset("funding") = 2
    BY DEF Offset
  <2>2. /\ EventTime("kline", u) = 3 * (u + Width - 1) + 0
        /\ EventTime("mark", u) = 3 * (u + Width - 1) + 1
        /\ EventTime("funding", u) = 3 * u + 2
    BY <2>1 DEF EventTime
  <2> QED
    BY <1>1, <2>2
<1>3. ASSUME NEW u \in Nat
      PROVE  /\ 3 * (t + Width - 1) \in Int /\ 3 * (t + Width - 1) + 1 \in Int /\ 3 * t + 2 \in Int
             /\ t < u => 3 * (t + Width - 1) < 3 * (u + Width - 1)
             /\ t < u => 3 * (t + Width - 1) + 1 < 3 * (u + Width - 1) + 1
             /\ t < u => 3 * t + 2 < 3 * u + 2
             /\ 3 * (t + Width - 1) # 3 * (u + Width - 1) + 1
             /\ 3 * (t + Width - 1) + 1 # 3 * (u + Width - 1)
             /\ 3 * (t + Width - 1) # 3 * u + 2 /\ 3 * (t + Width - 1) + 1 # 3 * u + 2
             /\ 3 * t + 2 # 3 * (u + Width - 1) /\ 3 * t + 2 # 3 * (u + Width - 1) + 1
  BY <1>1, SMT
<1>4. CASE s = "kline"
  BY <1>2, <1>3, <1>4, Zenon
<1>5. CASE s = "mark"
  BY <1>2, <1>3, <1>5, Zenon
<1>6. CASE s = "funding"
  BY <1>2, <1>3, <1>6, Zenon
<1> QED
  BY <1>4, <1>5, <1>6

LEMMA TicksFacts ==
  ASSUME TypeInv, vendor = "binance", NEW i \in 1 .. 3, RowsAscend(i)
  PROVE  /\ Ticks(i) \in Seq(Tick) /\ Len(Ticks(i)) \in Nat
         /\ DOMAIN Ticks(i) = 1 .. Len(Ticks(i))
         /\ \A j \in DOMAIN Ticks(i) :
              /\ Ticks(i)[j].kind = Streams[i]
              /\ Streams[i] = "kline" => Ticks(i)[j].price > 0
              /\ \E t \in Nat : Ticks(i)[j].ts = EventTime(Streams[i], t)
              /\ \A k \in DOMAIN Ticks(i) : j < k => Ticks(i)[j].ts < Ticks(i)[k].ts
<1>1. Streams = <<"kline", "mark", "funding">>
  BY DEF Streams
<1>2. i \in DOMAIN Streams /\ Streams[i] \in {"kline", "mark", "funding"}
  BY <1>1
<1>3. rows[i] \in Seq(Nat)
  BY <1>2 DEF TypeInv, Shape
<1> DEFINE s == Streams[i]
           r == rows[i]
           n == Len(r)
<1>4. n \in Nat /\ DOMAIN r = 1 .. n /\ \A j \in 1 .. n : r[j] \in Nat
  BY <1>3
<1>5. Ticks(i) = [j \in 1 .. n |-> [ts |-> EventTime(s, r[j]), kind |-> s,
                                     price |-> Price(s, r[j])]]
  BY <1>4 DEF Ticks
<1>6. \A j \in 1 .. n : EventTime(s, r[j]) \in Int
  BY <1>2, <1>4, EventTimeFacts
<1>7. /\ s \in Kinds /\ \A j \in 1 .. n : Price(s, r[j]) \in {-1, 1}
      /\ s = "kline" => \A j \in 1 .. n : Price(s, r[j]) > 0
  BY <1>2 DEF Kinds, Price
<1>8. \A j, k \in 1 .. n : j < k => r[j] < r[k]
  BY <1>4 DEF RowsAscend
<1> HIDE DEF s, r, n
<1>9. Ticks(i) \in [1 .. n -> Tick]
  BY <1>5, <1>6, <1>7 DEF Tick
<1>10. Ticks(i) \in Seq(Tick) /\ Len(Ticks(i)) = n /\ DOMAIN Ticks(i) = 1 .. n
  BY <1>4, <1>9
<1>11. \A j \in 1 .. n : /\ Ticks(i)[j].kind = s /\ Ticks(i)[j].ts = EventTime(s, r[j])
                         /\ s = "kline" => Ticks(i)[j].price > 0
  BY <1>5, <1>7
<1>12. ASSUME NEW j \in 1 .. n, NEW k \in 1 .. n, j < k
       PROVE  EventTime(s, r[j]) < EventTime(s, r[k])
  BY <1>2, <1>4, <1>8, <1>12, EventTimeFacts DEF s
<1> QED
  BY <1>4, <1>10, <1>11, <1>12 DEF s

\* The merged streams one after the other: a tick is of one of them, and those
\* of the first come first.
Joined == Ticks(1) \o Ticks(2) \o Ticks(3)

Offsets(i) ==
  IF i = 1 THEN 0 ELSE IF i = 2 THEN Len(Ticks(1)) ELSE Len(Ticks(1)) + Len(Ticks(2))

LEMMA JoinedFacts ==
  ASSUME \A i \in 1 .. 3 : Ticks(i) \in Seq(Tick)
  PROVE  /\ Joined \in Seq(Tick) /\ Len(Joined) \in Nat
         /\ DOMAIN Joined = 1 .. Len(Joined)
         /\ Len(Ticks(1)) \in 0 .. Len(Joined)
         /\ \A i \in 1 .. Len(Ticks(1)) : Joined[i] = Ticks(1)[i]
         /\ \A i \in DOMAIN Joined : \E p \in 1 .. 3 : \E k \in DOMAIN Ticks(p) :
              /\ i = Offsets(p) + k /\ Joined[i] = Ticks(p)[k]
              /\ p = 1 <=> i \in 1 .. Len(Ticks(1))
<1> DEFINE a == Ticks(1)
           b == Ticks(2)
           c == Ticks(3)
           ab == a \o b
<1>1. a \in Seq(Tick) /\ b \in Seq(Tick) /\ c \in Seq(Tick)
  OBVIOUS
<1>2. Joined = ab \o c /\ \A p \in 1 .. 3 : p = 1 \/ p = 2 \/ p = 3
  BY DEF Joined
<1>3. Offsets(1) = 0 /\ Offsets(2) = Len(a) /\ Offsets(3) = Len(a) + Len(b)
  BY DEF Offsets
<1> HIDE DEF a, b, c
<1>4. /\ ab \in Seq(Tick) /\ Len(ab) = Len(a) + Len(b)
      /\ \A i \in 1 .. Len(a) + Len(b) : ab[i] = IF i <= Len(a) THEN a[i] ELSE b[i - Len(a)]
  BY <1>1, ConcatProperties
<1> HIDE DEF ab
<1>5. /\ Joined \in Seq(Tick) /\ Len(Joined) = Len(ab) + Len(c)
      /\ \A i \in 1 .. Len(ab) + Len(c) :
           Joined[i] = IF i <= Len(ab) THEN ab[i] ELSE c[i - Len(ab)]
  BY <1>1, <1>2, <1>4, ConcatProperties
<1>6. /\ Len(a) \in Nat /\ DOMAIN a = 1 .. Len(a) /\ Len(b) \in Nat /\ DOMAIN b = 1 .. Len(b)
      /\ Len(c) \in Nat /\ DOMAIN c = 1 .. Len(c)
      /\ Len(Joined) \in Nat /\ DOMAIN Joined = 1 .. Len(Joined)
  BY <1>1, <1>5, LenProperties
<1>7. ASSUME NEW i \in 1 .. Len(Joined)
      PROVE  \/ i \in DOMAIN a /\ Joined[i] = a[i] /\ i = 0 + i /\ i \in 1 .. Len(a)
             \/ /\ i - Len(a) \in DOMAIN b /\ Joined[i] = b[i - Len(a)]
                /\ i = Len(a) + (i - Len(a)) /\ i \notin 1 .. Len(a)
             \/ /\ i - Len(ab) \in DOMAIN c /\ Joined[i] = c[i - Len(ab)]
                /\ i = Len(a) + Len(b) + (i - Len(ab)) /\ i \notin 1 .. Len(a)
  <2>1. i \in 1 .. Len(ab) + Len(c) /\ i \in Int
    BY <1>5, <1>6
  <2>2. CASE i <= Len(a)
    <3>1. i \in 1 .. Len(a) /\ i \in 1 .. Len(a) + Len(b) /\ i <= Len(ab)
      BY <1>4, <1>6, <2>1, <2>2
    <3>2. Joined[i] = ab[i] /\ ab[i] = a[i]
      BY <1>4, <1>5, <2>1, <2>2, <3>1
    <3> QED
      BY <1>6, <3>1, <3>2
  <2>3. CASE ~ (i <= Len(a)) /\ i <= Len(ab)
    <3>1. i \in 1 .. Len(a) + Len(b) /\ i - Len(a) \in 1 .. Len(b) /\ i \notin 1 .. Len(a)
      BY <1>4, <1>6, <2>1, <2>3
    <3>2. Joined[i] = ab[i] /\ ab[i] = b[i - Len(a)]
      BY <1>4, <1>5, <2>1, <2>3, <3>1
    <3> QED
      BY <1>6, <2>1, <3>1, <3>2
  <2>4. CASE ~ (i <= Len(ab))
    <3>1. i - Len(ab) \in 1 .. Len(c) /\ i \notin 1 .. Len(a)
          /\ i = Len(a) + Len(b) + (i - Len(ab))
      BY <1>4, <1>6, <2>1, <2>4
    <3>2. Joined[i] = c[i - Len(ab)]
      BY <1>5, <2>1, <2>4
    <3> QED
      BY <1>6, <3>1, <3>2
  <2> QED
    BY <2>2, <2>3, <2>4
<1>8. ASSUME NEW i \in DOMAIN Joined
      PROVE  \E p \in 1 .. 3 : \E k \in DOMAIN Ticks(p) :
               /\ i = Offsets(p) + k /\ Joined[i] = Ticks(p)[k]
               /\ p = 1 <=> i \in 1 .. Len(a)
  <2>1. 1 \in 1 .. 3 /\ 2 \in 1 .. 3 /\ 3 \in 1 .. 3 /\ 2 # 1 /\ 3 # 1
    OBVIOUS
  <2>2. i \in 1 .. Len(Joined)
    BY <1>6
  <2>3. \/ \E k \in DOMAIN a : i = 0 + k /\ Joined[i] = a[k] /\ i \in 1 .. Len(a)
        \/ \E k \in DOMAIN b : i = Len(a) + k /\ Joined[i] = b[k] /\ i \notin 1 .. Len(a)
        \/ \E k \in DOMAIN c : i = Len(a) + Len(b) + k /\ Joined[i] = c[k] /\ i \notin 1 .. Len(a)
    BY <1>7, <2>2
  <2>4. CASE \E k \in DOMAIN a : i = 0 + k /\ Joined[i] = a[k] /\ i \in 1 .. Len(a)
    BY <1>3, <2>1, <2>4, Zenon DEF a
  <2>5. CASE \E k \in DOMAIN b : i = Len(a) + k /\ Joined[i] = b[k] /\ i \notin 1 .. Len(a)
    BY <1>3, <2>1, <2>5, Zenon DEF b
  <2>6. CASE \E k \in DOMAIN c : /\ i = Len(a) + Len(b) + k /\ Joined[i] = c[k]
                                 /\ i \notin 1 .. Len(a)
    BY <1>3, <2>1, <2>6, Zenon DEF c
  <2> QED
    BY <2>3, <2>4, <2>5, <2>6
<1>9. Len(a) \in 0 .. Len(Joined) /\ \A i \in 1 .. Len(a) : Joined[i] = a[i]
  <2>1. Len(a) \in 0 .. Len(Joined)
    BY <1>4, <1>5, <1>6
  <2>2. ASSUME NEW i \in 1 .. Len(a) PROVE Joined[i] = a[i]
    <3>1. /\ i \in 1 .. Len(ab) + Len(c) /\ i \in 1 .. Len(a) + Len(b)
          /\ i <= Len(ab) /\ i <= Len(a)
      BY <1>4, <1>6
    <3> QED
      BY <1>4, <1>5, <3>1
  <2> QED
    BY <2>1, <2>2
<1> QED
  BY <1>5, <1>6, <1>8, <1>9 DEF a

\* No two ticks of a merged slice have the same time.
LEMMA JoinedDiffer ==
  ASSUME TypeInv, vendor = "binance", \A i \in 1 .. 3 : RowsAscend(i)
  PROVE  /\ \A i \in DOMAIN Joined : Joined[i].ts \in Int
         /\ \A i, j \in DOMAIN Joined : i # j => Joined[i].ts # Joined[j].ts
         /\ \A i \in DOMAIN Joined :
              Joined[i].kind \notin {"mark", "funding"} /\ Joined[i].price > 0
                <=> i \in 1 .. Len(Ticks(1))
         /\ \A i, j \in 1 .. Len(Ticks(1)) : i < j => Joined[i].ts < Joined[j].ts
<1>1. Streams = <<"kline", "mark", "funding">>
  BY DEF Streams
<1>2. \A p \in 1 .. 3 :
        /\ Ticks(p) \in Seq(Tick) /\ DOMAIN Ticks(p) = 1 .. Len(Ticks(p))
        /\ Len(Ticks(p)) \in Nat
        /\ \A j \in DOMAIN Ticks(p) :
             /\ Ticks(p)[j].kind = Streams[p]
             /\ Streams[p] = "kline" => Ticks(p)[j].price > 0
             /\ \E t \in Nat : Ticks(p)[j].ts = EventTime(Streams[p], t)
             /\ \A k \in DOMAIN Ticks(p) : j < k => Ticks(p)[j].ts < Ticks(p)[k].ts
  BY TicksFacts
<1>3. /\ Joined \in Seq(Tick) /\ DOMAIN Joined = 1 .. Len(Joined)
      /\ \A i \in 1 .. Len(Ticks(1)) : Joined[i] = Ticks(1)[i]
      /\ \A i \in DOMAIN Joined : \E p \in 1 .. 3 : \E k \in DOMAIN Ticks(p) :
           /\ i = Offsets(p) + k /\ Joined[i] = Ticks(p)[k]
           /\ p = 1 <=> i \in 1 .. Len(Ticks(1))
  BY <1>2, JoinedFacts
<1>4. \A p \in 1 .. 3 : Offsets(p) \in Nat
  BY <1>2 DEF Offsets
<1>5. \A i \in DOMAIN Joined : Joined[i].ts \in Int
  <2>1. \A i \in DOMAIN Joined : Joined[i] \in Tick
    BY <1>3, ElementOfSeq
  <2> QED
    BY <2>1 DEF Tick
<1>6. \A p \in 1 .. 3 : /\ Streams[p] \in {"kline", "mark", "funding"}
                        /\ Streams[p] \notin {"mark", "funding"} <=> p = 1
                        /\ Streams[p] = "kline" <=> p = 1
                        /\ \A q \in 1 .. 3 : q # p => Streams[p] # Streams[q]
  BY <1>1
<1>7. ASSUME NEW i \in DOMAIN Joined, NEW j \in DOMAIN Joined, i < j
      PROVE  Joined[i].ts # Joined[j].ts
  <2>1. PICK p \in 1 .. 3 : \E k \in DOMAIN Ticks(p) :
               i = Offsets(p) + k /\ Joined[i] = Ticks(p)[k]
    BY <1>3
  <2>2. PICK k \in DOMAIN Ticks(p) : i = Offsets(p) + k /\ Joined[i] = Ticks(p)[k]
    BY <2>1
  <2>3. PICK q \in 1 .. 3 : \E l \in DOMAIN Ticks(q) :
               j = Offsets(q) + l /\ Joined[j] = Ticks(q)[l]
    BY <1>3
  <2>4. PICK l \in DOMAIN Ticks(q) : j = Offsets(q) + l /\ Joined[j] = Ticks(q)[l]
    BY <2>3
  <2>5. CASE p = q
    <3>1. k < l
      <4>1. DOMAIN Ticks(p) = 1 .. Len(Ticks(p)) /\ Len(Ticks(p)) \in Nat
            /\ l \in DOMAIN Ticks(p)
        BY <1>2, <2>5
      <4>2. k \in Int /\ l \in Int /\ Offsets(p) \in Int
        BY <1>4, <4>1
      <4> QED
        BY <1>7, <2>2, <2>4, <2>5, <4>2
    <3>2. Ticks(p)[k].ts < Ticks(p)[l].ts
      BY <1>2, <2>5, <3>1
    <3>3. Joined[i].ts < Joined[j].ts
      BY <2>2, <2>4, <2>5, <3>2
    <3> QED
      BY <1>5, <3>3
  <2>6. CASE p # q
    <3>1. PICK t \in Nat : Ticks(p)[k].ts = EventTime(Streams[p], t)
      BY <1>2
    <3>2. PICK u \in Nat : Ticks(q)[l].ts = EventTime(Streams[q], u)
      BY <1>2
    <3>3. EventTime(Streams[p], t) # EventTime(Streams[q], u)
      BY <1>6, <2>6, EventTimeFacts
    <3> QED
      BY <2>2, <2>4, <3>1, <3>2, <3>3
  <2> QED
    BY <2>5, <2>6
<1>8. ASSUME NEW i \in DOMAIN Joined, NEW j \in DOMAIN Joined, i # j
      PROVE  Joined[i].ts # Joined[j].ts
  <2>1. i < j \/ j < i
    <3>1. i \in Int /\ j \in Int
      BY <1>3
    <3> QED
      BY <1>8, <3>1
  <2> QED
    BY <1>7, <2>1
<1>9. ASSUME NEW i \in DOMAIN Joined
      PROVE  Joined[i].kind \notin {"mark", "funding"} /\ Joined[i].price > 0
               <=> i \in 1 .. Len(Ticks(1))
  <2>1. PICK p \in 1 .. 3 : \E k \in DOMAIN Ticks(p) :
          /\ Joined[i] = Ticks(p)[k]
          /\ p = 1 <=> i \in 1 .. Len(Ticks(1))
    BY <1>3
  <2>2. PICK k \in DOMAIN Ticks(p) : Joined[i] = Ticks(p)[k]
    BY <2>1
  <2>3. Joined[i].kind = Streams[p] /\ (Streams[p] = "kline" => Joined[i].price > 0)
    BY <1>2, <2>2
  <2> QED
    BY <1>6, <2>1, <2>3
<1>10. ASSUME NEW i \in 1 .. Len(Ticks(1)), NEW j \in 1 .. Len(Ticks(1)), i < j
       PROVE  Joined[i].ts < Joined[j].ts
  <2>1. 1 \in 1 .. 3
    OBVIOUS
  <2> QED
    BY <1>2, <1>3, <1>10, <2>1
<1> QED
  BY <1>5, <1>8, <1>9, <1>10

\* The merged slice ascends, and its price bars are the klines.
LEMMA MergedFacts ==
  ASSUME TypeInv, vendor = "binance", \A i \in 1 .. 3 : RowsAscend(i)
  PROVE  /\ \A i, j \in DOMAIN Merged : i < j => Merged[i].ts < Merged[j].ts
         /\ PriceBars(Merged) = Ticks(1)
<1> DEFINE n == Len(Joined)
           m == Len(Ticks(1))
           keys == [j \in DOMAIN Joined |-> Joined[j].ts]
<1>1. \A p \in 1 .. 3 : Ticks(p) \in Seq(Tick) /\ DOMAIN Ticks(p) = 1 .. Len(Ticks(p))
  BY TicksFacts
<1>2. /\ n \in Nat /\ DOMAIN Joined = 1 .. n /\ m \in 0 .. n
      /\ \A i \in 1 .. m : Joined[i] = Ticks(1)[i]
  BY <1>1, JoinedFacts
<1>3. /\ \A i \in 1 .. n : Joined[i].ts \in Int
      /\ \A i, j \in 1 .. n : i # j => Joined[i].ts # Joined[j].ts
      /\ \A i \in 1 .. n :
           Joined[i].kind \notin {"mark", "funding"} /\ Joined[i].price > 0 <=> i \in 1 .. m
      /\ \A i, j \in 1 .. m : i < j => Joined[i].ts < Joined[j].ts
  BY <1>2, JoinedDiffer
<1>4. Merged = Sorted(Joined, keys)
  BY DEF Merged, ByTime, Joined
<1>5. keys \in [1 .. n -> Int] /\ \A i \in 1 .. n : keys[i] = Joined[i].ts
  BY <1>2, <1>3
<1> HIDE DEF keys, n, m
<1>6. PICK at : /\ Sorts(at, keys, n)
                /\ Sorted(Joined, keys) = [p \in 1 .. n |-> Joined[at[p]]]
  BY <1>2, <1>5, SortedPlaces
<1>7. \A p \in 1 .. n : at[p] \in 1 .. n
  BY <1>6 DEF Sorts
<1>8. DOMAIN Merged = 1 .. n /\ \A p \in 1 .. n : Merged[p] = Joined[at[p]]
  BY <1>4, <1>6
<1>9. ASSUME NEW i \in DOMAIN Merged, NEW j \in DOMAIN Merged, i < j
      PROVE  Merged[i].ts < Merged[j].ts
  <2> DEFINE a == at[i]
             b == at[j]
  <2>1. a \in 1 .. n /\ b \in 1 .. n /\ a # b /\ Precedes(keys, a, b)
    BY <1>6, <1>7, <1>8, <1>9, Zenon DEF Sorts
  <2>2. Merged[i] = Joined[a] /\ Merged[j] = Joined[b]
    BY <1>8
  <2> HIDE DEF a, b
  <2>3. keys[a] # keys[b]
    BY <1>3, <1>5, <2>1
  <2>4. keys[a] < keys[b]
    BY <2>1, <2>3 DEF Precedes
  <2> QED
    BY <1>5, <2>1, <2>2, <2>4
<1>10. PriceBars(Merged) = Ticks(1)
  <2> DEFINE sorted == Taken(Joined, at, n)
             K == PlacesUpTo(at, n, m)
  <2>1. Merged = sorted
    BY <1>4, <1>6 DEF Taken
  <2>2. {p \in DOMAIN Merged :
           Merged[p].kind \notin {"mark", "funding"} /\ Merged[p].price > 0} = K
    BY <1>3, <1>7, <1>8 DEF PlacesUpTo
  <2>3. PriceBars(Merged) = Kept(sorted, K)
    BY <2>1, <2>2 DEF PriceBars
  <2>4. Rises(keys, m)
    <3>1. \A i \in 1 .. m : i \in 1 .. n
      BY <1>2
    <3>2. ASSUME NEW i \in 1 .. m, NEW j \in 1 .. m, i < j PROVE keys[i] <= keys[j]
      <4>1. keys[i] < keys[j] /\ keys[i] \in Int /\ keys[j] \in Int
        BY <1>3, <1>5, <3>1, <3>2
      <4> QED
        BY <4>1
    <3> QED
      BY <3>2 DEF Rises
  <2> HIDE DEF sorted, K
  <2>5. /\ DOMAIN Kept(sorted, K) = 1 .. m
        /\ \A i \in 1 .. m : Kept(sorted, K)[i] = Joined[i]
    <3>1. n \in Nat /\ m \in 0 .. n /\ keys \in [1 .. n -> Int] /\ Sorts(at, keys, n)
      BY <1>2, <1>5, <1>6
    <3> QED
      BY <2>4, <3>1, KeptFront DEF sorted, K
  <2>6. Kept(sorted, K) = [i \in 1 .. m |-> Ticks(1)[i]]
    <3>1. Kept(sorted, K) = [i \in DOMAIN Kept(sorted, K) |-> Kept(sorted, K)[i]]
      BY DEF Kept
    <3> QED
      BY <1>2, <2>5, <3>1
  <2>7. Ticks(1) = [i \in 1 .. m |-> Ticks(1)[i]]
    <3> DEFINE a == Ticks(1)
    <3>1. a \in Seq(Tick) /\ DOMAIN a = 1 .. m
      BY <1>1 DEF m
    <3> HIDE DEF a
    <3>2. a \in [DOMAIN a -> Tick]
      BY <3>1, LenProperties
    <3>3. a = [i \in 1 .. m |-> a[i]]
      BY <3>1, <3>2
    <3> QED
      BY <3>3 DEF a
  <2> QED
    BY <2>3, <2>6, <2>7
<1> QED
  BY <1>9, <1>10

LEMMA EventOrderHolds == TypeInv /\ PagesInv /\ StoredInv => EventOrder
<1> SUFFICES ASSUME TypeInv, PagesInv, StoredInv, vendor = "binance" PROVE EventOrder
  BY DEF EventOrder
<1>1. CASE stored[1] = <<>>
  <2>1. DOMAIN stored[1] = {}
    BY <1>1
  <2> QED
    BY <1>1, <2>1 DEF EventOrder
<1>2. CASE pc \in {"manifest", "done", "crashed"} /\ stored[1] = Merged
  <2>1. DOMAIN Streams = 1 .. 3
    <3>1. Streams = <<"kline", "mark", "funding">>
      BY DEF Streams
    <3> QED
      BY <3>1
  <2>2. \A i \in 1 .. 3 : Complete(i)
    BY <1>2, <2>1 DEF PagesInv, Paged
  <2>3. \A i \in 1 .. 3 : RowsAscend(i)
    BY <2>1, <2>2, CompleteAscends
  <2> QED
    BY <1>2, <2>3, MergedFacts DEF EventOrder
<1> QED
  BY <1>1, <1>2 DEF StoredInv

-----------------------------------------------------------------------------
(***************************************************************************)
(* The theorems.                                                           *)
(***************************************************************************)
LEMMA Invariance == Spec => [](TypeInv /\ FilesInv /\ PagesInv /\ StoredInv)
<1>1. Init => TypeInv /\ FilesInv /\ PagesInv /\ StoredInv
  BY TypeInvInit, FilesInvInit, PagesInvInit, StoredInvInit
<1>2. TypeInv /\ FilesInv /\ PagesInv /\ StoredInv /\ [Next]_vars =>
        (TypeInv /\ FilesInv /\ PagesInv /\ StoredInv)'
  BY TypeInvNext, FilesInvNext, PagesInvNext, StoredInvNext
<1> QED
  BY <1>1, <1>2, PTL DEF Spec

\* Whatever the vendors answer and whenever, rows received existed when they
\* were, a compact answer is compact, and a day's news has no article twice.
THEOREM TypeCorrect == Spec => []TypeOK
<1>1. TypeInv => TypeOK
  BY TypeInvImplies
<1> QED
  BY <1>1, Invariance, PTL

\* Only a crash between the two writes leaves a Parquet file of this run with
\* the manifest of another; a command that ends has stored every slice.
THEOREM SlicesAreWhole == Spec => []SliceIsWhole
  BY FilesInvImplies, Invariance, PTL

\* Whatever the range, the spacing of bars and funding events and the pages, a
\* Binance slice has no two ticks at one time, is in order, and gives back to a
\* replay the klines that were downloaded and nothing else.
THEOREM SlicesAreInOrder == Spec => []EventOrder
  BY EventOrderHolds, Invariance, PTL

\* Every paginated download, of whatever range, page size and spacing, implements
\* the abstract one: pages join without a gap or a repetition, and what is kept
\* has all that the vendor had when the command began.
THEOREM DownloadsAreWhole == Spec => ImplementsRangeFetch
<1>1. Spec => Klines!Spec
  <2>1. Init => Klines!Init
    BY KlinesRefine
  <2>2. TypeInv /\ PagesInv /\ [Next]_vars => [Klines!Receive \/ Klines!Finish]_Klines!fetch
    BY KlinesRefine
  <2> QED
    BY <2>1, <2>2, Invariance, PTL DEF Spec, Klines!Spec
<1>2. Spec => Marks!Spec
  <2>1. Init => Marks!Init
    BY MarksRefine
  <2>2. TypeInv /\ PagesInv /\ [Next]_vars => [Marks!Receive \/ Marks!Finish]_Marks!fetch
    BY MarksRefine
  <2> QED
    BY <2>1, <2>2, Invariance, PTL DEF Spec, Marks!Spec
<1>3. Spec => Funding!Spec
  <2>1. Init => Funding!Init
    BY FundingRefine
  <2>2. TypeInv /\ PagesInv /\ [Next]_vars => [Funding!Receive \/ Funding!Finish]_Funding!fetch
    BY FundingRefine
  <2> QED
    BY <2>1, <2>2, Invariance, PTL DEF Spec, Funding!Spec
<1>4. Spec => Trades!Spec
  <2>1. Init => Trades!Init
    BY TradesRefine
  <2>2. TypeInv /\ PagesInv /\ [Next]_vars => [Trades!Receive \/ Trades!Finish]_Trades!fetch
    BY TradesRefine
  <2> QED
    BY <2>1, <2>2, Invariance, PTL DEF Spec, Trades!Spec
<1> QED
  BY <1>1, <1>2, <1>3, <1>4, PTL DEF ImplementsRangeFetch
=============================================================================
