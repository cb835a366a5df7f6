--------------------------- MODULE PaperRun_proofs --------------------------
(***************************************************************************)
(* A session from its feed to its files, for any set of bars, any window   *)
(* of the vendor's answers and any length of the session.                  *)
(***************************************************************************)
EXTENDS PaperRun, Shared_proofs

(***************************************************************************)
(* The bundles: what is in them, and in which order.                       *)
(***************************************************************************)
LEMMA BundleTuples ==
  /\ SessionFiles = <<"sim_fills", "equity", "manifest", "paper_manifest">>
  /\ RehearsalFiles =
       <<"sim_fills", "equity", "manifest", "paper_manifest", "order_log">>
  /\ LiveFiles =
       <<"sim_fills", "equity", "manifest", "paper_manifest", "order_log", "order_book">>
<1> DEFINE names == {"sim_fills", "equity", "manifest", "paper_manifest", "order_log",
                      "order_book"}
           four == <<"sim_fills", "equity", "manifest", "paper_manifest">>
           five == <<"sim_fills", "equity", "manifest", "paper_manifest", "order_log">>
           six  == <<"sim_fills", "equity", "manifest", "paper_manifest", "order_log",
                      "order_book">>
<1>1. RehearsalFiles = five
  <2>1. four \in Seq(names) /\ five \in Seq(names) /\ Len(four) = 4 /\ Len(five) = 5
    BY SMT
  <2>2. /\ Append(four, "order_log") \in Seq(names)
        /\ Len(Append(four, "order_log")) = 5
        /\ Append(four, "order_log")[5] = "order_log"
        /\ \A i \in 1 .. 4 : Append(four, "order_log")[i] = four[i]
    BY <2>1, AppendProperties, SMT
  <2>3. \A i \in 1 .. 5 : Append(four, "order_log")[i] = five[i]
    BY <2>2, SMT
  <2>4. Append(four, "order_log") = five
    BY <2>1, <2>2, <2>3, SeqEqual
  <2> QED
    BY <2>4 DEF RehearsalFiles, SessionFiles
<1>2. five \o <<"order_book">> = six
  <2>1. /\ <<"order_book">> \in Seq(names) /\ five \in Seq(names) /\ six \in Seq(names)
        /\ Len(<<"order_book">>) = 1 /\ Len(five) = 5 /\ Len(six) = 6
    BY SMT
  <2>2. /\ five \o <<"order_book">> \in Seq(names)
        /\ Len(five \o <<"order_book">>) = 6
        /\ \A i \in 1 .. 6 : (five \o <<"order_book">>)[i] =
              IF i <= 5 THEN five[i] ELSE <<"order_book">>[i - 5]
    BY <2>1, ConcatProperties, SMT
  <2>3. \A i \in 1 .. 6 : (five \o <<"order_book">>)[i] = six[i]
    BY <2>2, SMT
  <2> QED
    BY <2>1, <2>2, <2>3, SeqEqual
<1> QED
  BY <1>1, <1>2 DEF LiveFiles, SessionFiles

TablesFirst(s) ==
  \A i, j \in DOMAIN s :
    s[i] = "manifest" /\ s[j] \in {"sim_fills", "equity"} => j < i

LEMMA FileNamesAre ==
  FileNames = {"sim_fills", "equity", "manifest", "paper_manifest", "order_log", "order_book"}
  BY BundleTuples, SMT DEF FileNames, ToSet

LEMMA BundleFacts ==
  ASSUME cmd \in Commands
  PROVE  /\ Bundle \in Seq(FileNames) /\ Bundle # <<>>
         /\ {"sim_fills", "equity", "manifest"} \subseteq ToSet(Bundle)
         /\ TablesFirst(Bundle)
<1>1. ASSUME Bundle = SessionFiles
      PROVE  /\ Bundle \in Seq(FileNames) /\ Bundle # <<>>
             /\ {"sim_fills", "equity", "manifest"} \subseteq ToSet(Bundle)
             /\ TablesFirst(Bundle)
  BY <1>1, BundleTuples, FileNamesAre, SMT DEF ToSet, TablesFirst
<1>2. ASSUME Bundle = RehearsalFiles
      PROVE  /\ Bundle \in Seq(FileNames) /\ Bundle # <<>>
             /\ {"sim_fills", "equity", "manifest"} \subseteq ToSet(Bundle)
             /\ TablesFirst(Bundle)
  BY <1>2, BundleTuples, FileNamesAre, SMT DEF ToSet, TablesFirst
<1>3. ASSUME Bundle = LiveFiles
      PROVE  /\ Bundle \in Seq(FileNames) /\ Bundle # <<>>
             /\ {"sim_fills", "equity", "manifest"} \subseteq ToSet(Bundle)
             /\ TablesFirst(Bundle)
  BY <1>3, BundleTuples, FileNamesAre, SMT DEF ToSet, TablesFirst
<1>4. Bundle \in {SessionFiles, RehearsalFiles, LiveFiles}
  BY DEF Bundle
<1> QED
  BY <1>1, <1>2, <1>3, <1>4

(***************************************************************************)
(* Sequences, by their places.                                             *)
(***************************************************************************)
LEMMA Appended ==
  ASSUME NEW S, NEW s \in Seq(S), NEW e \in S, NEW r, r = Append(s, e)
  PROVE  /\ r \in Seq(S) /\ Len(s) \in Nat /\ Len(r) = Len(s) + 1
         /\ DOMAIN s = 1 .. Len(s) /\ DOMAIN r = 1 .. Len(s) + 1
         /\ \A i \in DOMAIN s : r[i] = s[i]
         /\ r[Len(s) + 1] = e
<1>1. /\ r \in Seq(S) /\ Len(r) = Len(s) + 1
      /\ \A i \in 1 .. Len(s) : r[i] = s[i]
      /\ r[Len(s) + 1] = e
  BY AppendProperties
<1>2. /\ Len(s) \in Nat /\ DOMAIN s = 1 .. Len(s) /\ DOMAIN r = 1 .. Len(r)
  BY <1>1, LenProperties
<1> QED
  BY <1>1, <1>2

LEMMA Beheaded ==
  ASSUME NEW S, NEW s \in Seq(S), s # <<>>, NEW r, r = Tail(s)
  PROVE  /\ r \in Seq(S) /\ Head(s) = s[1] /\ Head(s) \in S
         /\ Len(s) \in Nat \ {0} /\ Len(r) = Len(s) - 1
         /\ DOMAIN s = 1 .. Len(s) /\ 1 \in DOMAIN s
         /\ \A i \in DOMAIN r : i \in Nat /\ i + 1 \in DOMAIN s /\ r[i] = s[i + 1]
         /\ \A i \in DOMAIN s : i # 1 => i - 1 \in DOMAIN r /\ r[i - 1] = s[i]
<1>1. Len(s) \in Nat \ {0} /\ DOMAIN s = 1 .. Len(s)
  BY EmptySeq, LenProperties
<1>2. /\ r \in Seq(S) /\ Len(r) = Len(s) - 1 /\ Head(s) \in S
      /\ \A i \in 1 .. Len(r) : r[i] = s[i + 1]
  BY HeadTailProperties
<1>3. DOMAIN r = 1 .. Len(s) - 1
  BY <1>2, LenProperties
<1>4. Head(s) = s[1] /\ 1 \in DOMAIN s
  BY <1>1, SMT
<1>5. \A i \in DOMAIN r : i \in Nat /\ i + 1 \in DOMAIN s
  BY <1>1, <1>3, SMT
<1>6. ASSUME NEW i \in DOMAIN s, i # 1 PROVE i - 1 \in DOMAIN r /\ (i - 1) + 1 = i
  BY <1>1, <1>3, <1>6, SMT
<1> QED
  BY <1>1, <1>2, <1>3, <1>4, <1>5, <1>6

-----------------------------------------------------------------------------
(***************************************************************************)
(* The invariant, in four parts: the shape of the state, where a session   *)
(* is, what its feed has in store, and what is in its directory.           *)
(***************************************************************************)
Entry == [bar : Bars, answer : SUBSET Bars]

\* Each bar is in the answer it came from.
Listed(s) ==
  /\ s \in Seq(Entry)
  /\ \A i \in DOMAIN s : s[i].bar \in s[i].answer /\ s[i].answer \subseteq published

Shape ==
  /\ cmd \in Commands /\ source \in {"alphavantage", "binance"}
  /\ published \subseteq Bars /\ IsFiniteSet(published) /\ seen \subseteq published
  /\ seed = None \/ seed \subseteq published
  /\ Listed(fresh) /\ Listed(applied)
  /\ Len(applied) <= MaxTicks /\ partial \in 0 .. Len(applied)
  /\ killed \in BOOLEAN /\ sigint \in BOOLEAN /\ outcome \in Outcomes
  /\ phase \in {"fetch", "hand", "report", "sleep", "write", "over"}
  /\ files \in [FileNames -> Ages] /\ todo \in Seq(FileNames)
  /\ count = None \/ count \in 0 .. Len(applied)

Control ==
  /\ Over <=> outcome # "running"
  /\ ~ Over /\ phase # "report" => Len(applied) < MaxTicks
  /\ Flushes /\ phase \in {"fetch", "hand", "sleep"} => partial = Len(applied)
  /\ seed = None => fresh = <<>> /\ (Over \/ phase = "fetch")
  /\ source = "binance" /\ phase = "fetch" => seed = None
  /\ phase = "sleep" => source = "alphavantage"

\* What is in store ascends; it is not from before the start and not traded;
\* and it is missing in every answer an executed later bar came from.
FeedInv ==
  /\ source = "alphavantage" =>
       /\ seed # None => seed \subseteq seen
       /\ \A i \in DOMAIN fresh : fresh[i].answer \subseteq seen
       /\ \A i \in DOMAIN applied : applied[i].answer \subseteq seen
  /\ \A i, j \in DOMAIN fresh : i < j => fresh[i].bar < fresh[j].bar
  /\ seed # None => \A i \in DOMAIN fresh : fresh[i].bar \notin seed
  /\ \A k \in DOMAIN applied, j \in DOMAIN fresh :
       /\ fresh[j].bar # applied[k].bar
       /\ applied[k].bar > fresh[j].bar => fresh[j].bar \notin applied[k].answer
  /\ InvertedOnlyIfLate

BundleInv ==
  /\ outcome = "complete" => count = Len(applied)
  /\ outcome = "interrupted" /\ Flushes /\ applied # <<>> => count = Len(applied)
  /\ phase = "write" => outcome # "crashed" /\ count # None /\ todo # <<>>
  /\ outcome \notin {"running", "crashed"} /\ count # None =>
       \A f \in ToSet(Bundle) :
         files[f] = "new" \/ (phase = "write" /\ f \in ToSet(todo))
  /\ TablesFirst(todo)
  /\ files["manifest"] = "new" => files["sim_fills"] = "new" /\ files["equity"] = "new"

Inv == Shape /\ Control /\ FeedInv /\ BundleInv

LEMMA ShapeTypes == Shape => TypeOK
<1> SUFFICES ASSUME Shape PROVE TypeOK
  OBVIOUS
<1>1. ASSUME NEW f \in ToSet(fresh) \cup ToSet(applied)
      PROVE  f.bar \in f.answer /\ f.answer \subseteq published
  BY DEF Shape, Listed, ToSet
<1> QED
  BY <1>1 DEF Shape, TypeOK

LEMMA NothingListed == Listed(<<>>)
<1>1. <<>> \in Seq(Entry) /\ DOMAIN <<>> = {}
  BY SMT
<1> QED
  BY <1>1 DEF Listed

LEMMA StartInv == Init => Inv
<1> SUFFICES ASSUME Init PROVE Inv
  OBVIOUS
<1>1. Len(applied) = 0 /\ DOMAIN applied = {} /\ DOMAIN fresh = {} /\ DOMAIN todo = {}
  BY SMT DEF Init
<1>2. Shape
  <2>1. IsFiniteSet({})
    BY FS_EmptySet
  <2>2. files \in [FileNames -> Ages]
    BY DEF Init, NoFiles, Ages
  <2>3. 0 <= MaxTicks /\ 0 \in 0 .. 0
    BY PaperRunAssumption, SMT
  <2>4. source \in {"alphavantage", "binance"}
    BY DEF Init
  <2>5. todo \in Seq(FileNames)
    BY EmptySeq DEF Init
  <2>6. Listed(fresh) /\ Listed(applied)
    BY NothingListed DEF Init
  <2> QED
    BY <1>1, <2>1, <2>2, <2>3, <2>4, <2>5, <2>6 DEF Init, Shape, Outcomes
<1>3. Control
  <2>1. 0 < MaxTicks
    BY PaperRunAssumption, SMT
  <2> QED
    BY <1>1, <2>1 DEF Init, Control, Over
<1>4. FeedInv
  BY <1>1 DEF Init, FeedInv, InvertedOnlyIfLate
<1>5. BundleInv
  <2>1. "manifest" \in FileNames
    BY FileNamesAre
  <2>2. files["manifest"] # "new"
    BY <2>1 DEF Init, NoFiles
  <2> QED
    BY <1>1, <2>2 DEF Init, BundleInv, TablesFirst
<1> QED
  BY <1>2, <1>3, <1>4, <1>5 DEF Inv

-----------------------------------------------------------------------------
(***************************************************************************)
(* What an answer, and the end of a session, make of the state.            *)
(***************************************************************************)

\* select_new_ticks: the unseen bars of the answer, in ascending order.
LEMMA SelectNewFacts ==
  ASSUME Shape, NEW bars, bars \subseteq published, NEW r, r = SelectNew(bars)
  PROVE  /\ Listed(r)
         /\ \A i \in DOMAIN r : r[i].bar \in bars \ seen /\ r[i].answer = bars
         /\ \A i, j \in DOMAIN r : i < j => r[i].bar < r[j].bar
<1> DEFINE new == bars \ seen
           s   == InOrder(new)
<1>1. published \subseteq Bars /\ Bars \subseteq Int /\ IsFiniteSet(published)
  BY PaperRunAssumption, SMT DEF Shape
<1>2. new \in SUBSET published /\ new \subseteq Int /\ new \subseteq bars
  BY <1>1
<1>3. IsFiniteSet(new)
  BY <1>1, <1>2, FS_Subset
<1> HIDE DEF new
<1>4. /\ Cardinality(new) \in Nat /\ DOMAIN s = 1 .. Cardinality(new)
      /\ \A i \in DOMAIN s : s[i] \in new
  BY <1>2, <1>3, InOrderPlaces
<1>5. \A i, j \in DOMAIN s : i < j => s[i] < s[j]
  BY <1>2, <1>3, InOrderAscends
<1> HIDE DEF s
<1>6. r = [i \in DOMAIN s |-> [bar |-> s[i], answer |-> bars]]
  BY DEF SelectNew, s, new
<1>7. /\ DOMAIN r = 1 .. Cardinality(new) /\ DOMAIN r = DOMAIN s
      /\ \A i \in DOMAIN r : r[i].bar = s[i] /\ r[i].answer = bars
  BY <1>4, <1>6
<1>8. ASSUME NEW i \in DOMAIN r PROVE r[i] \in Entry
  <2>1. r[i] = [bar |-> s[i], answer |-> bars]
    BY <1>6, <1>7
  <2>2. s[i] \in Bars /\ bars \in SUBSET Bars
    BY <1>1, <1>2, <1>4, <1>7
  <2> QED
    BY <2>1, <2>2 DEF Entry
<1>9. r \in Seq(Entry)
  <2>1. r \in [1 .. Cardinality(new) -> Entry]
    BY <1>4, <1>6, <1>8
  <2> QED
    BY <1>4, <2>1, SMT
<1>10. \A i \in DOMAIN r : r[i].bar \in bars \ seen /\ r[i].answer = bars
  BY <1>4, <1>7 DEF new
<1>11. ASSUME NEW i \in DOMAIN r, NEW j \in DOMAIN r, i < j PROVE r[i].bar < r[j].bar
  <2>1. s[i] < s[j]
    BY <1>5, <1>7, <1>11
  <2>2. r[i].bar = s[i] /\ r[j].bar = s[j]
    BY <1>7
  <2> QED
    BY <2>1, <2>2
<1>12. Listed(r)
  BY <1>9, <1>10 DEF Listed
<1> QED
  BY <1>10, <1>11, <1>12

Ends == {"complete", "interrupted", "aborted", "failed"}

\* An end of the session gives every bundle a manifest of what it is to hold,
\* and all its files to write, tables first.
LEMMA FinishEffect ==
  ASSUME Inv, ~ Over, NEW how \in Ends, Finish(how),
         cmd' = cmd, applied' = applied,
         how = "interrupted" /\ Flushes => partial = Len(applied)
  PROVE  /\ BundleInv' /\ Over' /\ outcome' = how
         /\ files' = files /\ todo' \in Seq(FileNames)
         /\ count' = None \/ count' \in 0 .. Len(applied)
<1>1. /\ outcome' = how /\ files' = files /\ count' = Flushed(how)
      /\ todo' = IF count' = None THEN <<>> ELSE Bundle
      /\ phase' = IF count' = None THEN "over" ELSE "write"
  BY DEF Finish
<1>2. /\ applied \in Seq(Entry) /\ Len(applied) \in Nat
      /\ applied # <<>> => Len(applied) > 0
  BY EmptySeq, LenProperties, SMT DEF Inv, Shape, Listed
<1>3. partial \in 0 .. Len(applied)
  BY DEF Inv, Shape
<1>4. /\ count' = None \/ count' \in 0 .. Len(applied)
      /\ how = "complete" => count' = Len(applied)
      /\ how = "interrupted" /\ Flushes /\ applied # <<>> => count' = Len(applied)
  <2>1. Len(applied) \in 0 .. Len(applied)
    BY <1>2, SMT
  <2>2. CASE how = "complete"
    BY <1>1, <2>1, <2>2 DEF Flushed
  <2>3. CASE how \in {"interrupted", "aborted"} /\ Flushes /\ partial > 0
    <3>1. count' = partial
      BY <1>1, <2>3 DEF Flushed
    <3> QED
      BY <1>3, <2>3, <3>1
  <2>4. CASE how # "complete" /\ ~ (how \in {"interrupted", "aborted"} /\ Flushes /\ partial > 0)
    <3>1. count' = None
      BY <1>1, <2>4 DEF Flushed
    <3>2. ~ (how = "interrupted" /\ Flushes /\ applied # <<>>)
      BY <1>2, <2>4
    <3> QED
      BY <2>4, <3>1, <3>2
  <2> QED
    BY <2>2, <2>3, <2>4
<1>5. /\ Bundle \in Seq(FileNames) /\ Bundle # <<>> /\ TablesFirst(Bundle)
      /\ Bundle' = Bundle
  <2>1. cmd \in Commands
    BY DEF Inv, Shape
  <2> QED
    BY <2>1, BundleFacts DEF Bundle
<1>6. todo' \in Seq(FileNames) /\ TablesFirst(todo')
  <2>1. <<>> \in Seq(FileNames) /\ DOMAIN <<>> = {}
    BY SMT
  <2>2. TablesFirst(<<>>)
    BY <2>1 DEF TablesFirst
  <2> QED
    BY <1>1, <1>5, <2>1, <2>2
<1>7. Over'
  BY <1>1 DEF Over
<1>8. outcome' # "crashed"
  BY <1>1 DEF Ends
<1>9. Flushes' = Flushes
  BY DEF Flushes
<1>10. files["manifest"] = "new" => files["sim_fills"] = "new" /\ files["equity"] = "new"
  BY DEF Inv, BundleInv
<1>11. BundleInv'
  <2>1. TablesFirst(todo)'
    BY <1>6 DEF TablesFirst
  <2> QED
    BY <1>1, <1>4, <1>5, <1>8, <1>9, <1>10, <2>1 DEF BundleInv
<1> QED
  BY <1>1, <1>4, <1>6, <1>7, <1>11

\* An interrupt that is cancelled at an await finds the record up to date.
LEMMA AwaitingUpToDate ==
  ASSUME Inv, Awaiting
  PROVE  ~ Over /\ (Flushes => partial = Len(applied))
  BY DEF Inv, Control, Awaiting, Over

\* The steps that end the session, in one form.
Ending ==
  /\ ~ Over
  /\ \E how \in Ends :
       /\ Finish(how)
       /\ how = "interrupted" /\ Flushes => partial = Len(applied)
  /\ UNCHANGED <<cmd, source, sigint, applied, killed, stream>>
  /\ partial' \in {partial, Len(applied), 0}

LEMMA EndingSteps ==
  ASSUME Inv, StreamEnds \/ Fail \/ Cancelled \/ InterruptAgain
              \/ (Report /\ LastTick)
  PROVE  Ending
<1>1. CASE StreamEnds
  BY <1>1 DEF StreamEnds, Ending, Ends, Over, session, stream
<1>2. CASE Fail
  BY <1>2 DEF Fail, Ending, Ends, Over, session, stream
<1>3. CASE Cancelled
  <2>1. ~ Over /\ (Flushes => partial = Len(applied))
    BY <1>3, AwaitingUpToDate DEF Cancelled
  <2> QED
    BY <1>3, <2>1 DEF Cancelled, Ending, Ends, session, stream
<1>4. CASE InterruptAgain
  <2>1. ~ Over
    BY <1>4 DEF InterruptAgain, Inv, Control
  <2> QED
    BY <1>4, <2>1 DEF InterruptAgain, Ending, Ends, session, stream
<1>5. CASE Report /\ LastTick
  <2>1. Finish("complete") /\ phase = "report"
    BY <1>5 DEF Report
  <2> QED
    BY <1>5, <2>1 DEF Report, Ending, Ends, Over, stream
<1> QED
  BY <1>1, <1>2, <1>3, <1>4, <1>5

\* The steps that leave what is in store and what was executed alone.
OffFeed == UNCHANGED <<source, seed, seen, fresh, applied>>

LEMMA OffFeedSteps ==
  Rest \/ Wake \/ Report \/ StreamEnds \/ Fail \/ Interrupt \/ Cancelled
    \/ InterruptAgain \/ WriteFile \/ Crash \/ Done => OffFeed
  BY DEF Rest, Wake, Report, StreamEnds, Fail, Interrupt, Cancelled, InterruptAgain,
         WriteFile, Crash, Done, stream, session, vars, OffFeed

\* Report without an end.
LEMMA GoesOn ==
  ASSUME Report, ~ LastTick
  PROVE  /\ phase' = "hand" /\ UNCHANGED <<outcome, disk>>
         /\ partial' = IF Flushes THEN Len(applied) ELSE 0
         /\ UNCHANGED <<cmd, source, sigint, applied, killed, stream>>
  BY DEF Report

-----------------------------------------------------------------------------
LEMMA ShapeStep ==
  ASSUME Inv, Next
  PROVE  Shape'
<1> USE DEF stream, session, disk
<1>0. Shape /\ applied \in Seq(Entry) /\ Len(applied) \in Nat /\ fresh \in Seq(Entry)
  BY LenProperties DEF Inv, Shape, Listed
<1>1. CASE Publish
  <2> PICK b \in Bars \ published :
        /\ published' = published \cup {b}
        /\ fresh' = IF source = "binance" /\ phase \in {"hand", "report"}
                    THEN Append(fresh, [bar |-> b, answer |-> published'])
                    ELSE fresh
    BY <1>1 DEF Publish
  <2>1. published \subseteq published' /\ published' \subseteq Bars
    BY <1>0 DEF Shape
  <2>2. IsFiniteSet(published')
    BY <1>0, FS_AddElement DEF Shape
  <2>3. Listed(applied)'
    BY <1>0, <1>1, <2>1 DEF Publish, Shape, Listed
  <2>4. Listed(fresh)'
    <3>1. CASE fresh' = fresh
      BY <1>0, <2>1, <3>1 DEF Shape, Listed
    <3>2. CASE fresh' = Append(fresh, [bar |-> b, answer |-> published'])
      <4> DEFINE e == [bar |-> b, answer |-> published']
      <4>1. e \in Entry /\ e.bar \in e.answer /\ e.answer = published'
        BY <2>1 DEF Entry
      <4> HIDE DEF e
      <4>2. fresh' = Append(fresh, e)
        BY <3>2 DEF e
      <4>3. /\ fresh' \in Seq(Entry) /\ Len(fresh) \in Nat
            /\ DOMAIN fresh = 1 .. Len(fresh) /\ DOMAIN fresh' = 1 .. Len(fresh) + 1
            /\ \A i \in DOMAIN fresh : fresh'[i] = fresh[i]
            /\ fresh'[Len(fresh) + 1] = e
        BY <1>0, <4>1, <4>2, Appended
      <4>4. ASSUME NEW i \in DOMAIN fresh'
            PROVE  fresh'[i].bar \in fresh'[i].answer /\ fresh'[i].answer \subseteq published'
        <5>1. i \in DOMAIN fresh \/ i = Len(fresh) + 1
          BY <4>3, SMT
        <5> QED
          BY <1>0, <2>1, <4>1, <4>3, <5>1 DEF Shape, Listed
      <4> QED
        BY <4>3, <4>4 DEF Listed
    <3> QED
      BY <3>1, <3>2
  <2> QED
    BY <1>0, <1>1, <2>1, <2>2, <2>3, <2>4 DEF Shape, Publish
<1>2. CASE Connect
  BY <1>0, <1>2 DEF Connect, Shape, Listed
<1>3. CASE Answer
  <2>1. Visible \subseteq published
    BY DEF Visible
  <2>2. Listed(SelectNew(Visible))
    BY <1>0, <2>1, SelectNewFacts
  <2>3. Listed(fresh)' /\ Listed(applied)'
    <3>1. fresh' \in {<<>>, SelectNew(Visible)} /\ published' = published /\ applied' = applied
      BY <1>3 DEF Answer
    <3> QED
      BY <1>0, <2>2, <3>1, NothingListed DEF Listed, Shape
  <2>4. seed' \in {seed, Visible} /\ seen' = seen \cup Visible
    BY <1>3 DEF Answer
  <2> QED
    BY <1>0, <1>3, <2>1, <2>3, <2>4 DEF Answer, Shape
<1>4. CASE Execute
  <2>1. /\ fresh # <<>> /\ applied' = Append(applied, Head(fresh)) /\ fresh' = Tail(fresh)
        /\ published' = published
    BY <1>4 DEF Execute
  <2>2. /\ fresh' \in Seq(Entry) /\ Head(fresh) = fresh[1] /\ Head(fresh) \in Entry
        /\ 1 \in DOMAIN fresh
        /\ \A i \in DOMAIN fresh' : i + 1 \in DOMAIN fresh /\ fresh'[i] = fresh[i + 1]
    BY <1>0, <2>1, Beheaded
  <2>3. /\ applied' \in Seq(Entry) /\ Len(applied') = Len(applied) + 1
        /\ DOMAIN applied = 1 .. Len(applied) /\ DOMAIN applied' = 1 .. Len(applied) + 1
        /\ \A i \in DOMAIN applied : applied'[i] = applied[i]
        /\ applied'[Len(applied) + 1] = fresh[1]
    BY <1>0, <2>1, <2>2, Appended
  <2>4. Listed(fresh)'
    BY <1>0, <2>1, <2>2 DEF Listed, Shape
  <2>5. Listed(applied)'
    <3>1. ASSUME NEW i \in DOMAIN applied'
          PROVE  /\ applied'[i].bar \in applied'[i].answer
                 /\ applied'[i].answer \subseteq published'
      <4>1. i \in DOMAIN applied \/ i = Len(applied) + 1
        BY <1>0, <2>3, SMT
      <4> QED
        BY <1>0, <2>1, <2>2, <2>3, <4>1 DEF Shape, Listed
    <3> QED
      BY <2>3, <3>1 DEF Listed
  <2>6. Len(applied) < MaxTicks
    BY <1>4 DEF Execute, Inv, Control, Over
  <2>7. /\ Len(applied') <= MaxTicks
        /\ 0 .. Len(applied) \subseteq 0 .. Len(applied')
    BY <1>0, <2>3, <2>6, PaperRunAssumption, SMT
  <2> QED
    BY <1>0, <1>4, <2>4, <2>5, <2>7 DEF Execute, Shape
<1>5. CASE Ending
  <2> PICK how \in Ends :
        /\ Finish(how)
        /\ how = "interrupted" /\ Flushes => partial = Len(applied)
    BY <1>5 DEF Ending
  <2>1. /\ Over' /\ outcome' = how /\ files' = files /\ todo' \in Seq(FileNames)
        /\ count' = None \/ count' \in 0 .. Len(applied)
    BY <1>5, FinishEffect DEF Ending
  <2>2. phase' \in {"write", "over"} /\ outcome' \in Outcomes
    BY <2>1 DEF Over, Outcomes, Ends
  <2>3. partial' \in 0 .. Len(applied)
    <3>1. partial' \in {partial, Len(applied), 0} /\ partial \in 0 .. Len(applied)
      BY <1>0, <1>5 DEF Ending, Shape
    <3> QED
      BY <1>0, <3>1, SMT
  <2> QED
    BY <1>0, <1>5, <2>1, <2>2, <2>3 DEF Ending, Shape, Listed
<1>6. CASE Report /\ ~ LastTick
  <2>1. partial' \in 0 .. Len(applied)
    <3>1. partial' \in {Len(applied), 0}
      BY <1>6, GoesOn
    <3> QED
      BY <1>0, <3>1, SMT
  <2> QED
    BY <1>0, <1>6, <2>1, GoesOn DEF Shape, Listed
<1>7. CASE WriteFile
  <2>1. /\ files' = [files EXCEPT ![Head(todo)] = "new"] /\ todo' = Tail(todo)
        /\ phase' \in {"over", "write"} /\ phase = "write"
    BY <1>7 DEF WriteFile
  <2>2. todo # <<>> /\ todo \in Seq(FileNames) /\ files \in [FileNames -> Ages]
    BY <1>0, <2>1 DEF Inv, BundleInv, Shape
  <2>3. todo' \in Seq(FileNames)
    BY <2>1, <2>2, Beheaded
  <2>4. files' \in [FileNames -> Ages]
    BY <2>1, <2>2 DEF Ages
  <2> QED
    BY <1>0, <1>7, <2>1, <2>3, <2>4 DEF WriteFile, Shape, Listed
<1>8. CASE Crash
  <2>1. <<>> \in Seq(FileNames)
    BY EmptySeq
  <2> QED
    BY <1>0, <1>8, <2>1 DEF Crash, Shape, Listed, Outcomes
<1>9. CASE Rest \/ Wake \/ Interrupt \/ Done
  BY <1>0, <1>9 DEF Rest, Wake, Interrupt, Done, vars, Shape, Listed
<1> QED
  BY <1>1, <1>2, <1>3, <1>4, <1>5, <1>6, <1>7, <1>8, <1>9, EndingSteps DEF Next

LEMMA ControlStep ==
  ASSUME Inv, Next
  PROVE  Control'
<1> USE DEF stream, session, disk
<1>0. Control /\ Shape /\ Len(applied) \in Nat
  BY LenProperties DEF Inv, Shape, Listed
<1>1. CASE Publish
  <2>1. ~ (phase \in {"hand", "report"}) => fresh' = fresh
    BY <1>1 DEF Publish
  <2> QED
    BY <1>0, <1>1, <2>1 DEF Publish, Control, Over, Flushes
<1>2. CASE Connect
  <2>1. published # None
    BY <1>0, PaperRunAssumption DEF Shape
  <2> QED
    BY <1>0, <1>2, <2>1 DEF Connect, Control, Over, Flushes
<1>3. CASE Answer
  <2>1. Visible \in SUBSET Bars
    BY <1>0 DEF Visible, Shape
  <2>2. seed' # None
    BY <1>3, <2>1, PaperRunAssumption DEF Answer
  <2> QED
    BY <1>0, <1>3, <2>2 DEF Answer, Control, Over, Flushes
<1>4. CASE Execute
  BY <1>0, <1>4 DEF Execute, Control, Over, Flushes
<1>5. CASE Ending
  <2> PICK how \in Ends :
        /\ Finish(how)
        /\ how = "interrupted" /\ Flushes => partial = Len(applied)
    BY <1>5 DEF Ending
  <2>1. Over' /\ outcome' = how
    BY <1>5, FinishEffect DEF Ending
  <2> QED
    BY <1>0, <1>5, <2>1 DEF Ending, Ends, Control, Over
<1>6. CASE Report /\ ~ LastTick
  <2>1. phase = "report" /\ phase' = "hand"
    BY <1>6, GoesOn DEF Report
  <2>2. Len(applied) < MaxTicks
    BY <1>0, <1>6, PaperRunAssumption, SMT DEF LastTick
  <2> QED
    BY <1>0, <1>6, <2>1, <2>2, GoesOn DEF Control, Over, Flushes
<1>7. CASE WriteFile
  BY <1>0, <1>7 DEF WriteFile, Control, Over
<1>8. CASE Crash
  BY <1>0, <1>8 DEF Crash, Control, Over
<1>9. CASE Rest \/ Wake \/ Interrupt \/ Done
  BY <1>0, <1>9 DEF Rest, Wake, Interrupt, Done, vars, Control, Over, Flushes
<1> QED
  BY <1>1, <1>2, <1>3, <1>4, <1>5, <1>6, <1>7, <1>8, <1>9, EndingSteps DEF Next

\* A bar that closes is later than all there are, on the websocket, and in no
\* answer there is.
LEMMA PublishKeepsFeed ==
  ASSUME Inv, Publish
  PROVE  FeedInv'
<1> USE DEF session
<1>0. Shape /\ FeedInv /\ fresh \in Seq(Entry)
  BY DEF Inv, Shape, Listed
<1>1. UNCHANGED <<source, seed, seen, applied>>
  BY DEF Publish
<1>2. CASE fresh' = fresh
  BY <1>0, <1>1, <1>2 DEF FeedInv, InvertedOnlyIfLate
<1>3. CASE fresh' # fresh
  <2> PICK b \in Bars \ published :
        /\ source = "binance" /\ (\A c \in published : c < b)
        /\ fresh' = Append(fresh, [bar |-> b, answer |-> published'])
        /\ published' = published \cup {b}
    BY <1>3 DEF Publish
  <2>1. published' \subseteq Bars
    BY <1>0 DEF Shape
  <2> DEFINE e == [bar |-> b, answer |-> published']
  <2>2. e \in Entry /\ e.bar = b
    BY <2>1 DEF Entry
  <2> HIDE DEF e
  <2>3. fresh' = Append(fresh, e)
    BY DEF e
  <2>4. /\ DOMAIN fresh = 1 .. Len(fresh) /\ DOMAIN fresh' = 1 .. Len(fresh) + 1
        /\ Len(fresh) \in Nat
        /\ \A i \in DOMAIN fresh : fresh'[i] = fresh[i]
        /\ fresh'[Len(fresh) + 1].bar = b
    BY <1>0, <2>2, <2>3, Appended
  <2>5. /\ \A i \in DOMAIN fresh : fresh[i].bar \in published
        /\ \A i \in DOMAIN applied :
             applied[i].bar \in published /\ applied[i].answer \subseteq published
    BY <1>0 DEF Shape, Listed
  <2>6. seed # None => b \notin seed
    BY <1>0 DEF Shape
  <2>7. \A i \in DOMAIN fresh' : i \in DOMAIN fresh \/ i = Len(fresh) + 1
    BY <2>4, SMT
  <2>8. ASSUME NEW i \in DOMAIN fresh', NEW j \in DOMAIN fresh', i < j
        PROVE  fresh'[i].bar < fresh'[j].bar
    <3>1. i \in DOMAIN fresh
      BY <2>4, <2>8, SMT
    <3>2. CASE j \in DOMAIN fresh
      BY <1>0, <2>4, <2>8, <3>1, <3>2 DEF FeedInv
    <3>3. CASE j = Len(fresh) + 1
      BY <2>4, <2>5, <3>1, <3>3
    <3> QED
      BY <2>7, <3>2, <3>3
  <2>9. seed' # None => \A i \in DOMAIN fresh' : fresh'[i].bar \notin seed'
    BY <1>0, <1>1, <2>4, <2>6, <2>7 DEF FeedInv
  <2>10. ASSUME NEW k \in DOMAIN applied, NEW j \in DOMAIN fresh'
         PROVE  /\ fresh'[j].bar # applied[k].bar
                /\ applied[k].bar > fresh'[j].bar => fresh'[j].bar \notin applied[k].answer
    <3>1. CASE j \in DOMAIN fresh
      BY <1>0, <2>4, <3>1 DEF FeedInv
    <3>2. CASE j = Len(fresh) + 1
      BY <2>4, <2>5, <3>2
    <3> QED
      BY <2>7, <3>1, <3>2
  <2>11. source' # "alphavantage" /\ InvertedOnlyIfLate'
    BY <1>0, <1>1 DEF FeedInv, InvertedOnlyIfLate
  <2> QED
    BY <1>1, <2>8, <2>9, <2>10, <2>11 DEF FeedInv
<1> QED
  BY <1>2, <1>3

\* An answer is searched for what no answer before had.
LEMMA AnswerKeepsFeed ==
  ASSUME Inv, Answer
  PROVE  FeedInv'
<1>0. Shape /\ FeedInv /\ source = "alphavantage"
  BY DEF Inv, Answer
<1>1. /\ UNCHANGED <<source, applied>> /\ seen' = seen \cup Visible
      /\ seed' = IF seed = None THEN Visible ELSE seed
      /\ fresh' = IF seed = None THEN <<>> ELSE SelectNew(Visible)
  BY DEF Answer, session
<1>2. Visible \subseteq published
  BY DEF Visible
<1>3. InvertedOnlyIfLate'
  BY <1>0, <1>1 DEF FeedInv, InvertedOnlyIfLate
<1>4. \A i \in DOMAIN applied' : applied'[i].answer \subseteq seen'
  BY <1>0, <1>1 DEF FeedInv
<1>5. CASE seed = None
  <2>1. DOMAIN fresh' = {}
    BY <1>1, <1>5, SMT
  <2> QED
    BY <1>0, <1>1, <1>3, <1>4, <1>5, <2>1 DEF FeedInv
<1>6. CASE seed # None
  <2>1. fresh' = SelectNew(Visible) /\ seed' = seed /\ seed \subseteq seen
    BY <1>0, <1>1, <1>6 DEF FeedInv
  <2>2. /\ \A i \in DOMAIN fresh' :
             fresh'[i].bar \in Visible \ seen /\ fresh'[i].answer = Visible
        /\ \A i, j \in DOMAIN fresh' : i < j => fresh'[i].bar < fresh'[j].bar
    BY <1>0, <1>2, <2>1, SelectNewFacts
  <2>3. \A k \in DOMAIN applied :
          applied[k].answer \subseteq seen /\ applied[k].bar \in seen
    BY <1>0 DEF FeedInv, Shape, Listed
  <2>4. ASSUME NEW k \in DOMAIN applied', NEW j \in DOMAIN fresh'
        PROVE  /\ fresh'[j].bar # applied'[k].bar
               /\ fresh'[j].bar \notin applied'[k].answer
    BY <1>1, <2>2, <2>3
  <2>5. seed' # None => seed' \subseteq seen' /\ \A i \in DOMAIN fresh' : fresh'[i].bar \notin seed'
    BY <1>1, <2>1, <2>2
  <2>6. \A i \in DOMAIN fresh' : fresh'[i].answer \subseteq seen'
    BY <1>1, <2>2
  <2> QED
    BY <1>3, <1>4, <2>2, <2>4, <2>5, <2>6 DEF FeedInv
<1> QED
  BY <1>5, <1>6

\* What is executed next is later than all that came from its answer.
LEMMA ExecuteKeepsFeed ==
  ASSUME Inv, Execute
  PROVE  FeedInv'
<1>0. /\ Shape /\ FeedInv /\ fresh \in Seq(Entry) /\ applied \in Seq(Entry)
  BY DEF Inv, Shape, Listed
<1>1. /\ fresh # <<>> /\ applied' = Append(applied, Head(fresh)) /\ fresh' = Tail(fresh)
      /\ UNCHANGED <<source, seed, seen>>
  BY DEF Execute
<1>2. /\ Head(fresh) = fresh[1] /\ Head(fresh) \in Entry /\ 1 \in DOMAIN fresh
      /\ DOMAIN fresh = 1 .. Len(fresh)
      /\ \A i \in DOMAIN fresh' :
           i \in Nat /\ i + 1 \in DOMAIN fresh /\ fresh'[i] = fresh[i + 1]
  BY <1>0, <1>1, Beheaded
<1>3. /\ Len(applied) \in Nat
      /\ DOMAIN applied = 1 .. Len(applied) /\ DOMAIN applied' = 1 .. Len(applied) + 1
      /\ \A i \in DOMAIN applied : applied'[i] = applied[i]
      /\ applied'[Len(applied) + 1] = fresh[1]
  BY <1>0, <1>1, <1>2, Appended
<1>4. \A i \in DOMAIN applied' : i \in DOMAIN applied \/ i = Len(applied) + 1
  BY <1>3, SMT
<1>5. source = "alphavantage" =>
        /\ seed # None => seed \subseteq seen
        /\ \A i \in DOMAIN fresh' : fresh'[i].answer \subseteq seen
        /\ \A i \in DOMAIN applied' : applied'[i].answer \subseteq seen
  BY <1>0, <1>2, <1>3, <1>4 DEF FeedInv
<1>6. ASSUME NEW i \in DOMAIN fresh', NEW j \in DOMAIN fresh', i < j
      PROVE  fresh'[i].bar < fresh'[j].bar
  <2>1. i + 1 < j + 1
    BY <1>2, <1>6, SMT
  <2> QED
    BY <1>0, <1>2, <2>1 DEF FeedInv
<1>7. seed # None => \A i \in DOMAIN fresh' : fresh'[i].bar \notin seed
  BY <1>0, <1>2 DEF FeedInv
<1>8. ASSUME NEW k \in DOMAIN applied', NEW j \in DOMAIN fresh'
      PROVE  /\ fresh'[j].bar # applied'[k].bar
             /\ applied'[k].bar > fresh'[j].bar => fresh'[j].bar \notin applied'[k].answer
  <2>1. CASE k \in DOMAIN applied
    BY <1>0, <1>2, <1>3, <2>1 DEF FeedInv
  <2>2. CASE k = Len(applied) + 1
    <3>1. j + 1 \in DOMAIN fresh /\ 1 < j + 1
      <4>1. j \in Nat /\ j # 0
        BY <1>2, SMT
      <4> QED
        BY <1>2, <4>1, SMT
    <3>2. fresh[1].bar < fresh[j + 1].bar
      BY <1>0, <1>2, <3>1 DEF FeedInv
    <3>3. fresh[1].bar \in Int /\ fresh[j + 1].bar \in Int
      <4>1. fresh[1] \in Entry /\ fresh[j + 1] \in Entry
        BY <1>0, <1>2, <3>1, ElementOfSeq
      <4>2. fresh[1].bar \in Bars /\ fresh[j + 1].bar \in Bars
        BY <4>1 DEF Entry
      <4>3. Bars \subseteq Int
        BY PaperRunAssumption, SMT
      <4> QED
        BY <4>2, <4>3
    <3>4. fresh'[j] = fresh[j + 1] /\ applied'[k] = fresh[1]
      BY <1>2, <1>3, <2>2
    <3> QED
      BY <3>2, <3>3, <3>4, SMT
  <2> QED
    BY <1>4, <2>1, <2>2
<1>9. InvertedOnlyIfLate'
  <2> SUFFICES ASSUME NEW i \in DOMAIN applied', NEW j \in DOMAIN applied', i < j,
                      applied'[i].bar > applied'[j].bar
               PROVE  applied'[j].bar \notin applied'[i].answer
    BY DEF InvertedOnlyIfLate
  <2>1. i \in DOMAIN applied
    BY <1>3, SMT
  <2>2. CASE j \in DOMAIN applied
    BY <1>0, <1>3, <2>1, <2>2 DEF FeedInv, InvertedOnlyIfLate
  <2>3. CASE j = Len(applied) + 1
    BY <1>0, <1>2, <1>3, <2>1, <2>3 DEF FeedInv
  <2> QED
    BY <1>4, <2>2, <2>3
<1> QED
  BY <1>1, <1>5, <1>6, <1>7, <1>8, <1>9 DEF FeedInv

LEMMA FeedStep ==
  ASSUME Inv, Next
  PROVE  FeedInv'
<1>1. CASE Connect
  <2>1. UNCHANGED <<source, seen, fresh, applied>> /\ source = "binance" /\ seed = None
    BY <1>1 DEF Connect, session, Inv, Control
  <2>2. FeedInv /\ DOMAIN fresh = {}
    BY <2>1, SMT DEF Inv, Control
  <2> QED
    BY <2>1, <2>2 DEF FeedInv, InvertedOnlyIfLate
<1>2. CASE OffFeed
  BY <1>2 DEF OffFeed, Inv, FeedInv, InvertedOnlyIfLate
<1> QED
  BY <1>1, <1>2, PublishKeepsFeed, AnswerKeepsFeed, ExecuteKeepsFeed, OffFeedSteps
     DEF Next

LEMMA BundleStep ==
  ASSUME Inv, Next
  PROVE  BundleInv'
<1> USE DEF stream, session, disk
<1>0. BundleInv /\ Shape /\ (Over <=> outcome # "running")
  BY DEF Inv, Control
<1>1. CASE Ending
  BY <1>1, FinishEffect DEF Ending
<1>2. CASE WriteFile
  <2> DEFINE f == Head(todo)
  <2>1. /\ phase = "write" /\ files' = [files EXCEPT ![f] = "new"] /\ todo' = Tail(todo)
        /\ phase' = IF todo' = <<>> THEN "over" ELSE "write"
        /\ UNCHANGED <<cmd, outcome, count, applied>>
    BY <1>2 DEF WriteFile
  <2>2. /\ outcome \notin {"running", "crashed"} /\ count # None /\ todo # <<>>
        /\ todo \in Seq(FileNames) /\ files \in [FileNames -> Ages]
    BY <1>0, <2>1 DEF BundleInv, Shape, Over
  <2>3. /\ f = todo[1] /\ 1 \in DOMAIN todo /\ f \in FileNames
        /\ DOMAIN todo = 1 .. Len(todo) /\ todo' \in Seq(FileNames)
        /\ \A i \in DOMAIN todo' :
             i \in Nat /\ i + 1 \in DOMAIN todo /\ todo'[i] = todo[i + 1]
        /\ \A i \in DOMAIN todo : i # 1 => i - 1 \in DOMAIN todo' /\ todo'[i - 1] = todo[i]
    BY <2>1, <2>2, Beheaded
  <2> HIDE DEF f
  <2>4. Bundle' = Bundle /\ Flushes' = Flushes
    BY <2>1 DEF Bundle, Flushes
  <2>5. \A g \in ToSet(todo) : g = f \/ g \in ToSet(todo')
    BY <2>3 DEF ToSet
  <2>6. \A g \in FileNames : files'[g] = IF g = f THEN "new" ELSE files[g]
    BY <2>1, <2>2
  <2>7. ToSet(Bundle) \subseteq FileNames
    <3>1. Bundle \in Seq(FileNames)
      BY <1>0, BundleFacts DEF Shape
    <3> QED
      BY <3>1, LenProperties, ElementOfSeq DEF ToSet
  <2>8. \A g \in ToSet(Bundle) : files[g] = "new" \/ g \in ToSet(todo)
    BY <1>0, <2>2 DEF BundleInv
  <2>9. todo' = <<>> => ToSet(todo') = {}
    BY SMT DEF ToSet
  <2>10. \A g \in ToSet(Bundle) : files'[g] = "new" \/ (phase' = "write" /\ g \in ToSet(todo'))
    BY <2>1, <2>5, <2>6, <2>7, <2>8, <2>9
  <2>11. TablesFirst(todo)'
    <3> SUFFICES ASSUME NEW i \in DOMAIN todo', NEW j \in DOMAIN todo',
                        todo'[i] = "manifest", todo'[j] \in {"sim_fills", "equity"}
                 PROVE  j < i
      BY DEF TablesFirst
    <3>1. j + 1 < i + 1
      BY <1>0, <2>3 DEF BundleInv, TablesFirst
    <3> QED
      BY <2>3, <3>1, SMT
  <2>12. files'["manifest"] = "new" => files'["sim_fills"] = "new" /\ files'["equity"] = "new"
    <3>1. {"manifest", "sim_fills", "equity"} \subseteq FileNames
      BY FileNamesAre
    <3>2. CASE f # "manifest"
      BY <1>0, <2>6, <3>1, <3>2 DEF BundleInv
    <3>3. CASE f = "manifest"
      <4>1. {"sim_fills", "equity"} \subseteq ToSet(Bundle)
        BY <1>0, BundleFacts DEF Shape
      <4>2. ASSUME NEW g \in {"sim_fills", "equity"} PROVE g \notin ToSet(todo)
        <5>1. SUFFICES ASSUME NEW j \in DOMAIN todo, todo[j] = g PROVE FALSE
          BY DEF ToSet
        <5>2. j < 1
          BY <1>0, <2>3, <3>3, <5>1 DEF BundleInv, TablesFirst
        <5> QED
          BY <2>3, <5>2, SMT
      <4>3. files["sim_fills"] = "new" /\ files["equity"] = "new"
        BY <2>8, <4>1, <4>2
      <4> QED
        BY <2>6, <3>1, <4>3
    <3> QED
      BY <3>2, <3>3
  <2> QED
    BY <1>0, <2>1, <2>2, <2>4, <2>10, <2>11, <2>12 DEF BundleInv
<1>3. CASE Crash
  <2>1. DOMAIN <<>> = {}
    BY SMT
  <2> QED
    BY <1>0, <1>3, <2>1 DEF Crash, BundleInv, TablesFirst
<1>4. CASE Publish \/ Interrupt \/ Done
  BY <1>0, <1>4 DEF Publish, Interrupt, Done, vars, BundleInv, TablesFirst, Bundle, Flushes
<1>5. CASE Connect \/ Answer \/ Rest \/ Wake \/ Execute \/ (Report /\ ~ LastTick)
  <2>1. outcome' = outcome /\ outcome = "running" /\ UNCHANGED disk
    BY <1>0, <1>5, GoesOn DEF Connect, Answer, Rest, Wake, Execute, Report, Over
  <2>2. phase' # "write"
    BY <1>5, GoesOn DEF Connect, Answer, Rest, Wake, Execute
  <2> QED
    BY <1>0, <2>1, <2>2 DEF BundleInv, TablesFirst
<1> QED
  BY <1>1, <1>2, <1>3, <1>4, <1>5, EndingSteps DEF Next

LEMMA InvHolds == Spec => []Inv
<1>1. Inv /\ [Next]_vars => Inv'
  <2> SUFFICES ASSUME Inv, [Next]_vars PROVE Inv'
    OBVIOUS
  <2>1. CASE UNCHANGED vars
    <3>1. cmd' = cmd /\ UNCHANGED <<applied, phase, outcome, files, todo, count>>
      BY <2>1 DEF vars
    <3>2. Bundle' = Bundle /\ Flushes' = Flushes
      BY <3>1 DEF Bundle, Flushes
    <3>3. BundleInv'
      BY <3>1, <3>2 DEF Inv, BundleInv, TablesFirst
    <3>4. Shape'
      BY <2>1 DEF vars, stream, session, disk, Inv, Shape, Listed
    <3>5. Control'
      BY <2>1 DEF vars, stream, session, disk, Inv, Control, Over, Flushes
    <3>6. FeedInv'
      BY <2>1 DEF vars, stream, session, disk, Inv, FeedInv, InvertedOnlyIfLate
    <3> QED
      BY <3>3, <3>4, <3>5, <3>6 DEF Inv
  <2>2. CASE Next
    BY <2>2, ShapeStep, ControlStep, FeedStep, BundleStep DEF Inv
  <2> QED
    BY <2>1, <2>2
<1> QED
  BY <1>1, StartInv, PTL DEF Spec

-----------------------------------------------------------------------------
(***************************************************************************)
(* What a session may rely on of its feed.                                 *)
(***************************************************************************)
LEMMA FeedStarts == Init => Feed!Init
<1> SUFFICES ASSUME Init PROVE Feed!Init
  OBVIOUS
<1>1. Handed = <<>>
  BY SMT DEF Init, Handed
<1> QED
  BY <1>1 DEF Init, Feed!Init, Over

LEMMA FeedHands ==
  ASSUME Inv, Execute
  PROVE  Feed!Hand
<1>0. /\ fresh \in Seq(Entry) /\ applied \in Seq(Entry) /\ seed # None /\ ~ Over
      /\ fresh # <<>> /\ applied' = Append(applied, Head(fresh))
      /\ seed' = seed /\ phase' = "report"
  BY DEF Inv, Shape, Listed, Control, Execute, Over
<1>1. Head(fresh) = fresh[1] /\ Head(fresh) \in Entry /\ 1 \in DOMAIN fresh
  BY <1>0, Beheaded
<1>2. /\ Len(applied) \in Nat
      /\ DOMAIN applied = 1 .. Len(applied) /\ DOMAIN applied' = 1 .. Len(applied) + 1
      /\ \A i \in DOMAIN applied : applied'[i] = applied[i] /\ applied[i] \in Entry
      /\ applied'[Len(applied) + 1] = fresh[1]
  BY <1>0, <1>1, Appended, ElementOfSeq
<1>3. fresh[1].bar \in Bars /\ fresh[1].bar \notin seed
  BY <1>0, <1>1 DEF Inv, FeedInv, Entry
<1>4. fresh[1].bar \notin ToSet(Handed)
  BY <1>1 DEF Inv, FeedInv, ToSet, Handed
<1>5. Handed' = Append(Handed, fresh[1].bar)
  <2>1. Handed \in [1 .. Len(applied) -> Bars]
    BY <1>2 DEF Handed, Entry
  <2>2. Handed \in Seq(Bars) /\ Len(Handed) = Len(applied)
    BY <1>2, <2>1, SMT
  <2> DEFINE r == Append(Handed, fresh[1].bar)
  <2>3. /\ r \in Seq(Bars) /\ Len(r) = Len(applied) + 1
        /\ \A i \in DOMAIN applied : r[i] = applied[i].bar
        /\ r[Len(applied) + 1] = fresh[1].bar
    BY <1>2, <1>3, <2>2, Appended DEF Handed
  <2> HIDE DEF r
  <2>4. Handed' = [i \in 1 .. Len(applied) + 1 |-> applied'[i].bar]
    BY <1>2 DEF Handed
  <2>5. ASSUME NEW i \in 1 .. Len(applied) + 1 PROVE applied'[i].bar = r[i]
    <3>1. i \in DOMAIN applied \/ i = Len(applied) + 1
      BY <1>2, SMT
    <3> QED
      BY <1>2, <2>3, <3>1
  <2>6. r = [i \in 1 .. Len(applied) + 1 |-> r[i]]
    BY <2>3, LenProperties
  <2>7. Handed' = r
    BY <2>4, <2>5, <2>6
  <2> QED
    BY <2>7 DEF r
<1>6. Over' = Over
  BY DEF Execute, Over
<1> QED
  BY <1>0, <1>3, <1>4, <1>5, <1>6 DEF Feed!Hand, Feed!ToSet, ToSet

LEMMA FeedSteps ==
  ASSUME Inv, [Next]_vars
  PROVE  [Feed!Next]_Feed!feed
<1> USE DEF stream, session, disk
<1>0. Shape
  BY DEF Inv
<1>1. CASE Execute
  BY <1>1, FeedHands DEF Feed!Next
<1>2. CASE Connect
  <2>1. seed = None /\ seed' \in SUBSET Bars /\ ~ Over /\ applied' = applied
    BY <1>0, <1>2 DEF Connect, Inv, Control, Shape, Over
  <2>2. Over' = Over
    BY <1>2 DEF Connect, Over
  <2>3. Feed!Start
    BY <2>1, <2>2 DEF Feed!Start, Handed
  <2> QED
    BY <2>3 DEF Feed!Next
<1>3. CASE Answer
  <2>1. Visible \in SUBSET Bars /\ ~ Over /\ applied' = applied
        /\ seed' = IF seed = None THEN Visible ELSE seed
    BY <1>0, <1>3 DEF Answer, Visible, Shape, Over
  <2>2. Over' = Over
    BY <1>3 DEF Answer, Over
  <2>3. CASE seed = None
    <3>1. Feed!Start
      BY <2>1, <2>2, <2>3 DEF Feed!Start, Handed
    <3> QED
      BY <3>1 DEF Feed!Next
  <2>4. CASE seed # None
    BY <2>1, <2>2, <2>4 DEF Feed!feed, Handed
  <2> QED
    BY <2>3, <2>4
<1>4. CASE Ending
  <2>1. Over'
    BY <1>4, FinishEffect DEF Ending
  <2>2. ~ Over /\ seed' = seed /\ applied' = applied
    BY <1>4 DEF Ending
  <2>3. Feed!End
    BY <2>1, <2>2 DEF Feed!End, Handed
  <2> QED
    BY <2>3 DEF Feed!Next
<1>5. CASE Crash
  <2>1. Over' /\ seed' = seed /\ applied' = applied
    BY <1>5 DEF Crash, Over
  <2>2. CASE Over
    BY <2>1, <2>2 DEF Feed!feed, Handed
  <2>3. CASE ~ Over
    <3>1. Feed!End
      BY <2>1, <2>3 DEF Feed!End, Handed
    <3> QED
      BY <3>1 DEF Feed!Next
  <2> QED
    BY <2>2, <2>3
<1>6. CASE UNCHANGED vars \/ Publish \/ Rest \/ Wake \/ Interrupt \/ WriteFile \/ Done
           \/ (Report /\ ~ LastTick)
  <2>1. seed' = seed /\ applied' = applied
    BY <1>6, GoesOn DEF vars, Publish, Rest, Wake, Interrupt, WriteFile, Done
  <2>2. Over' = Over
    BY <1>6, GoesOn DEF vars, Publish, Rest, Wake, Interrupt, WriteFile, Done, Report, Over
  <2> QED
    BY <2>1, <2>2 DEF Feed!feed, Handed
<1> QED
  BY <1>1, <1>2, <1>3, <1>4, <1>5, <1>6, EndingSteps DEF Next

-----------------------------------------------------------------------------
\* The state keeps its shape; in particular no session executes more bars than
\* its max_ticks (paper/session.py).
THEOREM TypeCorrect == Spec => []TypeOK
<1>1. Inv => TypeOK
  BY ShapeTypes DEF Inv
<1> QED
  BY <1>1, InvHolds, PTL

\* Polls and websocket implement the feed a session relies on: no bar from
\* before the start is traded, and none is traded twice, however often the
\* vendor's windows overlap and whatever it publishes late.
THEOREM FeedIsKept == Spec => ImplementsTickFeed
<1> DEFINE safe == Feed!Init /\ [][Feed!Next]_Feed!feed
<1>1. Inv /\ [Next]_vars => [Feed!Next]_Feed!feed
  BY FeedSteps
<1> QED
  BY <1>1, InvHolds, FeedStarts, PTL DEF Spec, ImplementsTickFeed, Feed!Spec

\* Executed bars are out of order only where the vendor published one late.
THEOREM OrderIsTheVendors == Spec => []InvertedOnlyIfLate
<1>1. Inv => InvertedOnlyIfLate
  BY DEF Inv, FeedInv
<1> QED
  BY <1>1, InvHolds, PTL

\* A run that ended by itself, and a paper run that was interrupted once, leave
\* a bundle of everything they executed.
THEOREM EndedRunsAreKept == Spec => []EndedRunIsKept
<1>1. Inv => EndedRunIsKept
  <2> SUFFICES ASSUME Inv, phase = "over", applied # <<>>,
                      outcome = "complete" \/ (outcome = "interrupted" /\ Flushes)
               PROVE  /\ files["manifest"] = "new" /\ files["sim_fills"] = "new"
                      /\ count = Len(applied)
    BY DEF EndedRunIsKept
  <2>1. count = Len(applied) /\ Len(applied) \in Nat
    BY LenProperties DEF Inv, Shape, Listed, BundleInv
  <2>2. count # None
    BY <2>1, NoneAssumption, SMT
  <2>3. {"manifest", "sim_fills"} \subseteq ToSet(Bundle)
    BY BundleFacts DEF Inv, Shape
  <2> QED
    BY <2>1, <2>2, <2>3 DEF Inv, BundleInv
<1> QED
  BY <1>1, InvHolds, PTL

\* Wherever a writer is stopped, a new manifest is next to the new tables.
THEOREM TablesBeforeManifest == Spec => []ManifestIsLast
<1>1. Inv => ManifestIsLast
  BY DEF Inv, BundleInv, ManifestIsLast
<1> QED
  BY <1>1, InvHolds, PTL
=============================================================================
