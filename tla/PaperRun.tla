------------------------------ MODULE PaperRun ------------------------------
(***************************************************************************)
(* A session from its feed to its files: the Alpha Vantage poll or the     *)
(* Binance websocket, the loop that hands bars to the backend, the ends of *)
(* the commands that run it, and the bundle each of them writes.           *)
(*                                                                         *)
(* What a bar does to the portfolio is LiveDry and Backends; here a bar is *)
(* its event time.  A vendor may publish a bar after later ones, and a     *)
(* poll answers with its Window latest bars.  SIGINT cancels the main task *)
(* at its next await; a second one is raised where the program stands.     *)
(***************************************************************************)
EXTENDS Builtins, RunFiles

CONSTANTS
  Bars,         \* event times of the bars that may close
  Window,       \* bars of a compact answer
  MaxTicks      \* max_ticks of the session

ASSUME PaperRunAssumption ==
  /\ Bars \subseteq Nat
  /\ Window \in Nat \ {0} /\ MaxTicks \in Nat \ {0}
  /\ \A B \in SUBSET Bars : B # None

VARIABLES
  cmd, source,  \* the command, and the feed it was given
  published,    \* bars the vendor has published
  seed,         \* bars of the first answer (None: no answer yet)
  seen,         \* event times the stream will not yield again
  fresh,        \* bars still to be yielded, each with the answer it is from
  applied,      \* bars the backend has executed
  killed,       \* the backend's kill, looked at after the callback
  partial,      \* ticks of the _partial record that a flush relies on
  phase, outcome, sigint,
  files, todo, count    \* the directory, the files left, ticks of the manifest

vars == <<cmd, source, published, seed, seen, fresh, applied, killed, partial,
          phase, outcome, sigint, files, todo, count>>
stream  == <<published, seed, seen, fresh>>
session == <<applied, killed, partial>>
disk    == <<files, todo, count>>

Dashboards == {"dashboard", "rehearsal dashboard"}
Commands   == {"paper", "rehearsal", "live"} \cup Dashboards
Outcomes == {"running", "complete", "interrupted", "aborted", "failed", "crashed"}

Init ==
  /\ cmd \in Commands
  /\ source \in IF cmd = "live" THEN {"alphavantage"} ELSE {"alphavantage", "binance"}
  /\ published = {} /\ seed = None /\ seen = {} /\ fresh = <<>>
  /\ applied = <<>> /\ killed = FALSE /\ partial = 0
  /\ phase = "fetch" /\ outcome = "running" /\ sigint = FALSE
  /\ files \in {NoFiles, [f \in FileNames |-> "old"]}
  /\ todo = <<>> /\ count = None

Over == phase \in {"write", "over"}

-----------------------------------------------------------------------------
(* The feeds.                                                              *)

\* A compact answer: the Window latest of the published bars.
Visible ==
  IF source = "binance" THEN published
  ELSE {b \in published : Cardinality({c \in published : c > b}) < Window}

\* Fault: in the order of the vendor's table, latest first.
SelectNewAsListed(bars) ==
  LET new == Reverse(InOrder(bars \ seen))
  IN  [i \in DOMAIN new |-> [bar |-> new[i], answer |-> bars]]

SelectNew(bars) ==
  LET new == InOrder(bars \ seen)
  IN  [i \in DOMAIN new |-> [bar |-> new[i], answer |-> bars]]

\* A bar closes.  A kline is pushed while the websocket is open; Alpha Vantage
\* publishes in any order and waits to be asked.
Publish ==
  /\ \E b \in Bars \ published :
       /\ source = "binance" => \A c \in published : c < b
       /\ published' = published \cup {b}
       /\ fresh' = IF source = "binance" /\ phase \in {"hand", "report"}
                   THEN Append(fresh, [bar |-> b, answer |-> published'])
                   ELSE fresh
  /\ UNCHANGED <<cmd, source, seed, seen, phase, outcome, sigint, session, disk>>

Connect ==
  /\ phase = "fetch" /\ source = "binance"
  /\ seed' = published
  /\ phase' = "hand"
  /\ UNCHANGED <<cmd, source, published, seen, fresh, outcome, sigint, session, disk>>

\* Fault: every answer seeds.
AnswerSeeds ==
  /\ phase = "fetch" /\ source = "alphavantage" /\ Visible # {}
  /\ seed' = IF seed = None THEN Visible ELSE seed
  /\ seen' = Visible
  /\ fresh' = <<>>
  /\ phase' = "hand"
  /\ UNCHANGED <<cmd, source, published, outcome, sigint, session, disk>>

\* Fault: what was yielded is not remembered.
AnswerForgets ==
  /\ phase = "fetch" /\ source = "alphavantage" /\ Visible # {}
  /\ seed' = IF seed = None THEN Visible ELSE seed
  /\ seen' = seed'
  /\ fresh' = IF seed = None THEN <<>> ELSE SelectNew(Visible)
  /\ phase' = "hand"
  /\ UNCHANGED <<cmd, source, published, outcome, sigint, session, disk>>

\* The first answer seeds, the others are searched for unseen bars.  An answer
\* without a series is an error (Fail).
Answer ==
  /\ phase = "fetch" /\ source = "alphavantage" /\ Visible # {}
  /\ seed' = IF seed = None THEN Visible ELSE seed
  /\ seen' = seen \cup Visible
  /\ fresh' = IF seed = None THEN <<>> ELSE SelectNew(Visible)
  /\ phase' = "hand"
  /\ UNCHANGED <<cmd, source, published, outcome, sigint, session, disk>>

Rest ==
  /\ phase = "hand" /\ fresh = <<>> /\ source = "alphavantage"
  /\ phase' = "sleep"
  /\ UNCHANGED <<cmd, source, outcome, sigint, stream, session, disk>>

Wake ==
  /\ phase = "sleep"
  /\ phase' = "fetch"
  /\ UNCHANGED <<cmd, source, outcome, sigint, stream, session, disk>>

-----------------------------------------------------------------------------
(* The ends of a command, and the files it writes then.                    *)

\* The commands with an on_tick of their own that flush on KeyboardInterrupt.
Flushes == cmd \in {"paper", "rehearsal"}

\* Fault: an interrupt writes nothing.
FlushedNever(how) == IF how = "complete" THEN Len(applied) ELSE None

\* Ticks of the manifest, None where no bundle is written: an error writes
\* none, and an interrupt only by the paper commands, from the _partial record.
Flushed(how) ==
  CASE how = "complete" -> Len(applied)
    [] how \in {"interrupted", "aborted"} /\ Flushes /\ partial > 0 -> partial
    [] OTHER -> None

Bundle ==
  CASE cmd = "live"                                  -> LiveFiles
    [] cmd \in {"rehearsal", "rehearsal dashboard"} -> RehearsalFiles
    [] OTHER                                         -> SessionFiles

Finish(how) ==
  /\ outcome' = how
  /\ count' = Flushed(how)
  /\ todo' = IF count' = None THEN <<>> ELSE Bundle
  /\ phase' = IF count' = None THEN "over" ELSE "write"
  /\ UNCHANGED files

WriteFile ==
  /\ phase = "write"
  /\ files' = [files EXCEPT ![Head(todo)] = "new"]
  /\ todo' = Tail(todo)
  /\ phase' = IF todo' = <<>> THEN "over" ELSE "write"
  /\ UNCHANGED <<cmd, source, outcome, sigint, count, stream, session>>

\* The process ends where it stands, or a file cannot be written.
Crash ==
  /\ phase # "over"
  /\ outcome' = "crashed" /\ phase' = "over" /\ todo' = <<>>
  /\ UNCHANGED <<cmd, source, sigint, files, count, stream, session>>

-----------------------------------------------------------------------------
(* The loop of run_paper_session_tracked and run_live_equities_session.    *)

Execute ==
  /\ phase = "hand" /\ fresh # <<>>
  /\ applied' = Append(applied, Head(fresh))
  /\ fresh' = Tail(fresh)
  /\ killed' \in BOOLEAN
  /\ phase' = "report"
  /\ UNCHANGED <<cmd, source, published, seed, seen, partial, outcome, sigint, disk>>

\* Fault: one tick more than max_ticks.
LastTickLate == killed \/ Len(applied) > MaxTicks

LastTick == killed \/ Len(applied) >= MaxTicks

\* The callback keeps the state, and only then is the loop's end looked at.
Report ==
  /\ phase = "report"
  /\ partial' = IF Flushes THEN Len(applied) ELSE 0
  /\ IF LastTick THEN Finish("complete")
     ELSE phase' = "hand" /\ UNCHANGED <<outcome, disk>>
  /\ UNCHANGED <<cmd, source, sigint, applied, killed, stream>>

Awaiting ==
  \/ phase \in {"fetch", "sleep"}
  \/ phase = "hand" /\ fresh = <<>> /\ source = "binance"

\* The websocket is closed with a close frame: the stream just ends.
StreamEnds ==
  /\ phase = "hand" /\ fresh = <<>> /\ source = "binance"
  /\ Finish("complete")
  /\ UNCHANGED <<cmd, source, sigint, stream, session>>

\* A request, the connection, or the tick's own code raises.
Fail ==
  /\ phase = "fetch" \/ (phase = "hand" /\ (source = "binance" \/ fresh # <<>>))
  /\ Finish("failed")
  /\ UNCHANGED <<cmd, source, sigint, stream, session>>

Interrupt ==
  /\ outcome = "running" /\ ~ sigint
  /\ sigint' = TRUE
  /\ UNCHANGED <<cmd, source, phase, outcome, stream, session, disk>>

Cancelled ==
  /\ sigint /\ outcome = "running" /\ Awaiting
  /\ Finish("interrupted")
  /\ UNCHANGED <<cmd, source, sigint, stream, session>>

InterruptAgain ==
  /\ sigint /\ outcome = "running"
  /\ Finish("aborted")
  /\ UNCHANGED <<cmd, source, sigint, stream, session>>

Done == phase = "over" /\ UNCHANGED vars

Next ==
  \/ Publish \/ Connect \/ Answer \/ Rest \/ Wake
  \/ Execute \/ Report \/ StreamEnds \/ Fail
  \/ Interrupt \/ Cancelled \/ InterruptAgain
  \/ WriteFile \/ Crash \/ Done

\* The event loop runs what is ready, and a request has a timeout of 60 s.
\* Nothing is assumed of the vendor, of the user or of the disk.
Fairness ==
  /\ WF_vars(Connect) /\ WF_vars(Answer) /\ WF_vars(Rest) /\ WF_vars(Wake)
  /\ WF_vars(Execute) /\ WF_vars(Report) /\ WF_vars(Cancelled)
  /\ WF_vars(WriteFile)

Spec == Init /\ [][Next]_vars /\ Fairness
-----------------------------------------------------------------------------
(* Properties.                                                             *)

Handed == [i \in DOMAIN applied |-> applied[i].bar]

\* Well-typed state; a session never executes more than max_ticks bars.
TypeOK ==
  /\ cmd \in Commands /\ source \in {"alphavantage", "binance"}
  /\ published \subseteq Bars /\ seen \subseteq published
  /\ seed = None \/ seed \subseteq published
  /\ \A f \in ToSet(fresh) \cup ToSet(applied) :
       f.bar \in f.answer /\ f.answer \subseteq published
  /\ Len(applied) <= MaxTicks /\ partial \in 0 .. Len(applied)
  /\ killed \in BOOLEAN /\ sigint \in BOOLEAN /\ outcome \in Outcomes
  /\ phase \in {"fetch", "hand", "report", "sleep", "write", "over"}
  /\ files \in [FileNames -> Ages]
  /\ count = None \/ count \in 0 .. Len(applied)

Feed == INSTANCE TickFeed WITH barred <- seed, handed <- Handed, over <- Over

\* The polls and the websocket both implement the feed a session relies on:
\* no bar of before the start is traded and none is traded twice, whatever
\* the vendor publishes late and however often the windows overlap.
ImplementsTickFeed == Feed!Spec

\* Bars are executed out of order only when the vendor published the earlier
\* one too late for the answer that the later one came from.
InvertedOnlyIfLate ==
  \A i, j \in DOMAIN applied :
    i < j /\ applied[i].bar > applied[j].bar => applied[j].bar \notin applied[i].answer

\* Every published bar is traded, unless it was there at the start, slides
\* out of the vendor's window before a poll sees it, or the session ends.
EveryBarTraded ==
  \A b \in Bars :
    b \in published ~>
      \/ b \in ToSet(Handed)
      \/ seed # None /\ b \in seed
      \/ b \notin Visible
      \/ Over

\* A run that ended by itself leaves a bundle of everything it executed, and so
\* does a paper run that was interrupted once: nothing is executed between the
\* record that is flushed and the interrupt that flushes it.
EndedRunIsKept ==
  /\ phase = "over" /\ applied # <<>>
  /\ outcome = "complete" \/ (outcome = "interrupted" /\ Flushes)
  => /\ files["manifest"] = "new" /\ files["sim_fills"] = "new"
     /\ count = Len(applied)

\* The manifest of a run is never found next to the tables of an older run of
\* that name, wherever a writer was stopped: a directory that loads with a new
\* manifest is the new run.
ManifestIsLast ==
  Loads(files) /\ files["manifest"] = "new" =>
    files["sim_fills"] = "new" /\ files["equity"] = "new"

\* "interrupted -- flushing paper run bundle" (cli/legacy.py): a dashboard session
\* that is interrupted after it executed bars leaves a manifest.
InterruptFlushes ==
  phase = "over" /\ outcome = "interrupted" /\ cmd \in Dashboards /\ applied # <<>> =>
    files["manifest"] = "new"
=============================================================================
