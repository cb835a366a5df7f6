------------------------------ MODULE RunFiles ------------------------------
(***************************************************************************)
(* The files of a run under data/runs/<run_id>/, in the order in which the *)
(* writers store them, and what a reader makes of a directory.  A run id   *)
(* may be given on the command line, and writers create the directory with *)
(* exist_ok, so that a file may be there from an older run of that name.   *)
(***************************************************************************)
EXTENDS Sequences, SequencesExt

Ages == {"none", "old", "new"}

\* Fault: the manifest first, the tables after it.
SessionFilesEagerly ==
  <<"manifest", "paper_manifest", "sim_fills", "equity">>

SessionFiles == <<"sim_fills", "equity", "manifest", "paper_manifest">>

\* --mode live_dry_run adds the broker's log.
RehearsalFiles == Append(SessionFiles, "order_log")

LiveFiles == RehearsalFiles \o <<"order_book">>

\* Fault: the manifest first, the tables after it.
BacktestFilesEagerly == <<"manifest", "equity", "fills", "metrics">>

BacktestFiles == <<"fills", "equity", "manifest", "metrics">>

ReplayFiles == <<"sim_fills", "equity", "manifest">>

\* The reader of backtest runs insists on a manifest and an equity curve.
Loads(files) == files["manifest"] # "none" /\ files["equity"] # "none"

\* What the bundles of backtests and replays are made of.
TableNames == ToSet(BacktestFiles) \cup ToSet(ReplayFiles)

FileNames == ToSet(LiveFiles)
NoFiles   == [f \in FileNames |-> "none"]
=============================================================================
