# Crucibo in TLA+

Crucibo is a research and trading program for US equities: it ingests bars,
backtests and replays strategies, and runs them on live bars, either with
virtual fills (`paper`) or through a broker (`live-equities`). This directory
models every path on which a strategy's wish becomes a position, the streams
and downloads the bars come from, the dashboard that watches a session, and the
files that are left of a run. Source paths below are relative to `src/crucibo/`.

## The system

| Component | State | Operations | Talks to |
|---|---|---|---|
| live equities runtime (`live/runtime.py`) | account, paper mirror, order book, kill, counters | `on_tick`, `run_live_equities_session` | strategy, risk, order book, broker, reconcile |
| order state machine (`live/orders.py`) | phase and filled quantity per order | `register`, `transition`, `apply_result` | called by the runtime with broker acknowledgements |
| pre-trade risk (`live/risk.py`) | none | `check_pretrade` | called by the runtime and by the dry-run backend |
| local account (`live/account.py`) | cash, position, equity peak | `mark_equity`, `apply_fill` | called by the runtime |
| reconcile (`live/reconcile.py`) | none | `reconcile_account` | compares account and broker snapshot |
| budgets, latency, clock (`live/budgets.py`, `latency.py`, `clock.py`) | samples | `observe`, `should_trade` | called by the runtime |
| dry-run broker (`live/equity_broker.py`) | its own cash and positions | `submit`, `snapshot` | default broker of the runtime |
| Alpaca broker (`live/equity_broker.py`) | none; the brokerage has it | `submit`, one poll, `snapshot` | REST requests |
| paper engine (`paper/engine.py`) | cash, position, peak, kill | `apply_tick` | strategy |
| execution backends (`live/execution.py`, `live/broker.py`) | order log | `on_tick` | risk, paper engine |
| paper session (`paper/session.py`, `bundle.py`) | loop index, `_partial` record, run directory | `run_paper_session_tracked`, `write_paper_bundle` | feed, backend, callbacks, command line |
| feeds (`paper/alphavantage_poll.py`, `binance_ws.py`) | seen bars, websocket queue | async generators | vendors, session |
| dashboard (`paper/dashboard.py`, `show.py`, `recording.py`) | set of clients, lock, a task per connection | `publish`, `subscribe`, `unsubscribe`, HTTP handler | session callbacks, browsers |
| backtest, replay (`backtest/`, `replay/`, `strategies/`) | portfolio, pending target, equity curve | `run_backtest`, `replay_ticks` | strategy, bundle |
| reporting (`reporting/`) | none | metrics, `load_backtest_run` | run bundles |
| ingest (`binance/`, `polygon/`, `alphavantage/`, `news/`) | cursor, rows received | pagination, merge, Parquet and manifest | vendors, replay, training |
| features, learning (`features.py`, `mlp.py`, `aapl_mlp_v1/`) | window of prices | features, training, decision | slices, replay |
| CLI, settings, types, Parquet | - | - | everything |

What is hard in it: the same fill is computed by several pieces of code that
must agree (account, dry-run broker, paper engine, backtest); a tick can be
stopped at eight places, each of which skips a different rest of `on_tick`;
the live broker executes on its own time and answers late, in parts or not at
all; the mirror that run bundles are written from is updated in the middle of a
tick; bars are published late and answers overlap; an interrupt arrives at any
await, and each command ends differently; one publish waits for every browser
under a lock that the browsers' own tasks need; and whatever is stored is stored
in several files over those of an earlier run. Correctness means: the books
agree, nothing is bought on credit or above a limit, a kill stops buying and, if
asked to, leaves nothing held, the program never believes in fills that did not
happen, the rehearsal behaves like the mode it rehearses, no bar is traded twice
or before it was known, no browser keeps a session from its end, downloads have
no gap, and what loads as a run is that run. `PROJECT.json` lists these hazards
at their lines.

## The modules

| Module | Models | State and actions |
|---|---|---|
| `Builtins` | Python's `None`, `sorted`, list comprehension, loop over a list and `sum` | none |
| `Market` | fill economics | execution price, fee, cash flow, equity |
| `Orders` | `live/orders.py` | order records; `ApplyResult`, with the quantity stored before a move that may raise |
| `Risk` | `live/risk.py` | `Clamp`, `CheckPretrade`: ok, refused with the position as target, or a hard refusal |
| `Account` | `live/account.py`, `live/reconcile.py` | `MarkEquity`, `ApplyFill`, `Reconciles` |
| `EquityRuntime` | `on_tick` over any broker | `account`, `paper`, `book`, `killed`, `ticks`, `failures`, `tick`, `pc`; one action per early return and per part between two broker calls |
| `LiveDry` | the loop over `DryRunEquityBroker` | adds `broker` |
| `LiveAlpaca` | the loop over `AlpacaPaperBroker` and an external exchange | adds `broker`, `exchange`, `moved`, `asked`; a snapshot is two requests, and an order executes at the exchange's price |
| `TradingBook` | abstract specification of an execution path | buy, sell, stop, unwind |
| `PaperEngine` | `paper/engine.py` | `ApplyTick` on a state record |
| `Backends` | `live/execution.py` in `run_paper_session_tracked` | two sessions, one on each backend, on one stream |
| `RunFiles` | the writers of run bundles, and their reader | the files of each command in the order they are written |
| `TickFeed` | abstract specification of a stream of bars | start, hand a bar, end |
| `PaperRun` | poll and websocket, session loop, ends of the commands, bundle | `published`, `seed`, `seen`, `fresh`; `applied`, `partial`; `phase`, `outcome`, `sigint`; `files`, `todo`, `count` |
| `EventHub` | `paper/dashboard.py`, `paper/show.py` | `clients`; `handler`, `conn` per browser; `main`, `todo`, `waiting`, `dead` of the task that publishes; one action per stretch between two awaits |
| `RangeFetch` | abstract specification of a download | receive, finish |
| `Ingest` | the four ingest commands | `cursor`, `rows`, `stored`, `files`, and the vendor's clock |
| `Strategies` | the bar strategies, and when a model decides | signals as functions of the closes |
| `Backtest` | `run_backtest`, `replay_ticks`, bundle, metrics | `book`, `pending`, `curve`; `Bar`, `WriteFile`, `Report` |
| `LiveDryMC`, `BackendsMC`, `BacktestMC` | small instances | |
| `Shared_proofs` | lemmas about `Builtins`, `Market`, `Orders`, `Risk` and `Account` | |
| `LiveDry_proofs`, `LiveAlpaca_proofs`, `Backends_proofs`, `PaperRun_proofs`, `EventHub_proofs`, `Ingest_proofs`, `Backtest_proofs` | theorems about the module they are named after | |

`LiveDry` and `LiveAlpaca` extend `EquityRuntime`, which is written over
`Orders`, `Risk` and `Account`, and these over `Market`, which `Backtest` uses
as well. `PaperRun` and `Backtest` share `RunFiles`. The refinements are `LiveDry` to `TradingBook`,
`PaperRun` to `TickFeed`, and each stream of `Ingest` to a `RangeFetch` of its
own.

**A tick in pieces.** `on_tick` is one synchronous call, but it waits for the
broker up to three times, and those waits are where a broker or an exchange
can act. `pc` runs through the same places: `idle` (between ticks), `submit`,
`close` (mirror, mark, drawdown, count), `reconcile`, `flatten`. `OffHours`,
`FeedLagKill`, `DecisionKill` and `RiskKill` are the early returns; they go
from `idle` to `idle`, and thus neither mirror nor flatten. `Settle`,
`Reconcile` and `Flatten` take the broker's answer as a parameter, and
`LiveDry` and `LiveAlpaca` say which answers there are. An answer of the
brokerage that is no JSON raises out of `on_tick` (`SubmitRaises`,
`SnapshotRaises`): `pc` is then `raised`, nothing of the answer was applied, and
the exchange goes on with what it has.

**A session and its end.** In `PaperRun` a bar is its event time: what it does
to a portfolio is the subject of `LiveDry` and `Backends`, and here the question
is which bars are executed, in which order, and what is left of them. A SIGINT
cancels the main task at its next await (`Cancelled`), a second one is raised
where the program stands (`InterruptAgain`); `Finish` decides by command and end
what is written, and `WriteFile` stores one file at a time, so that a `Crash`
may come between two of them. A dashboard with `--mode live_dry_run` writes the
order log as the rehearsal does. A replay may be given the run id of an earlier
run, so that in `Backtest` its files may be old ones at the start; a backtest's
run id is new.

**The hub.** asyncio runs one task at a time, so that an action of `EventHub` is
what runs between two awaits. `drain` awaits only when the transport's buffer is
full; that is the state `stalled` of a connection. The lock is held exactly
while the main task publishes, because `subscribe` and `unsubscribe` await
nothing inside of it.

**A download.** `Ingest` requests pages while the vendor's clock runs, so that
rows appear behind the cursor's end and the last bar may still be open. The four
commands differ in how they continue (close plus one, `next_url`, one answer,
one feed after the other), and share how they store: Parquet, then manifest.
Binance's iterators give up on a page that does not move the cursor
(`NextCursor`); the vendor of the model answers from the cursor on, so that it
never comes to that, and a vendor that did otherwise is not modelled. A page of
Polygon's without results and with a `next_url` changes nothing but that, and is
no step. A funding rate may have either sign, and `PriceBars` drops what is no
price or not positive.

**Amounts.** The code computes with floats and a tolerance of `1e-9`. The model
has integers: marks in price units, cash in units of `1/Scale` of one (of
`1/Scale^2` in `Backtest`, whose fee is a part of a slipped price), so that
slippage in basis points (`Slip` of `Scale`) gives integers and comparisons are
exact. Averages and deviations are compared multiplied out. What floats add,
rounding below the tolerance, is not modelled.

**Left out.** Average price, realised profit, latency samples and order
histories are written and never read by a decision. One symbol is modelled
because a session has one. A kill reason is its kind. A latency budget may trip
whenever it is enforced: elapsed time is not the program's to choose. The clock
is the bit inside or outside the session. A strategy may return any member of
`Targets` at any tick in the live modules, which includes what every built-in
one does; in `Backtest` the strategies are the ones in the code, and a trained
model may answer anything whenever it decides.

## The runs

| Run | Question | Result |
|---|---|---|
| `ldry_core` | five ticks over the dry-run broker, all kills enabled: do the books agree, do the limits hold, is it a `TradingBook`? | passes |
| `ldry_flatten` | does `flatten_on_kill` leave nothing held? | no: a drawdown found before the order returns early |
| `alpaca_core` | three ticks, fills late, in parts and between the two requests of a snapshot, requests and answers lost: does the program know what it does not know? | passes |
| `alpaca_cap` | does `max_position_shares` bound the brokerage position? | no: an order reported NEW is ordered again |
| `backends_core` | seven ticks of paper and dry run side by side: are they in lockstep until a kill, and does the rehearsal never stop first? | passes |
| `paper_core` | bars published in any order, polled or pushed, with failures, interrupts and crashes: what is traded, and what is kept? | passes |
| `paper_interrupt` | does an interrupted dashboard session flush, as it says? | no: nothing is written |
| `hub_core` | two browsers that come, stall, read on and go: does anybody miss an event, is anybody written to whose handler is gone, does the session end? | passes |
| `hub_wait` | is a finished session written when the server waits for its clients? | no: an open event stream keeps it |
| `ingest_core` | are downloads complete, do they end, is a slice replaced whole and in order? | passes |
| `ingest_train` | is a model trained on the bars that a replay would see? | no: mark prices and funding rates are in it |
| `backtest_core` | all strategies on every sequence of up to five bars, with caps of either sign: no look-ahead, one profit for each way from no shares to no shares, a report that agrees with the run? | passes |

Each violation quotes the sentence of the repository it contradicts in
`PROJECT.json` under `findings`. The traces of the two live ones use only
targets 0 and one number of shares, which is what the built-in strategies
return.

**Divergences that no run shows.** The model exhibits more than the five
violations above; these follow from the same actions and are stated here only.
An early kill is not copied to the mirror that the manifest is written from. A
flatten fill updates cash and shares of the mirror and not its fills. A kill
cancels no order that is open at the brokerage. A sale whose fill was not seen
is sent again, and the account there ends short. A configured fee per share is
booked although the brokerage charges none. A target that the cash does not
cover is refused by the rehearsal and kills the paper session, and the log of
the rehearsal says FILLED before the engine has tried, so that on the tick of a
kill it may differ from the position (`LogExplainsWhileRunning` excepts that
tick). A browser that stalls for ever keeps a publish, and with it the session,
from going on (`SessionEnds` assumes that none does), and a cancel that arrives
in a drain is taken for the loss of that browser (`CancelSwallowed`, which
`ServedUnlessSwallowed` excepts). A negative `max_position_shares`, which
nothing validates, is applied after the check of the sign, so that a backtest
whose broker refuses short selling (`backtest/broker.py:59`) sells short.
`crucibo report`, which is for backtest runs, loads the directory of a replay as
well, as a run without trades, since the fills of a replay are in a file of
another name; so it does one of a paper session. A range that ends now
stores the bar that is still open as a close (`Ingest` has the open bar; the
manifest's note says "at bar close").

**Bounds.** In the live modules the only unbounded quantities are the ticks
(`MaxTicks`, the option `--max-ticks`) and with them the length of the book.
Marks 7, 9 and 10 are far enough apart that one move crosses the loss limit and
a smaller one does not; slippage of a tenth and a fee of a tenth make a target
whose value the cash covers cost more than the cash at one mark, less at
another, and be refused at a third; the notional cap gives different share
counts at different marks and is below the position cap at some of them. Five
ticks are a purchase, a rebalance, a move into the drawdown and its flatten,
with one to spare; every kill reason that this broker can cause occurs. The
Alpaca runs need fewer: two ticks resend an order, the third lets both fill.

`PaperRun` has four bars, a window of two and `max_ticks` of three: a bar may
seed, be traded, appear late, or slide out of the window before a poll, and the
session may end before the stream does. `EventHub` has two browsers, one to
stall and one to suffer from it, and a `MaxEvents` of two before the last event,
so that one may come, go and come back in between. `Ingest` has bars of two
units up to 9, funding events every four, and pages of two rows: five bars are
two full pages and a short one, three funding events a full page and a short
one, and the trades full pages whose last one is short; `Horizon` 11 lets the
command start before, within and after the range. `Backtest` has four bars with
opens away from the close before them and up to five of them: windows of two and
three fill, both strategies enter and leave, and a purchase at the close can be
paid for that the next open makes too expensive; its caps are none, one share
below the target, and a negative one. The rehearsals of `backends_core` have
`FlattenOnKill` set, so that the run shows of `HardKillHolds` the half that
sells; the half that holds is only proved.

**Deadlock** is checked in every run: what is over stutters in an action of its
own (`Ended`, `Done`), and any other state without a successor would be
reported. In `hub_wait` the open browser's handler goes on for ever, so that the
program is not stuck and still never ends.

**Fairness.** The live modules, `Backends` and `Backtest` state none, and have
safety properties only: a session may stop at any point.

- `PaperRun`: weak fairness of what the program does, because the event loop
  runs what is ready and a request of 60 seconds is answered, or fails. Nothing
  is assumed of the vendor (`Publish`), the user (`Interrupt`) or the disk
  (`Crash`). `EveryBarTraded` is what this gives: a published bar is traded
  unless one of the named reasons holds.
- `EventHub`: weak fairness of the main task and of every handler; strong
  fairness of `Subscribe` and `Unsubscribe`, because `asyncio.Lock` wakes its
  waiters in order, so that a handler that waits for the lock gets it although
  it is taken again and again. A session of bounded length comes to its end
  (`Event \/ Finish`). Nothing is assumed of browsers: `SessionEnds` says in its
  antecedent that no browser stalls for ever, and is false without that, since a
  publish waits for a stalled browser.
- `Ingest`: weak fairness of the command, as a request is answered or times out.
  It is what lets a command end (`CommandEnds`); that each stream is a
  `RangeFetch` is safety and holds without it.

**Refinements.** `TradingBook` is what an execution path promises: no credit, a
cap, no purchase after a stop. `TickFeed` is what a session relies on: nothing
from before the start, no bar twice; poll and websocket both implement it, with
the seed for what is barred and the executed bars for what is handed.
`RangeFetch` is a complete download in order, without a gap or a repetition;
each of the four paginated streams implements it, whatever is appended to the
range while it is fetched.

## The proofs

Every invariant of the passing runs is a theorem for all values of the
constants, and so are the action property `KilledNeverBuys` and the three
refinements. The theorems stand at the end of the module, or of the part of it,
that leads to them, and `PROJECT.json` lists them.

| Module | What is proved |
|---|---|
| `Shared_proofs` | lemmas: what sorting a finite set or a list by keys returns, what a filtered list keeps, how a loop goes on, how a sum changes; fills, `Clamp` and `CheckPretrade`, acknowledgements, marks, what a book of orders adds up to |
| `LiveDry_proofs` | all properties of `ldry_core`, and `ReconcileNeverFails` |
| `LiveAlpaca_proofs` | all properties of `alpaca_core` |
| `Backends_proofs` | all properties of `backends_core` |
| `PaperRun_proofs` | all of `paper_core` but the liveness `EveryBarTraded` |
| `EventHub_proofs` | all of `hub_core` but the liveness `SessionEnds` |
| `Ingest_proofs` | all of `ingest_core` but the liveness `CommandEnds` |
| `Backtest_proofs` | all properties of `backtest_core` |

**What is assumed.** Every `ASSUME` gives the range of constants (prices are
positive, limits of the live modules natural or `None`, caps and targets of a
backtest any integer, `None` no number, a range of bars not empty; a record is
not `None`), with one exception: `SalesPay`, assumed by
`LiveDry`, `Backends` and `Backtest`, says that a sale brings in at least its
fee at every mark, and `Backtest` adds that its fee in basis points is at most
the whole. Nothing in the program enforces either; they are needed where cash or
debt is spoken of, since without them an account goes below zero by selling, in
the code as in the model. `LiveAlpaca` does without, because nothing is claimed
of cash there. TLC evaluates each assumption on the instance of its run.

**How the invariants are strengthened.** Few of the properties are inductive.

- `LiveDry`: `TypeInv /\ Inv /\ BookInv`. `BooksAgree` needs to know that the
  order the broker is given is the one the account will be told about, and that
  what the broker accepts the account accepts (`OrderOut`, lemma `FillAgrees`).
  `QuietTickWithinLimits` speaks of the end of a tick, so the notional bound is
  carried through it (`QuietSoFar`) until `CloseTick` compares the drawdown.
  `MirrorAgrees` needs the mirror to be synchronised when reconcile and flatten
  start (`MirrorSynced`); `LateKillFlattens`, that a late kill with shares held
  leads to the flatten and that the broker accepts it (`FlattensOnKill`), which
  rests on `BooksAgree`; `BookExplainsPosition`, that the order awaited has
  nothing filled yet (`AwaitedIsUnfilled`).
- `LiveAlpaca`: `Inv /\ Explained`. The exchange has one entry for each order,
  in the same place (`OneEntryEach`), the order in flight is unfilled
  (`PendingIsUnfilled`), and a program that goes on holds what the brokerage
  holds at every point of a tick, unless something was executed since the last
  snapshot (`InStep`; `QuietTickInStep` says it only where a tick ends).
  `DivergenceIsUnseenFills` compares two sums term by term: each action changes
  one order, one entry, or neither.
- `Backends`: `Inv`. Until the kill the two sessions are one state (`Alike`);
  `DryKillIsPaperKill` says that the rehearsal is never stopped first. The
  verdict of the rehearsal and the fill of the engine are computed from the same
  state, and the proof follows a tick through every way in which they refuse.
- `PaperRun`: `Inv`, of four parts. `Shape` types the feed, `Control` relates
  phase, outcome and counters. `FeedInv`: what is in store ascends, is neither
  from before the start nor executed yet, and is missing in every answer that an
  executed later bar came from. `BundleInv`: what is not yet written of the
  bundle is on the list of files to write, which has the tables first.
- `EventHub`: `TypeInv /\ Inv`. Events are bounded while the session runs
  (`EventsLeft`), and a browser that the publish found dead is not one that
  is still served, unless its error was swallowed (`DeadAreLost`). `NoOrphans` is
  inductive by itself: only a handler adds its browser, and it leaves its loop
  through `Unsubscribe` alone.
- `Ingest`: `TypeInv /\ FilesInv /\ PagesInv /\ StoredInv`. `FilesInv` says
  which files are new at each stage of which slice; `PagesInv`, that the rows
  received are all the times below the cursor, in order, and complete once the
  stream is left; `StoredInv`, that what is stored is the merge of the three
  streams. `EventOrder` follows: the times of a merged slice differ pairwise, as
  each stream stands at its own offset within the spacing of its bars, and the
  sort puts them in order without losing one.
- `Backtest`: `Inv` (configuration, portfolio, bundle), with an invariant of its
  own for each property. The signals of the whole run are shown to be functions
  of the closes so far (`WantedIsWish`): the crossover sees two windows, and the
  mean reversion, which the code computes by carrying its last state along, is
  decided by the last bar that left the band (`RevertedNext`). With that,
  `NoLookahead` needs only that the target which waits for the next open is the
  wish of the bar before (`PositionOK`). `TripsAreFlatToFlat` needs
  that a backtest which is not short alternates between no shares and the
  clamped target (`TwoPositions`), so that a purchase opens a trip and a sale
  leaves nothing, and is inductive as `TripsOK`, which carries the profits beside
  the cash between them. `ReportMatchesOutcome` needs that nothing is traded on
  the first bar, so that the curve begins with the cash (`CurveOK`), and that the
  fills are the first file to be written (`BundleOK`).

**Refinements.** A step of the implementation is shown to be a step or a stutter
of the abstract specification, under the invariant. A `Buy` of `TradingBook`
needs the cash and the cap afterwards, an `Unwind` that the whole position is
sold; handing out a bar in `TickFeed` needs it to be neither seeded nor applied;
receiving in a `RangeFetch` needs the page to start where the last one ended,
and finishing that nothing of the range is left.

**Loops and orders without induction over data.** The provers cannot use the
library's induction theorems, which take an operator as a parameter. A fact
about a recursive function on `0 .. n` is proved by its least counterexample
instead: a set of naturals that is not empty has a smallest member, and the
definition at that member contradicts it. So `RecursionExists` shows that such a
function exists, and `FoldedAppend` that a loop over a longer list goes on where
it stopped; sums (`Total`), round trips and drawdowns are instances of the one
loop `Folded`. Sorting is stated by ranks: a value stands behind as many values
as are smaller, so that what sorting returns follows from facts about the
cardinality of finite sets. For this the model says `InOrder`, `Sorted`, `Kept`
and `Folded` of `Builtins` where library folds could not be expanded. What a
loop computes is known from one list to the next longer one, along the steps of
the program, and of no list as a whole.

**Only model-checked.**

- The liveness properties `EveryBarTraded`, `SessionEnds` and `CommandEnds`:
  fairness is out of the prover's reach.
- The five violations, which are traces.

## Not modelled

`PROJECT.json` lists every component. What is left out, and why:

- the numerics of features, learning and the ratios of a report are
  floating-point functions without behaviour over time; when a model decides,
  and on which ticks it is trained, is modelled;
- plots, the dashboard's page and the content of events are layout;
- record types, settings, the mapping of one vendor row to one tick, and the
  calendar of the session clock are conversions; the parsers of news and Parquet
  are libraries;
- argument parsing, `validate_live_safety` and printing happen before or after
  everything modelled;
- `recording.py` is the paper engine over a file, and `collect_klines` and
  `finalize_session_bundle` are called by no command;
- the package `crucibo.data`, which the backtest command loads its bars from, is
  not in the repository;
- `reconcile_every_n` above 1, and the choice of a run by name or age.

## The plan

Done: all the modules above, and the theorems of the section on proofs. Next:

1. A run with `ReconcileEvery` 2 and a bound on the age of the last reconcile.
2. A theorem that `Backends` in a session that is not killed is a `TradingBook`
   of either account, as `LiveDry` is.
