# Specifications of SkopaqTrader

TLA+ specifications, TLC configurations and TLAPS proofs for SkopaqTrader, a Python
trading system for INDstocks (and Kite, and a paper engine) built on the TradingAgents
graph. They cover the parts where the order of events matters: a live order whose answer
is lost, two processes of one host that book the same fill, a SELL checked against a book
and positions that lag, a session that dies between two markers, a halt another machine
asked for, a decision log that is kept in two places, a graph run that is resumed.

Paths below are relative to the repository's `src/`. Abbreviations: `LO` =
`skopaq/execution/live_orders.py`, `PM` = `skopaq/execution/position_monitor.py`, `SE` =
`skopaq/execution/sellable.py`, `SC` = `skopaq/execution/safety_checker.py`, `SCH` =
`skopaq/execution/scheduler.py`, `DA` = `skopaq/execution/daemon.py`.

Contents: 1 the system · 2 the modules · 3 what TLC checks · 4 what is proved · 5 where code
and documentation disagree · 6 hazards without a property · 7 not modelled, and the plan.

## 1. The system

| Part | State it keeps | Operations | What is hard |
|---|---|---|---|
| Live order worker (`LO`) | the run: attempt, filled, active order, request on the wire; cached book | `execute` (exit loop, entry), `resume`, `_place`, `_reconcile`, `_confirm`, `_cancel_and_settle`, `_interrupted` | lost answers, late arrivals, cancel against fill, cancelled tasks, kills |
| Registry and journal (`LO`, `execution/order_journal.py`) | tracked orders; a JSON-lines file a day, claim markers, alert keys | `track`, `record`, `claim`, `booking_state`, `today_unresolved` | read by other processes at any moment, may be unwritable |
| Late-fill booking (`PM`: `resume_order`, `record_late_fill`, `_persist_late_fill`) | total reported, booking lines | sync, book progress, claim and book the final fill, confirm | two processes, a write that fails or outlives its task |
| Sell guard (`SE`, `broker/book_snapshot.py`) | none (a computation) | `sellable_quantity`, `position_sellable` | every input may be stale in a different way |
| Locks (`execution/sell_lock.py`) | `flock` files per symbol and per order | `SellLock`, `OrderLock` | an unusable directory lets everyone go ahead |
| Executor and router (`execution/executor.py`, `order_router.py`) | paper or live | `execute_signal` | check and order must be one step for other sellers |
| Safety checker (`SC`, `pnl_history.py`), kill switch (`kill_switch.py`) | loss totals, order times; a halt file, a row, a cache | `validate`, `halt`, `resume`, `status` | totals seeded from a database, partly recorded halts, stale status |
| Position monitor (`PM`: `PositionMonitor`) | positions, zero reads, pending exits | poll, resync, exit, resume, final state | lagging positions, other sellers, a stop in the middle of an exit |
| Daemon (`DA`) | phase, deadline | PRE_OPEN … MONITORING, CLOSING, REPORTING | a stop in any phase, CLOSING within the deadline |
| Scheduler (`SCH`) | a file of markers a day: handled, launched, ended | `_tick`, `run_job`, recoveries | its own death between a marker and the job |
| Trade lifecycle (`skopaq/memory/lifecycle.py`, `cli/main.py`) | BUY rows, their lots and profit | split, close, retry, undo | partial fills over several BUYs, a failing call, two processes |
| Decision memory (`skopaq/memory/store.py`, `tradingagents/memory`) | the log file of each machine, one row | load, save, store, settle, update | read, merge and write by processes of several machines |
| TradingAgents graph (`tradingagents/graph`) | a run's state, checkpoints | nodes, routing, resume | analysts in parallel, a death at any node, limits |
| Broker client, streams, paper engine, data vendors, model clients, scanner, options, interfaces | no order state beyond a process | requests, pipelines | little that an order of events could spoil |

How they interact. The **scheduler** launches the **daemon**, a settlement job and, after
a death, a recovery **monitor**, as child processes; it knows them by their exit codes and by what
they tell it (`Child`). The daemon runs the **TradingAgents graph** for its candidates, with
the **decision memory** around each run, and trades through the **executor**. The executor
takes the sell lock, reads book, positions and holdings once and asks the **safety checker**
(halt, limits, **sell guard**). If that passes, the **worker** runs to its end under the lock and
answers with what filled; the **lifecycle** writes the trade rows. Orders that are left over (stuck,
uncertain, interrupted) live on in the registry and, for other processes, in the
**journal**; the monitor and CLOSING resume them under the order lock and **book** what
they filled late.

What makes each part correct:

* worker: an exit never sells more than was asked; what it reports is what traded, or it
  says that it does not know; nothing is sent over an open order;
  an interrupted call leaves its orders where they are found again; it ends;
* booking and rows: what is counted as booked has trade rows; each share is booked once, and
  whatever may have been booked twice, or not at all, is named by an alert; rows and profits
  add up to what traded;
* sell guard: the SELLs of all processes never exceed what the account has;
* gate: a halt is obeyed within its cache time; a restart that can read the rows keeps the
  day's losses; the wait it announces is the wait there is;
* monitor, daemon, scheduler: a held position is watched until it is gone or handed over; the
  cap on trades holds; CLOSING ends in time; one session a day; a dead session is recovered;
* memory and graph: no decision is lost and a settled one stays settled; a decision comes from
  the reports and debates of its own run, which is complete; a resume redoes no model turn but
  those of an analyst that had not filed and begins again.

## 2. Modules

| Module | Models | Proofs |
|---|---|---|
| `LiveOrders` | one call of `LiveOrderWorker.execute` against the broker | `LiveOrders_proofs` |
| `LateFillBooking` | one unresolved order and the processes that resume and book it | `LateFillBooking_proofs` |
| `SellGuard` | the SELL path of `execute_signal` and the arithmetic of `sellable.py` | `Shares_proofs` |
| `PositionMonitor` | the live loop of the monitor, its exits and its end | `Shares_proofs` |
| `Child` | what the scheduler relies on in a process it launched | |
| `Daemon` | a session of the daemon; implements `Child` | `Daemon_proofs` |
| `Scheduler` | the scheduler with its children, which are `Child` | `Scheduler_proofs` |
| `Gate` | kill switch, loss limits, order rate | `Gate_proofs` |
| `TradeRows` | the BUY rows of a symbol under entries, late fills and exits | `Shares_proofs` |
| `DecisionLog` | `MemoryStore` over log file and row, settlement | `DecisionLog_proofs` |
| `AgentGraph` | runs of the TradingAgents graph, with checkpoints | `AgentGraph_proofs` |
| `MC*` | instances for TLC | |

Two compositions: `Scheduler` EXTENDS `Child` and runs it as its environment; `Daemon` has
`Contract == INSTANCE Child WITH …`, and `KeepsContract` (`Contract!SessionSpec`) says that a
session is a behaviour of that child. So what is shown of the scheduler with the contract
holds of the scheduler with the daemon.

### LiveOrders

`pc` is the await at which `execute` is suspended; one action is what runs between two
awaits. `order` is the broker's own view, with `done` traded and `listed` in the book;
everything the worker knows is in other variables, so that its knowledge can be wrong.

| Code | Model |
|---|---|
| `_execute_exit`: loop test, re-check, re-price | `NextAttempt`, `Recheck`, `AfterRefusal`, `AfterStuck` |
| `_place`: deadline, book ids, deadline, POST and its outcomes | `BeforePlacing`, `Send`, `Answered`, `Refused`, `Unclear` |
| `_place_with_backoff` | `Backoff`, with the sum of the pauses in `used` |
| `_resolve_uncertain`, `_reconcile`, `_could_be` | `Reconciled`, `ReconcileEnds`, `Candidates`, `Tagged` |
| `_confirm`, `_cancel_and_settle`, `_send_cancel` | `ReadOpen`, `WatchEnds`, `SendCancel`, `CancelWindowEnds` |
| `_terminal`, `_fill_details`, `order_status.classify`, `filled_qty` | `ReadFinal`, `FillDetails`, `Classify`, `FilledQty` |
| `_interrupted` (a cancelled task) | `Cancelled`, `SettledLate`, `NotSettled`, `CancelledAgain`, `ShieldedEnds` |
| `_crashed` (an error escaped) | `WorkerError` |
| the process is killed | `Crash` |
| `OrderJournal.record`, which swallows a failed write | `Journals`, with `lost` once a line is missing |

Outside `src/`, modelled from how the code uses it: the broker accepts, lists, loses,
fills and ends orders on its own (`Accept`, `List`, `Lose`, `Trade`, `End`), and somebody
else trades the same instrument (`OtherOrder`). A read returns an older open row, or the
final row, with its traded quantity or without it (`Rows`, `Fills`). A failed read is a
stutter. Two facts about the vocabulary are taken from `order_status.py`: CANCELLED
without a traded quantity means nothing traded, and "partially filled" rows may miss it. One
is taken from how `_fill_details` uses the answer: the trades of a *final* order, when they
can be read, are complete.

Abstracted: time is the three-valued `clock` (a whole attempt fits; an order may still be
placed; neither) and windows end nondeterministically; prices only as LIMIT or MARKET; the
two-minute bound on a match without a book read before placing is left out (a candidate
may be any look-alike, which only adds behaviours). What is sellable at a re-check is left
open here; `SellGuard` is about it.

### LateFillBooking

`proc[p].pc` follows a resume: `idle` → `read1` (first read) → `read2` (cancel window) →
`claim` → `claimed` → `line` → `write` → `confirm`. `journal` holds today's lines about the
order (the booked total, unconfirmed booking lines, its final line, whether the last event
is one) and the claim marker; `times[s]` counts how often share `s` got a trade row.
`_sync_booked` and `resume_order` are `Start`; `record_late_fill` is `ReadOpen`/`Stuck` for
progress and `Claim`, `ReadBooked`, `WriteLine` for a final fill; `_persist_late_fill` is
`WriteRows`, `WriteFails`, `Confirm`; a cancelled resume is `Cut`, after which a write goes
on without the lock. `trouble` records what has gone wrong, so that a property can say under
which failures it holds; "gap" and "unknown" are the two cases the code leaves to an alert
or to nobody. Left out: prices (progress without one is not booked: a choice), midnight, and
the lifecycle call behind a trade row (`TradeRows` has it).

### SellGuard

`order` holds each SELL together with what Skopaq knows of it (`know`, `knownDone`) and
whether the lag window still covers it (`age`). `noted` says that its fill was confirmed
within that window: a window of its own, which starts when the fill is recorded, again at every
resume (`Knows`, `Resumed`), and ends by the clock (`Forgets`). `ReadBook` and `ReadPositions` are the two
reads in the code's order; between them orders move. `Check` runs `sellable_quantity` on
the reads and the *current* registry and journal, which is what the code does, and sends an
order. `PendingQty`, `OwnPending`, `Unshown`, `UncertainSells`, `OwnOpen`, `Sellable` and
`PositionSellable` are the quantities of the same names. The lock makes checks one at a
time. Outside `src/`: what book and positions may show (`RowsOf`, `ShownOf`). Which surprises
an instance has is the constant `Surprises`. Left out: final rows without a traded quantity
(the code counts all they asked for, which only lowers what may be sold), the T1 and
intraday split of positions and holdings, the naming of blockers, an unusable lock directory
(the code then warns and goes ahead unguarded), and a request still on its way when its
sender was killed before the journal line.

### PositionMonitor

One instrument under `_run_live`. `net`, `soldToday`, `boughtToday` are the truth at the broker,
`positions` what positions show of it; `sellOrder` are our SELLs and `buy` a BUY nobody has
confirmed; `foreign` is a SELL of somebody else. `stage` is where the loop is. `pos` is the tracked position with its zero reads and
the sells it has seen, `exit` its exit task, `clock` how much of the day is left.

| Code | Model |
|---|---|
| `_run_live`: start, reap, the loop's tests | `Start`, `Reap`, `LoopEnds`, `LoopConfirms`, `LoopDone`, `LoopResyncs`, `LoopChecks` |
| `_adopt_journal`, `_resume_watched`, `resume_order` | `BeginResync`, `Other`, `ResumeEnds`, `ResumeBuyEnds` |
| `_resync_once`, `held_positions`, `_sold_since`, `_resync_position`, `_adopt_untracked` | `Read` with `ReadAs`, `HeldBy`, `SellableBy`, `SoldSince`, `Resynced`, `Adopted`; `ReadFails` |
| `_check_positions` | `CheckSells`, `Holds`, with `MaySell` |
| `_execute_sell`: what an exit reports and leaves behind | `ExitEnds`, with `CountedExit`, `Reports`, `Leaves` |
| stop: settle, `_abandon_exits`, `_shutdown_pass`, `_final_state` | `Settles`, `Abandons`, `ShutdownSells`, `ShutdownSold`, `FinalState` |

Outside `src/`: `Trades`, `ForeignSells`, `BuyEnds`, `CatchesUp`, and positions without the
instrument's row (`WithoutRow`). The ghosts `wrong`, `blind`, `shared` record wrong reads in a row,
a failed last read after one, and a SELL other than the exit of the moment that filled, so that
properties can name their exceptions. Left out: prices and what the AI tier says (whether an
exit is wanted is a choice), an uncertain placement taken over from a dead process
(`_adopt_uncertain`), the paper loop.

### Child, Daemon and Scheduler

`Child` is what the scheduler may rely on in a process it runs: `kind`, stage `st`, `began` (past
PRE_OPEN), exit code `rc`, `term` (it got a SIGTERM); `exposed` says that what the day's sessions
bought may be held, `told` that somebody was told to look at the broker. Its actions: `Begins`,
`PreOpenFails`, `Trades`, `Tells`, `Finishes`, `MonitorEnds`, `MonitorLeaves`, `SettleEnds`,
`Fails`, `Sold`, and the signals `Terminated` and `Killed`.

`Daemon` is `run_session`. A symbol is one lot, whoever bought it: the account may hold positions
of the day when the session starts, and others trade in it (`OtherBuys`, `OtherSells`). `phase`
and `step` are where it is; `bought` the symbols it counts, `known` those confirmed, `mine` what
its BUYs got; `left` is how many exit attempts still fit.

| Code | Model |
|---|---|
| `_phase_pre_open`, `_phase_scan` | `PreOpen`, `Scan` |
| `_phase_analyze_and_trade`, the slots of max_trades | `Analyzes`, `NoTrade`, `Buys`, `Sells`, `Analyzed`, `AnalysisEnds`, with `SlotFree`, `Slots` |
| `_run_monitor`, `_monitor_again` | `MonitorWorks`, `MonitorEnds`, `MonitorAgain` |
| `_phase_close_live`: a pass, its reads, exits, waits | `PassBegins`, `Resumes`, `PassReads` (`BookRead`, `BookFails`), `ReadFails`, `CloseOne`, `Waits`, `PassEnds` |
| `_closing_final_state`, `_phase_report` | `FinalState`, `Report` |
| signals and errors | `Stops`, `SessionFails`, `ClosingFails` |

The monitor inside MONITORING is seen by its outcome; that it ends after a stop is what
`StopEnds` of `PositionMonitor` shows. The paper branch of CLOSING is left out.

`Scheduler` is the loop, the tick and `run_job` of `SCH`, with a child that behaves like
`Child`. A day is eight slots: 0 before the start, 1–2 the start window, 3 until the
end-of-day exit, 4 until the close, 5 until the deadline, 6–7 after it (7: settlement). What
survives a restart are the markers `note` (started, skipped, handled), `code`, `monitor` and
`settled`. The host may die at every step (`Die`), also between a marker and its job.

| Code | Model |
|---|---|
| `run_forever`, `_loop` | `StartUp`, `NextSlot`, `Tick`, `Stop`, `Quit` |
| `_tick`: recoveries first, then what is due | `ResumeMonitor`, `CutOffAlert`, `RecoverInterrupted`, `Interrupted`, `SkipUnconfirmed`, `MarkDaemon`, `LaunchDaemon`, `LaunchSettle`, `LaunchMonitor` |
| `run_job`: stop, deadline, grace, kill; a child it cannot watch | `SeesStop`, `SeesDeadline`, `KillsChild`, `CannotWatch` |
| after the child | `RecordDaemon`, `DaemonKilledByStop`, `RecoverFailed`, `DaemonEnded`, `SettleEnded`, `MonitorStopped`, `MonitorLeftEarly`, `RecordMonitor`, `MonitorEnded` |

Left out: the alerts of a day that is skipped or missed, pruning of markers, the token check.

### Gate

`file` and `row` are the two places of a halt; `op` the halts and resumes under way (`Switch`:
`Begins`, `OnFile`, `OnRow` or `Forgotten`, which is a row that could not be written). `status`
is `FileRead`, `RowRead`, `ReadEnds` and, within its time, `cache`. `BuyPasses` and `HaltRefuses`
are what the checker says to a BUY, `RateAllows` and `RateWait` the order rate, `SellFills` an
exit with its gain or loss (`Recorded`, if the executor knows price and cost), `Books` the row
it gets, `OtherBooks` what others book, `Starts` the seeding of the total (zero, if the rows
cannot be read), `Tick` time. `unseen` keeps, for `LossesStop`, the P&L the process was never given. What the stateless rules say is a
choice; the week's and the month's limits are the day's rule over another total.

### TradeRows

`trades` are the BUY rows of one symbol (the table's name); `filled` is what the broker filled of each BUY and
`reported` what its callers count as booked; `call[p]` is the booking under way, between
two database calls. A call may fail, or be applied with its answer lost (`Calls`, `Stored`).

| Code | Model |
|---|---|
| `_run_lifecycle` → `on_trade` for a BUY | `Enter` |
| `_record_late_fill` | `LateBegins`, `LateFill`, `LateWrites`, `SellUnpriced` |
| `_handle_live_sell`: find lots, one after the other | `SellBegins`, `Find`, `Lot`, `NextLot` |
| `_close_lot`: insert the remainder, close in part, undo, close in full | `Split`, `Keep`, `ClosePart`, `Undo`, `CloseWhole` |

`silent` collects what went wrong without an alert (the members of `Ways`: a crash, two
bookings at once, an entry that was not saved, one written twice, a row that could not be
closed, a SELL beyond the rows); the properties say what holds otherwise. Left out: the link
and rollback of the SELL's own row, reflection, the paper path. The `RowsInit`, `RowsNext`,
`RowsSpec` of this module, like the `MonitorInit`, `MonitorNext`, `MonitorSpec` of
`PositionMonitor`, have names of their own because one module of proofs extends both and
`SellGuard`: the three proofs rest on the same lemmas about sums of shares.

### DecisionLog

`file[m]` is the log of machine `m`, `row` its mirror in Supabase, `home` where each process runs.
An entry stands for a date and a ticker, pending or settled. `Starts`, `LoadReads`,
`LoadWrites` are `MemoryStore.load`; `Decides` is `store_decision`; `Settles` and `Updates`
are `settle_pending`, which chooses its entries before it writes them; `SaveReads`,
`SaveMerges`, `Upserts` are `save`. `Merged` and `Capped` are the functions of these names. A
machine's disk may go with a deploy (`Redeploys`), and a process may die at every step.
`store_decision` and the updates are atomic (they hold the file's lock); `write_text` is one
step, except that a death in it may leave the file empty. Left out: the rotation of the log,
which Skopaq leaves disabled; texts, prices, outcomes.

### AgentGraph

`run[p]` is a process's run: its settings and its state `work` (the desk of each analyst
with its tool rounds, the reports, the turns of both debates, the next node, and `done`: the
model turns it holds of each analyst, tool-calling ones too, and of the nodes after them);
`saved[t]` the last checkpoint of a thread, `logged` the decision log's entry of the day. For the
properties, `made[t]` counts the model turns made for a thread, `redone[t]` those of analysts that
began again. Whether to resume is decided before the earlier decisions are settled (`Begin`), the
checkpoint is loaded after that (`Invoke`): another process may have cleared it by then
(`NothingToResume`), or written one where there was none, over which the run starts.

| Code | Model |
|---|---|
| `_analyst_graph`, `take_turn` | `AgentTurn`, `RunTools`, `WrapUp`, `MoreOrWrapUp` |
| `setup_graph`: the join of the analysts, the nodes after it | `ReportsIn`, `Node`, `Speaks` and an action per node |
| `ConditionalLogic` | `ShouldContinueDebate`, `ShouldContinueRiskAnalysis` |
| `begin_checkpoint`, `thread_id`, `_run_signature` | `Begin`, `Thread` |
| `checkpoint_input`, `graph.invoke` | `Resumed`, `Invoke`, `NothingToResume` |
| `get_graph_args` (the step limit) | `Advances`, `OutOfSteps` |
| `_run_graph`, `record_decision`, `clear_checkpoint`, errors | `Finish`, `Record`, `Clear`, `Fails` |

External: what LangGraph does (a checkpoint after a step, the writes of parallel nodes kept
apart, the step limit counted anew per invocation, no run on no input), a kill (`Dies`), after
which the last checkpoint may be one step old, and whether an unfiled analyst's own graph has a
checkpoint: any of them may go on or begin again. Left out: what prompts, models and tools say (a report or
a decision may be empty), structured output and ratings, report and state files, streaming,
`clear_all_checkpoints`.

## 3. What TLC checks

| Run | Instance | Distinct states | Properties |
|---|---|---|---|
| `call` | 3 shares, 2 order ids, 2 attempts, 2 CancelledErrors, a kill, journal lines that fail | 3,425,400 | `NoOversell`, `NeverOverReports`, `ResultIsExact`, `NothingForgotten`, `JournalKnowsOrders`, `NoOrderOverAnOpenOne` |
| `ends` | 1 share, 2 own ids and somebody else's, tags, backoff cap 2, fairness | 398,240 | `CallEnds` |
| `booking` | 2 processes, 2 shares, any 2 kinds of trouble, locks for all or none | 1,853,658 | `NothingCountedUnbooked`, `DoubleBookingFlagged`, `BookedOnce`, `SettledMeansBooked` |
| `guard` | 3 SELLs, 1 held and 1 bought share, everything but a lagging book | 3,219,122 | `NoSecondSale`, `ExactOnceShown`, `KnownExitsKeepHoldings` |
| `second_sale` | 2 bought shares, only a lagging book | violated | `NoSecondSale` (section 5) |
| `monitor` | a position of 2 or none, one id, one wrong read, fairness | 162,281 | `EndsClean`, `OwnExitProvesNothing`, `StopEnds`, `EodExits` |
| `daemon` | 2 symbols, others trade in one, 1 or 2 trades, 1 restart, 3 attempts, fairness | 1,326,518 | `TradeCap`, `KeepsContract`, `NoMiddaySale`, `SessionEnds` |
| `scheduler` | 2 days, 1 of trading, all modes, 2 deaths, 1 stop, fairness | 278,540 | `OneSessionADay`, `Attended`, `LaunchedInWindow`, `Recovered`, `ChildrenEnd` |
| `gate` | cache of 2 ticks, a minute of 3, 2 orders a minute, P&L of -1 to 1 | 5,950,460 | `TypeOK`, `HaltIsCurrent`, `WaitIsExact`, `LossesStop` |
| `rows` | 2 processes, 2 BUYs of 2 shares, 2 lots, 2 SELLs, 2 faults | 1,559,617 | `RowsAddUp`, `PnlOnce`, `PnlComplete` |
| `memory` | 2 processes on one machine or two, 2 decisions, a row of 1 | 1,512,716 | `DecisionsKept`, `SettledStays` |
| `graph` | 2 processes, 2 analysts, 3 settings, 1 tool round, 3 runs, 1 fault | 3,406,334 | `SoundDecision`, `NothingRedone`, `AnalystsWithinSteps` |

Every property has a comment in its module that states it; the ones that say most:

* `NothingForgotten`: when a call of the worker is over, whatever of it still works or traded
  unheard is unresolved in registry and journal, or is the uncertain placement;
* `DoubleBookingFlagged`, `SettledMeansBooked`: what may be booked twice, or not at all, has
  an alert, except for the failures that are named;
* `NoSecondSale`: the SELLs of all processes never exceed what the account has;
* `EndsClean`: a monitor that says "nothing left" has left nothing, with its exceptions;
  `OwnExitProvesNothing`: a zero read after an own exit does not make a position external;
* `NoMiddaySale`: a session that has bought something leaves positions to its monitor, whoever
  bought them, until the end of the day, with the exceptions the code makes;
* `KeepsContract`: the daemon does what the scheduler relies on. `Attended` then says that
  a position that may be open has a process, an alert or a tick to come; `Recovered` that
  a live session that died is recovered;
* `HaltIsCurrent`: no BUY passes later than the cache time (and one read) after a halt;
  `LossesStop`: nor once the day's P&L, less what this process was never given, has reached the limit;
* `RowsAddUp`, `PnlOnce`, `PnlComplete`: open shares and profits of the rows against what
  traded;
* `DecisionsKept`, `SettledStays`: a decision once mirrored is not lost, and a settled one never
  comes back as pending, except where the cap of the row drops it;
* `SoundDecision`: a decision comes from all reports and full debates of its thread, with its
  settings; `NothingRedone`: over all resumes of a thread every model turn is made once, but for
  those of an analyst that begins again, of a kill, and of two processes at a time;
  `AnalystsWithinSteps`: the step limit never ends a run in its analysts.

**Bounds.** Worker: three shares let an attempt fill in part, be followed by a second that fills in
part, and leave one; two attempts and two ids are the smallest exit with a re-placement (a
refused attempt gives its id back); two CancelledErrors are needed for the shielded loop;
`BackoffCap` bounds a counter that exists in the code. Booking: two processes and two shares
give progress, then a final fill, by different processes; `MaxKinds = 2` lets one behaviour
combine any two kinds of trouble, each as often as it likes. Sell guard: three SELLs are the
smallest case in which a check faces two earlier orders with different histories. Monitor:
two shares are a partial exit and its rest; a second id would only repeat the first, which
is free again when its order is final. `MaxWrong` bounds wrong reads in a row; with as
many wrong reads as the code asks for (two), it drops a position that is there, which no
reader of positions can prevent, so the bound is one less. Daemon: two symbols and a cap of
one or two cover a cap that is reached by an unconfirmed order and one that is not; others trade
in one of the symbols only (`Others`), the session in both; `Day`
counts exit attempts, not hours. Scheduler: the second day shows what yesterday's
markers do; two deaths are a death, and one in its recovery. Gate: every time constant is the smallest that
differs from its neighbours. Rows: two lots and two sales split a row that a second
process is closing. Memory: a cap of one with more decisions than that. Graph: one
analyst with tools and one without, one round of tools (the wrap-up follows), `D`, `R` in {1, 2} and {0, 1}, settings that differ in
all, or only in the models of the roles; `RecurLimit` is the smallest the constructor
accepts. No run constrains its states other than by these constants.

**Deadlock** is checked in `scheduler`, `gate`, `guard` and `second_sale`. In the others something
comes to its end: a call, a settled order, a session, a monitor, bookings, runs, and then
the system may stop.

**Fairness.** `ends`: weak fairness of each step of the worker: every broker call has a client
timeout and every window a clock (`_call`, `asyncio.wait_for`), so each await ends; nothing is
assumed of the broker, of reads succeeding, or of CancelledErrors. `monitor`: weak fairness of
the loop, of its tasks (each is a worker call, which ends), of resumes and of the time of day; strong
fairness where the code only makes progress if a read succeeds now and then (`ReadsAll`,
`ResyncsBetweenExits`) and the broker trades an exit now and then (`ExitTrades`); `StopEnds`
is about the process, `EodExits` needs the broker. `daemon`: weak fairness of the session and of time;
of the monitor's end only once a stop or the deadline is due, which `StopEnds` shows.
`scheduler`: weak fairness of its own steps and of start-up after a death (the
container restarts it), strong fairness of the time (it passes while the scheduler sleeps).

**Mutants.** Each property has a definition next to the one it replaces: a plausible slip (an
inclusive bound, a forgotten source, a marker read too late) which the
property catches. They are listed in `PROJECT.json`.

## 4. What is proved

Proofs hold for every value of the constants that satisfies the named assumptions of the
module (TLC evaluates them in each run). The assumptions say that numbers are naturals, sets
are subsets, and `None` is none; further ones are given below.

| Theorem (in `…_proofs`) | States | Further assumption |
|---|---|---|
| LiveOrders: `TypeCorrect` | `[]TypeOK` | |
| LiveOrders: `AccountCorrect`, `NeverOversells`, `NeverOverReportsFills`, `ResultsAreExact`, `NeverOverAnOpenOne` | `[]Inv`, `[]NoOversell`, `[]NeverOverReports`, `[]ResultIsExact`, `NoOrderOverAnOpenOne` | `Alone` |
| LiveOrders: `NothingIsForgotten`, `JournalKnows` | `[]NothingForgotten`, `[]JournalKnowsOrders` | `Alone` |
| LateFillBooking: `TypeCorrect`, `CountedIsBooked`, `NothingForgotten` | `[]TypeOK`, `[]NothingCountedUnbooked`, `[]SettledMeansBooked` | |
| LateFillBooking: `EachShareOnce`, `DoublesNamed` | `[]BookedOnce`, `[]DoubleBookingFlagged` | locks work for all or for none |
| SellGuard: `Types`, `ExactlyWhatIsFree` | `[]TypeOK`, `[]ExactOnceShown` | |
| SellGuard: `NotSoldTwice`, `ExitsKeepHoldings` | `[]NoSecondSale`, `KnownExitsKeepHoldings` | the book lists accepted orders |
| PositionMonitor: `MonitorTypesKept` | `[]MonitorTypeOK` | |
| PositionMonitor: `EndedClean`, `OwnExitNoProof` | `[]EndsClean`, `OwnExitProvesNothing` | `MaxWrong <= 1` |
| TradeRows: `OncePerShare`, `EveryShare`, `RowsHoldTheRest` | `[]PnlOnce`, `[]PnlComplete`, `[]RowsAddUp` | |
| Daemon: `TypeCorrect`, `TradesAreCapped`, `NoSaleAtMidday` | `[]TypeOK`, `[]TradeCap`, `NoMiddaySale` | |
| Daemon: `Implements` | `Spec => KeepsContract` | |
| Scheduler: `TypeCorrect`, `OneSession`, `InWindow`, `AlwaysAttended` | `[]TypeOK`, `[]OneSessionADay`, `LaunchedInWindow`, `[]Attended` | |
| Gate: `TypeCorrect`, `WaitExact`, `HaltCurrent`, `LossesSurvive` | `[]TypeOK`, `[]WaitIsExact`, `[]HaltIsCurrent`, `LossesStop` | |
| DecisionLog: `TypeCorrect`, `NoDecisionLost`, `SettledForGood` | `[]TypeOK`, `[]DecisionsKept`, `SettledStays` | |
| AgentGraph: `TypeCorrect`, `DecisionIsSound`, `NothingDoneTwice`, `AnalystsInLimit` | `[]TypeOK`, `[]SoundDecision`, `[]NothingRedone`, `[]AnalystsWithinSteps` | |

**LiveOrders.** `Alone` is `OtherIds = {}`: nobody else has an order of the same instrument and
side. It is needed: otherwise an adopted look-alike (section 5) fills in the place of our own
order. `TypeOK` is not inductive: that `filled` stays within the request depends on the order
watched. `TypeInv` adds `OrdersOK` (each broker order is well formed) and `WantedOK` (the
request on the wire, or the order watched, asks for exactly `Target - filled`, and the last
view of it saw no more than it traded). `NoOversell` is not inductive either: a late request
may arrive at any time. `AccountOK` says why this is harmless: *at most one order of the
call is live; while the loop decides none is, and all that traded has been counted; while a
request or an order is open, its own fill is all that has not been; and an order the
registry does not know is the request on the wire.* From it the two sums follow without
adding up over orders. The lemma `FillIsExact` carries the vocabulary: a read that finds an
order final returns exactly what traded, or `Unknown`.

What a call leaves behind needs `LeftInv` = `Inv ∧ KnownInv ∧ ToldInv`. `KnownInv`: registry and
journal agree about each order (`Linked`), as long as no line of the journal was lost; an order the broker has is in both, unless it is
the request of the moment or an uncertain placement. `ToldInv`: up to a second CancelledError,
an order that is final to the registry is finished at the broker, and its caller was told what
it traded, or that this is unknown. The step that matters is the one where the call ends: an order
that is not final there is `working`, `stuck` or `interrupted` in both.

**LateFillBooking.** `NothingCountedUnbooked` needs `CountedInv`: what the report, the booked total
and the process that writes count is in rows, or in a write under way that is not counted yet.
`BookedOnce` is about behaviours without trouble, so `OnceInv` is an implication: while
`trouble = {}` at most one process books, which has the lock or, with no usable lock, the claim
(`CalmInv`), and a share above the booked total has a row only while its writer is about to
confirm it (`RowsInv`).

`SettledMeansBooked` holds whatever fails, since `SettleInv` only follows who is responsible: a
share that traded is accounted for, or its fill is claimed by a process that has it in hand,
or some process will still adopt the order. `DoubleBookingFlagged` has two arguments. With a
lock for all (`LockInv`) the dangerous case is a write that went on after its resume was cut:
`OneRisky` says that at most one booking is under way whose shares no alert names, `LineInv` that
its line is in the journal, so that whoever takes the lock next finds the line and raises the
alert before it books (`KeyInv`: an alert key already used stands for an alert that names at
least the shares above what the holder starts from). Without a lock (`NoLockInv`) nobody
writes rows but the one process that won the claim, once.

**SellGuard.** `GInv` = `TypeOK ∧ OrdersInv ∧ RowsInv ∧ ShownInv`. Whatever an order does between
the reads and the check, only its row, its traded quantity and its age are old: `Tells` says
what a row read earlier still implies about the order now (it has traded no less than the
row says; what a missing row means depends on the surprises), `ShownInv` that positions show
at least every fill whose lag window is over. The check adds up different quantities per order;
a lemma for one order (what is taken of it is covered by one of the reservations) is lifted to
the sums. These are proved by induction over the subsets of the order ids, as a minimal
counterexample (`WFMin`), with lemmas for a sum over one more element, for sums that are
ordered pointwise, and for a sum in which one order changes. The assumption on `NoSecondSale` is the
one that `second_sale` shows to be needed. `ExactlyWhatIsFree` needs no assumption: once positions
show all fills, `Unshown` is the sum of the confirmations that are still within their window
(`HeldBack`), the rest of the check counts each order once, and both sides are sums over orders.

**PositionMonitor.** `MonitorOneWrongRead` is `MaxWrong <= 1`: positions lack the row of a held
instrument at most once until the next read that shows it. That is what the code defends
against (it wants a second empty read, `PM:1566–1603`); with two in a row TLC violates both
properties. `MonitorInv` says, of what is held while only the exit of the moment has been
selling: it is tracked in full with all of its sales seen, or the last read hid it
(`Tracks`). A read by itself can prove little, so three more parts carry the argument: the day's trades add up
at the broker and in what it shows (`DayAddsUp`), a BUY that positions do not show is
unresolved or confirmed (`BuysKnown`), and nothing else is open (`NothingElseSells`, which
needs the lemmas about sums). At the end (`FinalFinds`), a read that shows some state of
the day, however old, cannot make a held position look gone, by these equations; one that lacks
the row is contradicted by the tracked quantity or by the confirmed BUYs. The types (`MonitorTypesKept`) are proved
without the assumption: what is asked, sold and seen stays within the shares of the day.

**TradeRows.** The properties are equations between sums, which no single step shows. `PnlOnce` needs
`ChargeInv`: every share sold can be charged to one row, or to a SELL that has it still in hand
(`Takes`), such that a row's P&L, its pending partials, and what the booking under way is about to
write to it all stay within its charge. A SELL charges a row when it reads it; every write
after that, also one repeated because its answer was lost, also one over a row that another
process has written meanwhile, is covered. Nothing is assumed of failures or interleavings. (The types it needs are in `BooksType`,
proved with it: `RowsTypeOK` without the bounds on quantities.)

`PnlComplete` and `RowsAddUp` hold while nothing went wrong unseen and nobody was asked to look,
so `CalmInv` is `Calm ⇒ Steady`, where no step from a state that is not calm leads back to
one that is (`CalmBefore`). `Steady`: one process at most is booking; each order has one row; the
closed rows hold the P&L of all that was sold but what the SELL has in hand, and the open
rows the rest of what was bought (`Accounts`), with a remainder counted twice between its
insertion and the close of its row (`LotAccounts`). Two cases make it hard. A late fill may
have been written and its answer lost: the row then has more than its caller knows (`Has`), until it is
written again; if its row was closed meanwhile, the next write goes to another row, which is
one of `Ways`, so that this order keeps the books from adding up in silence (`Doomed`). A row that did not close while more
is left to sell is met again, and only then alerts: until then the accounts do not hold, and
`Stuck` says that the alert will come.

**Daemon.** `IInv` = `TypeOK ∧ SlotInv ∧ BoughtInv ∧ EndInv`: the slots used are the
symbols counted; what the session bought and is held is known or unresolved; what is told at the
end is told before the session is over. The refinement maps a session to a child (`Exposed`: what
the session bought and is held, or may still buy), each action to one of the contract's or to a
stutter. `NoSaleAtMidday` needs nothing of what is held: CLOSING is only reached in the middle of
the day for one of its reasons (`MiddayInv`).

**Scheduler.** `IInv` = `TypeOK ∧ ChildInv ∧ MarkersInv`, where `MarkersInv` relates the markers to
the child and to where the tick is. The idea (`NowInv`): a tick whose time is stale has
waited for a recovery monitor, and the markers of a day with one keep its daemon from
starting. `Attended` is about one state of the loop, and `AttInv` says why it holds there: what is
held is covered by an alert or a marker, except while the scheduler handles a job it has
recorded (`CoverInv`), and a daemon or a monitor it runs, or whose end it has just recorded, has its
marker (`DaemonMarks`, `MonitorMarks`). Only live sessions hold anything (`LiveInv`).

**Gate.** `HInv` bounds, by the age of the cache or of the read under way, how long ago each of
file and row was as the cache says; `PnlInv` is the account of the loss total: P&L in the rows
plus P&L not booked yet is the total plus `unseen`, through every sale, booking and restart. `WaitIsExact` rests on `RateInv`: the order times lie in the past and are
ordered. So the window at any later time is a suffix of them, and the number of orders in it
is found by induction over the length (`WithinIs`, `CountedIs`; the smallest number with a
property is `SmallestNumber`).

**DecisionLog.** `IInv` = `TypeOK ∧ SourceInv ∧ WriteInv ∧ UpsertInv ∧ KeptInv`: whatever is in a
file, the row or a process's hands was decided; a write under way has all that its target
has, unless another wrote it since it was read (`stale`); a decision is in a file or the row.

**AgentGraph.** `IInv` = `TypeOK ∧ WorkInv`: every state of a run, in memory, in a checkpoint or
behind a decision, is one an uninterrupted run of its thread could be in (`Sound`: the desks,
both debates and the settings agree). Lemmas per kind of node show that it
stays so, numeric ones that the routing ends each debate where it should. `NothingRedone`
follows from counting (`MadeInv`): `made` is what the thread's run, or its checkpoint, has done,
and `redone`; a run that prepares to start has found no checkpoint. Nothing is claimed of
a thread that two processes ran at a time (`shared`).

**Only model-checked:** liveness, that is `CallEnds`, `StopEnds`, `EodExits`, `SessionEnds`,
`Recovered`, `ChildrenEnd`; every invariant and action property that a run checks is proved,
some under the assumptions of the table. Liveness under fairness and `ENABLED` are out of the
prover's reach, as are `RECURSIVE` operators (no module declares one) and the induction
theorems of the library, which take an operator as a parameter. Where a proof needs an
induction over numbers or finite sets it takes a minimal
counterexample instead.

## 5. Where code and documentation disagree

Shown by a run: **`second_sale`** (`sellable.py:295`): SELLs that positions do not show yet are
estimated as the larger of two estimates, of which each may know a different SELL; a third
one of the same shares passes. `PROJECT.json` quotes the statement of
`docs/trading/live-trading.md:158`. `guard` shows that it needs a book that does not list an
accepted order yet: without that, no shares are sold twice.

Met while modelling; the properties name them as exceptions, or the models show them:

* `LO:1800`: after a second CancelledError the shielded cancel loop marks the order final *after*
  it was handed over as interrupted; its fill is recorded by nobody
  (`docs/trading/live-trading.md:135` says that fills are never lost). `NothingForgotten` is
  stated for one CancelledError.
* `LO:1343`: a look-alike adopted in the reconcile window is cancelled like our own order
  (`live-trading.md:185` says that never happens). The theorems assume `Alone`.
* `PM:631`: a resume cancelled at its timeout frees the order lock while its booking runs on;
  another process books the same shares, with an alert (`live-trading.md:136`). It is the
  trouble "cut" of `BookedOnce`.
* `sellable.py:266`: a tagged uncertain exit that the book lists counts against the account but not
  against the position; the next exit sells older holdings (`live-trading.md:159`).
  `KnownExitsKeepHoldings` is limited to exits the code knows to be its own.
* `LO:440–484`, `LO:591–601`: the lag window of an own exit starts when its fill is recorded, and
  again with each resync that records it anew. A fill confirmed late counts, for another window,
  on top of positions that show it, where `live-trading.md:158` speaks of fills "that positions
  do not show yet". `ExactOnceShown` says exactly how much is held back then (`HeldBack`).
* `PM:938–943` says that the loop ends only on a confirmed empty read; a wrong read without the
  row confirms as well. `EndsClean` names it (`wrong`).
* `SCH:858–867`: a live session that fails by itself after a stop or at its deadline (an exception
  in CLOSING, say) is recorded as handled, no monitor is run, and the alert gives its exit code
  but does not say to look at the broker (the table of `mac-mini.md:370` does). `Attended` and
  `Recovered` except it (`lost`), with the death of the host over a job recorded as handled.
* `DA:283–287`: a session that has bought nothing and is not stopped skips MONITORING and goes on
  to CLOSING, which sells at MARKET, in the middle of the day, whatever positions of the day the
  account holds: of `skopaq trade`, bought by hand, left by an earlier session.
  `live-trading.md:175` says only of MONITORING that it hands over no position early.
  `NoMiddaySale` is stated for sessions that have bought something.
* `DA:562`: what became of a SELL signal is not looked at. If its order stays at the broker, and
  the session has bought nothing and is stopped, no resume and no alert at the end covers it.
* `DA:893`: an exit that gets stuck in CLOSING's second pass is given up although another pass
  would fit, where the docstring (DA:830–831) says that passes go on.
* `pnl_history.py:5–8` says that a loss stops trading whichever process it happened in; a running
  process never sees another's after its seed, one that could not read the rows when it
  started (`pnl_history.py:79–84`) none of before, and a sale without a known cost is not
  counted (`executor.py:198–202`). `LossesStop` names these (`unseen`).
* `kill_switch.py`: a resume on one machine leaves another machine's HALT file; a failed read
  of the row is cached as "not halted". `HaltIsCurrent` is about halts that are on record where
  the process reads.
* `lifecycle.py:400`: a row that could not be closed is reported to nobody, where `on_trade`'s
  docstring says failures are. It is a member of `silent`.
* `memory/store.py:143–147`: two saves that overlap can drop what the other added between its
  read and its upsert; the next save of that machine brings it back. `_cap` may drop a
  settled decision that another machine still has pending, which then comes back.
* `trading_graph.py:168–191`: the signature of a run leaves out the models of the roles, so a
  resume can carry reports other models wrote (its docstring says that reports of other
  settings are never carried). `SoundDecision` is stated up to them (`Alike`).
* `trading_graph.py:237–240`, `:386`: a run decides whether to resume before it settles earlier
  decisions and loads the checkpoint after it; if another process finished the thread meanwhile,
  it resumes nothing and fails.
* `checkpointer.py:85–99`: an error of `clear_checkpoint` is swallowed; a later run of the day
  returns the old decision.

## 6. Hazards without a property

`PROJECT.json` lists each hazard at its line. Three have no property. For two the code has
nothing that could keep one: a kill between the POST and the journal line (LO:1205), and a death
between the "final" and the "booking" line (PM:394), after which a fill is booked by nobody. The
third is the deadline, which `_place` tests again right before the request (LO:1194): test and
request are one step of `Send`, so a property would only repeat the guard. The await left
between them, the client's rate limiter (`client.py:243`), may delay a request past `place_by`
by about a second, which the deadline's margins cover.
Others are choices of the code that the models contain and no property forbids: unusable
lock directories, claims won by a process that dies, an older book
read that lands in the cache after its invalidation (LO:780), `reset_daily` (SC:612), which
nothing calls.

## 7. Not modelled, and the plan

| Part | Why |
|---|---|
| Paper engine, risk sizing, drawdown, scanner ranks | arithmetic of one process in memory: unit tests reach it, and no order of events is at stake |
| Broker client, rate limiters, token manager, data vendors, model clients | requests and answers; what a call can answer is the environment of the models above |
| Market streams | price updates without order state; the feeds have no caller in production |
| LLM cache, SkopaqTrader's own agent graph | caching of answers; a sequential pipeline that ends in one signal |
| Options, advanced orders | one-shot calls without local order state |
| Blockchain, learning, backtest | offline analysis |
| Chat, Telegram, MCP, web and command-line interfaces, upstream command line | callers of the parts above |
| Database | its calls are the environment of `TradeRows`, `Gate`, `DecisionLog` |

These are most of the repository's lines. They hold no state that an order of events could
spoil, so a model of them would only retell them.

Left to do: `LateFillBooking`'s resume of a whole queue at a time instead of one order;
an uncertain placement taken over by the monitor; the paper branches of daemon and monitor;
the link and rollback of SELL rows.
