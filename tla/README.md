# Stock Monitor: TLA+ models and proofs

Models of the parts of this repository (`src/`, "Stock Monitor") whose
correctness depends on the order of steps: what reaches the Telegram chat, how
often, and what the SQLite tables, JSON state files and lock files say about
it when processes crash, overlap or get no answer.  TLC checks the models on
small instances; TLAPS proves their most important properties for every value
of the constants.  `PROJECT.json` is the machine-readable index: components,
runs, mutants, the map from definitions to source lines, findings, hazards and
theorems.

Paths below are relative to `src/`: `cli.py` is
`src/stock_monitor/cli.py`, `repository.py` and `schema.py` are in
`src/stock_monitor/db/`, the `.ts` files in `web/src/server/`.

## 1. The system

A Python package runs as short CLI commands, started by the Windows Task
Scheduler or by the operator, plus one long-running Telegram command loop; a
Next.js front end serves read-only pages and hosts two in-process monitors.
They share nothing but files: one SQLite database (written by Python only), a
JSON control-state file, and on the Next side JSON state files, lock files and
a spool directory.  The scheduler does not start a second *scheduled* instance
of a task (`IgnoreNew`), but nothing in the program excludes a manual run, or
another task, at the same time.

```
 Naver/KRX/Toss --> poll --> reports --> intraday batches --> Telegram
                      |         |
                      |         +--> daily_stock_summaries --> daily summary runs --> Telegram
 Toss bars --> Next monitor --> spool files --> chart-alerts-dispatch --> outbox --> Telegram
 Telegram --> command loop <--> control-state file <-- intraday alerts, daily summary
```

### Inventory

| Component | State it keeps | Operations | What is hard | What makes it correct |
|---|---|---|---|---|
| Daily summary delivery (`cli.py:24775-25085`, `repository.py:916-1232`) | `daily_summary_delivery_runs`, `..._fragments`, `delivery_log`, paging state | duplicate check, start / resume / supersede a run, send a fragment, mark it, complete, log, save paging | crash between send and mark, changed signature, overlapping runs, unknown outcome | fragments in order, each accepted once per attempt, an unknown outcome waits for a review, no record runs ahead of the chat |
| Chart alert outbox (`chart_alerts.py`, `chart-alert-store.ts`) | spool files, `chart_alert_outbox` | spool, scan, import + sweep, unlink, claim, send, mark | crash between table and file, two dispatchers, sweep of a live row, full spool | at most one attempt per event, nothing lost between file and table, every event settles |
| Lock files (`chart-alert-store.ts:125`, `chart_alerts.py:287`) | a file with pid and token | create, judge, take over, release | check-then-unlink, dead owner, failed write | one holder; a dead one is replaced |
| Chart alert monitor (`chart-alert-monitor.ts`) | state file, lease, timer, busy flag, write queue | status, add, remove, start, pause, tick | awaits between read and write, controls against ticks, two servers, restart | no update lost, one owner, a running monitor is polled, known events are not repeated nor lost |
| Collection and intraday alerts (`cli.py:10781-10880, 18307, 44702-44991`, `repository.py:642-797, 3612-3799`) | `reports`, `intraday_alert_batches`, `daily_stock_summaries` | insert + queue, rebuild, slot delivery, manual delivery, reviewed retry | overlapping polls, stale batch lists, starvation behind a failing batch | every new report queued once, sent means received, ambiguous waits for a review, summaries count every report |
| Telegram requests (`notify/telegram.py`) | none | request with retries, classification of errors | unknown outcomes, replies cut short | a definite failure was not accepted |
| Telegram commands (`cli.py:42711-43325, 43779-44503, 45179`, `notify/control.py`) | control-state file (offset, applied ids, photo note, pending selection, paging counts) | fetch updates, store a memo, task or photo, page, answer, save | no lock on the file, crash between effect and save, an answer that always fails | each update has its effect once, later ones are reached, no stock is left out of the pages |
| Briefing slots (`cli.py:24524-24772`) | `delivery_log` | check, compose, one attempt, log every outcome | crash between send and log, overlap, ambiguous outcome | one message per slot unless the operator repeats it |
| KRX KIND alerts (`cli.py:42598-42679`, `fetch/krx_kind.py`) | `delivery_log` | search page, send with retries, log a success | lost answer, failing notice before others, page limit | every notice is alerted, repeated only with a cause |
| Chart Lab monitor (`chart-lab-monitor.ts`) | state file, timer, pattern list | start, pause, tick | same awaits, no lease | no update lost, polling goes on |
| Schema migrations (`schema.py:803-925`) | `user_version`, tables, `schema_migrations` | initialise, upgrade | two processes on a new file, programs of different age, crash between statements | version, tables and rows agree; any database can be upgraded |
| Operator controls, settings, worker state (`repository.py:1335-1620`) | single rows + audit | set, clear | read outside the transaction | audit tells the truth |
| Toss client (`toss-openapi.ts`, `toss-priority-quotes.ts`, `toss-market-context.ts`, `toss_openapi_web_view.py`) | token, pending token request or lock, reissue budget, cache, requests in flight | look up or join, fetch, get, reissue | concurrent 401s, failing token requests, waiters of a failed fetch | one reissue, no older token, one request set per key, every call answered |
| Response cache (`stored-response-cache.ts`) | map | get | expiry, limit | bounded size and age |
| Business days, summary arithmetic | none | pure functions | boundaries | reference definition |
| Collectors, market capture, news, backtest, views, CLI, scripts | none of their own, or keyed upserts | parsing, projection, formatting | - | out of scope, see section 8 |

The hazards these components are exposed to, each at its line and with the
properties that would notice, are listed under `hazards` in `PROJECT.json`.

## 2. Modules

| Module | What it is |
|---|---|
| `DailySummaryDelivery` | delivery of one date's production summary on one channel |
| `HeldDelivery` | abstract: a message is sent while it is open, held when its outcome is unknown, and repeated only with an excuse, a lost outcome or a review; `DailySummaryDelivery` and `IntradayAlerts` implement it |
| `OneShotDelivery` | abstract: an event is tried at most once, is in flight, received at most once, confirmed only if received |
| `ChartAlertOutbox` | spool directory, outbox table and dispatchers; implements `OneShotDelivery` |
| `AtomicLease` | abstract: a file belongs to one process or none, and only its owner acts as holder |
| `FileLease` | the lock-file protocol of both languages; implements `AtomicLease` until a process dies |
| `ChartAlertMonitor` | the Next monitor service of one or more servers on shared files; implements `AtomicLease` until a server dies |
| `IntradayAlerts` | polls, batches, daily summaries, intraday delivery |
| `TelegramCommands` | the command loop and the control-state file it shares with the deliveries |
| `MarketMessages` | briefing slots and KIND alerts over one day's `delivery_log` |
| `SchemaMigration` | creation and upgrade of the database by programs of different age |
| `TossProvider` | one provider of Toss data in either language, with its cache and access token |
| `MC*` | model values and definitions for TLC, nothing else |
| `*_proofs` | theorems and proofs about the module they extend; those of `FileLease`, of which it has an instance, are in `ChartAlertMonitor_proofs` |

Common conventions.  A step is what the code does without giving anybody else
a chance: one SQLite transaction, one HTTP request, one file-system call, or
the synchronous stretch between two awaits.  A process is a value of a set; its
program counter and locals are functions of it.  `Crash(p)` forgets the locals
and keeps tables and files; `crashes` counts it.  A Telegram send has three
outcomes, and whether the chat got the message is a separate choice restricted
by the outcome: reported as sent implies received, a definite failure implies
not received, anything else is unknown.  One case breaks the second rule: a
reply that breaks off while it is read raises an exception that no handler of
`telegram.py:49` lists and that `cli.py:25059` does not call ambiguous, so a
message that may have been received is reported as a definite failure.
`DailySummaryDelivery` (`TruncatedReads`), `IntradayAlerts` and
`MarketMessages` have it, and count it as an excuse for a repetition
(`broken`); the chart alerts call every exception ambiguous.  History variables
(`accepted`, `received`, `spooled`, `silent`, `applied`, `crashes`, `broken`,
`overlapped`, `reissues`) appear in no guard except as named bounds.
Operators named `X_Something`, with a comment that starts "Mutation:", are the
seeded bugs that show each property can fail; nothing else uses them.

### `DailySummaryDelivery`

One date and channel, because every query of the path is restricted to them.
`Invoke`, `SkipSent`, `CheckReview` and `Refuse` are the reads and early returns
of `_run_send_test_notification` before a run exists; `Resume` and `Start` are the
two outcomes of `start_or_resume_daily_summary_run` (one transaction that also
supersedes other signatures and, for an authorised retry, ambiguous runs);
`ListPending`, the sends, the marks, `LogFailure`, `Complete`, `LogSent` or
`LogRefused` (the unique index) and `SavePaging` are the loop and its ends.
`broken` counts the accepted messages whose reply broke off, `overlapped` says
that two invocations have run at once.  A signature determines its messages
(`Size`, `Text`), so that two signatures may share a text: reports that arrive
in between change the summary, not every message.

### `HeldDelivery`

What the two resumable deliveries have in common, with every table left out:
where a message stands (open, sent, held, closed), what is in flight, how often
the chat has received a message, and how many excuses there are for a repetition.

| | `DailySummaryDelivery` | `IntradayAlerts` |
|---|---|---|
| a message | a fragment of a run | a report, which shares the fate of its batch |
| open | status pending or failed | the same, or ambiguous while a review has it in hand |
| held | ambiguous, its run not superseded | ambiguous, and no review has it |
| closed | its run is superseded | never |
| in flight | answered, not yet marked | in the last message, not refused, not yet marked |
| excuse | a crash, a reply that broke off | a crash, a reply that broke off, a review |
| `Plan` | `Resume`, `Start` | `Insert` |
| `Deliver`, `Misread` | the sends | `Send` |
| `Settle` | `MarkSent`, `MarkAmbiguous` | `Mark` |
| `Withdraw` | - | `Continue` of a review that stops early |
| `Reopen` | - (a review supersedes the run) | `Process` with a review |
| `Lose` | `Crash` | `Crash` |

All other steps change nothing of this.  The mapping is a set of definitions
beside the properties of each module (`standing`, `flying`, `excuses`).

### `ChartAlertOutbox` and `OneShotDelivery`

`CheckRoom`/`Spool` is the writer (count, then rename), `Report` an unrelated
poll that gives a stock its second report, `Scan`, `Import`, `Unlink`, `List`,
`Claim`/`Skip`, the sends, `Mark`, `Finish` the dispatcher.  The lock between
dispatchers is *not* assumed: `FileLease` shows that two can hold it, and the
promise of the outbox rests on the conditional updates alone.  The refinement
mapping to `OneShotDelivery` (`OneShot`) reads what was tried and confirmed off
the table rows, and what is in flight off the dispatchers that are sending.

### `FileLease` and `AtomicLease`

The path of the lock holds nothing, or a file of some process that may still be
empty (`named = FALSE`).  `Judge` reads it, `Unlink` removes whatever is there
by then, `Verify`/`Remove` are the two steps of the release.  `CleansUp` is the
one difference between the languages: the TypeScript side removes its file after
a failed write.  A pid is not reused.

`AtomicLease` is the lease without its file: `Take`, `Enter`, `Leave`,
`GiveBack`.  Seen through the mapping (the owner is whoever created the file,
the holders are whoever went on after naming it), every step of `FileLease` is
one of these or none, until a process dies.  `ChartAlertMonitor` makes the calls of the
protocol one by one too, among the awaits of its requests, and satisfies the
same specification until a server dies: this is how the two modules fit
together.  After a death neither does, because `Judge` and `Unlink` are two
calls, and a second contender can remove the file of the first
(`FileLease_takeover.cfg` refutes mutual exclusion there).

### `ChartAlertMonitor`

`state` is the JSON file, `lock` the lease file: `Create`, `Exists`, `Judge` and
`Clear` are the file-system calls of `acquireChartAlertLock`, `Release`, `Verify`
and `Unlink` those of giving back, each a step.  Only the moment between the
creation of a file and its naming is left to `FileLease`.  `key` says who has
the closure with the file's token: the request that created it, the service, or
nobody any more, once another request has overwritten it.  Per server: the lease it
believes to have, the timer, the busy flag, the tick past it, and requests in
flight (`Slots`), each with its own program counter over the awaits of
`getStatus`, `addWatch`, `removeWatch`, `start` and `pause`.  `writer`/`snap`
are the promise chain that serialises `update` within one process; updates of
two processes interleave.  `FailUpdate` and `Throw` are failing file
operations, `Finally`/`Reschedule` re-arm the timer.  Which watch is due is a
choice; delays and backoff only decide when.

### `IntradayAlerts`

A poll has a number, and its batch for a date is the pair of the two, as a
batch id is created once per poll and date.  `Insert` is the transaction of
`insert_reports` with the batches of the new reports, `Rebuild`/`Replace` read
and replace one date's summary rows, `EndPoll` ends the poll or goes on to
deliver.  A slot sends its day's batches in one message; `manual` and
`process-intraday-alerts` send every pending batch one by one, pass over a
failed one, and stop after an ambiguous one or one that needs paging.  The
list comes in any order because the code orders by time and a random id.
`collect` is the poll without alerts, also the recovery of a missed
collection.

### `TelegramCommands`

`inbox` is what the bot has received and `confirmed` what the server has
forgotten; `control` is the JSON file, and `mem[a]` the private copy of a
process: the processor of commands (`Processors`) or a delivery (`Writers`).
`Begin`/`Open` load the file, and every later save replaces it as a whole, as
`save_control_state` does.  An update is its kind.  `Skip` is an update without
a command; `Apply`, `ApplyAgain`, `Decline` and `Note` are the commands with side
effects, which are saved (`Save`) before they are answered; `Lookup`, `Pick` and
`Answer` are only answered.  `Send` may fail (`Raise`), or be refused every time
because the page is longer than a message (`Refuse`); only `Commit`, after the
answer, moves the counts and the offset.  The three lists of applied ids are two
here (`tasks` for memos, checks and progress notes, which follow one pattern).
`CloseIntraday`, `CloseDaily` are what a delivery writes into the file.

### `MarketMessages`

Both kinds of message go through `send` and `record`, but differ in everything
the code differs in: a slot has one attempt and logs every outcome with the
time of the attempt (`RecordSlot`); a notice has `Attempts` attempts, is logged
only when sent (`LogNotice`), and any other end raises out of the check
(`DropNotice`).  `Answered`, `Unanswered`, `Unreadable`, `BrokenOff` and `Refused`
are the ends of an attempt of `_request_json_with_retries`, one step each: only a
transport error or an HTTP status is followed by another attempt; an unreadable
reply is ambiguous at once, and one that breaks off failed at once.  `Newest` is the page of the
search; a notice pushed off the page is never seen again.

### `SchemaMigration`

Before its first `INSERT`, a connection of Python's `sqlite3` commits every
statement by itself: `Read`, one `Create` per table and `Stamp` (the first
`PRAGMA user_version`) are steps others can interleave with.  From `Begin` to
`Commit` there is one transaction on a private copy.  `Supports[p]` is the
version of p's program, `Adds` the migrations that add columns and so cannot be
repeated.  `Together` lets a second process start while a new database is being
created.

### `TossProvider`

A call of the web surface is looked up (`Lookup`) or fetches its key (`Fetch`,
`Store`, `Conclude`); its request set is `Required` GETs and one whose failure is
forgiven, which stands for the investor volumes or the stock names.  `runtime`
is the only difference between the languages: in Next whoever needs a token
joins the pending request and is answered with it (`Joined`), and a refused
token is dropped before another is asked for; in Python threads take
`_token_lock` one after the other, a refused token stays until it is replaced,
expiry is not looked at, and a `HTTPException` passes every handler (`Break`).
Waiters are told at once (Next), or woken and look into the cache when they run
(Python), or lose patience (`LookAgain`).  `Issue` and `Forget` are the server: it
accepts the token it issued last, and may stop accepting it at any time, because
it expires or because another program (five services of Next have a client each,
with the same credentials) asks for one.

## 3. Properties

The comment above each property says what it means and which behaviour it is
about.  In short:

* **Nothing is recorded that did not happen**: `SentRunIsComplete`,
  `SentWasAccepted`, `StatusIsTrue`, `PassedWasHandled`, `NoPageIsSkipped`,
  `VersionTellsSchema`.
* **Repetitions have a cause**: `ImplementsHeldDelivery` (daily, per fragment of
  a run; intraday, per report), `AttemptedOnce`, `KnownIsNotRespooled`, `RepeatNeedsTornSave`, `SlotRepeatNeedsCause`,
  `NoticeRepeatNeedsCause`, `ReissueIsBounded`, `OneRequestSet`.
* **Unknown outcomes wait**: `AmbiguityIsHeld`, `HeldUntilReview`,
  `ImplementsHeldDelivery`.
* **Nothing is lost**: `QueuedOnce`, `NothingIsLost`, `KnownIsAccountedFor`,
  `NoLostUpdate`, `SummaryIsCurrent`, `AnnouncedImageIsStored`.
* **Order and repetition of commands**: `DeliveredInOrder`,
  `RerunSucceeds`, `TokenIsNewest`.
* **Nothing is given up without need**: `ExhaustedMeansSpent`.
* **Progress**: `EveryEventIsSettled`, `StaleLockIsRecovered`,
  `RunningIsPolled`, `NoBatchIsStarved`, `EveryUpdateIsPassed`,
  `EveryNoticeIsAlerted`, `SchemaBecomesCurrent`, `EveryCallIsAnswered`, and
  the safety properties `PollerIsArmed`, `SpoolNeverBlocks`.
* **Abstraction**: `ImplementsHeldDelivery`, `ImplementsOneShot`, `ImplementsLeaseUntilCrash` (of
  the lock files and of the monitor's use of them: the lock excludes, and only
  its owner removes it, until a process dies).

Two are properties of steps, because a state does not show what they forbid:
`AmbiguityIsHeld` (a run leaves "ambiguous" only through an invocation with
`--allow-repeat`, and until then nothing is sent) and `KnownIsNotRespooled` (no write
to the spool is of a pattern the state file calls known, whether it is in the
spool already or not).

Further properties (`DuplicateNeedsCrash` of both deliveries, `OneOwnerUntilCrash`, `ExclusiveUntilCrash`, `DeliveryCanBeLogged`,
`FinishedRunsStay`, `FailedWasNotAccepted`, `StatusOnlyAdvances`, `ReleaseIsOwnUntilCrash`,
`SentWasReceived`, `LogMatchesReceipts`, `RowsMatchVersion`,
`VersionNeverFalls`, `ErrorMeansNothingRecent`, `RecordsAreBacked`,
`OwnerIsNamedUntilCrash` and each `TypeOK`) are stated in the modules, and most of them
proved, without being in a listed run.

Every listed property has a mutant, a plausible bug in a mapped definition
that makes TLC refute it.

## 4. Runs

| Run | Instance | Shows | Distinct states |
|---|---|---|---|
| `daily_summary` | 2 processes, 3 invocations, 2 signatures of 2 fragments with a common first text, 2 crashes, overlap, truncated replies | a held delivery, in order and complete, until invocations overlap; what is called sent even then | 2.85 million |
| `chart_alert` | 2 events, 2 dispatchers, 1 writer, spool of 1, limit 1, 1 crash | safety, refinement, settlement | 47,894 |
| `lease` | 3 processes, 2 crashes, 1 failed write | an atomic lease until a crash, recovery after one | 794 |
| `monitor_one` | 1 server, 2 requests, 2 watches with room for 1, 2 controls, 2 polls, 1 failed write, 1 file error | lost updates, arming, repetition | 5.60 million |
| `monitor_two` | 2 servers, 1 request each, 1 control, 2 polls, 1 crash | the lease is atomic until the crash, nothing forgotten, polling | 1.35 million |
| `monitor_rearm` | 1 server, 2 status requests | **refuted**: `RunningIsPolled` | - |
| `intraday_serial` | 1 process, 3 reports of 2 dates, 2 polls, 1 review, 1 crash or broken reply, page of 1 | queue, held delivery, summaries, review, starvation | 808,051 |
| `telegram_loop` | 1 processor, 1 delivery, 2 updates of 11 kinds, 1 failure, 3 stocks in pages of 2, 1 applied id kept | updates, effects, photo notes, pages, progress | 395,151 |
| `market_messages` | the worker and 1 other process, 1 slot, 3 notices in pages of 2, 2 attempts, 1 fault, 1 repeat | causes of repetitions, no notice withheld | 739,346 |
| `schema_upgrade` | programs of 3 versions, databases of versions 0, 1, 2 and 4, 2 tables, 2 failures | version, tables and rows agree, upgrades end | 1,371 |
| `toss_provider` | 2 calls, 2 keys, both runtimes, 1 GET that must succeed and 1 that may fail, 2 tokens | one reissue, no older token, shared request sets, answers | 165,447 |
| `schema_fresh` | 3 programs creating one new database at the same time | **refuted**: `RerunSucceeds` | - |

Every bound is a constant named in its module.  Why these are enough:

* *Processes*: every conflict in the code is between one actor and one other
  (two holders of a list, reader and writer, sweeper and sender).  The lease
  has three because a take-over needs a dead holder and two contenders.
* *Fragments, events, reports*: two fragments give an order and a partial run;
  two signatures a supersede and, with three invocations, a return to the
  first; two events a full spool of one and a second page; three reports two
  batches on one date and one on another, above and below the page size.
* *Crashes*: one shows each lost mark; the second in `daily_summary` hits the
  resumed run, in `lease` the taker-over.  `MaxLosses` of the intraday alerts
  counts crashes and broken replies, `MaxFaults` of the market messages any
  attempt that goes wrong and crashes.
* *Polls and controls*: two polls of one watch are a baseline and an
  observation; two controls are a change and its opposite.
* *Updates*: two are a note and its image, a search and its number, a page and
  the next one, or a failing update before another.  With one applied id kept,
  every id is evicted by the next; the theorems hold for any number.
* *Notices*: three in pages of two let one be pushed off the page.
* *Tokens and calls*: two calls are an asker and one who joins or comes late,
  for the same key or different ones; two tokens are one refused and its
  replacement, which can be refused in turn.
* *Versions*: a database below, between and at the migrations that add columns,
  and programs that stop before, between and after them.

Where the code promises a property to one process at a time only, the property
says so itself, by a history variable that tells whether two have overlapped
(`DailySummaryDelivery`, `TelegramCommands`, `MarketMessages`), or the instance
does, by a constant (`IntradayAlerts`, and `Servers` of the monitor); the proofs state the same conditions.
Deadlock is checked where the model has no natural end; where a bounded instance ends because its
invocations are used up, the module has an explicit resting step (`Rest`).  The
command loop, the worker of the market messages and the migrations rest when
nothing more arrives: there deadlock is not checked, and being stuck is the
subject of `EveryUpdateIsPassed`, `EveryNoticeIsAlerted` and
`SchemaBecomesCurrent`, as it is of `RunningIsPolled`, `EveryEventIsSettled`,
`StaleLockIsRecovered` and `NoBatchIsStarved` elsewhere.

### Fairness

* Dispatchers (`ChartAlertOutbox!FairSpec`): weak fairness of a pass.
  `--watch` starts one every few seconds, a started pass runs on.  None for
  the writer, for second reports or for crashes.
* Lock: weak fairness of a process's steps; contenders try again at each pass
  or status request.
* Monitor: weak fairness of timers, ticks and requests (the event loop) and of
  status requests: an open panel asks every 10 seconds
  (`web/src/components/chart-lab-report-alert-panel.tsx:60`).  None for
  controls, polls with news, failures or crashes.
* Intraday: weak fairness of a started invocation, strong fairness of starting
  `process-intraday-alerts`, the operator's recovery command
  (`docs/codex/operating-guide.md:341`).  Strong, because other invocations
  keep the single process of the instance busy in between.  Nothing assumes
  that a send ever succeeds.
* Daily summary: no liveness is claimed; an ambiguous run waits for a human.
* Command loop: weak fairness of the processor's steps, a declined task and a
  refused page included: the loop runs every `interval_seconds` and goes on
  after exceptions (`cli.py:42767`).  None for arrivals, deliveries and failures.
  An update behind a page that Telegram refuses each time is excepted.
* Market messages: weak fairness of the worker's checks (every minute,
  `cli.py:42782`) and of what a process has begun; none for slots.  A notice is
  promised its alert while the market hours last and while it is on the page.
* Toss provider: strong fairness of what a call does once it has begun.  Every
  HTTP request ends, if only by its timeout (`toss-openapi.ts:511`,
  `toss_openapi.py:874`), and a thread that waits for `_token_lock` gets it in the
  end.  None for new calls, for impatience, expiry or success.
* Migrations: weak fairness of starting a command, strong fairness of its
  steps, as SQLite's busy handler gives the lock to one that waits.

## 5. Where code and documents disagree

Two listed runs end in a counterexample; the finding in `PROJECT.json` quotes
the document.

1. `monitor_rearm`: two status requests after a restart; the refused one
   overwrites the lease of the other with null (`chart-alert-monitor.ts:53`),
   and a running monitor is not polled again.
2. `schema_fresh`: two processes create one database at the same time; the
   second takes the version back to 1 after the first has migrated
   (`schema.py:814`), and from then on every program fails on a column that
   exists already.

More configurations are kept beside the listed runs; each shows TLC refuting
one property of a model:

| Configuration | Refuted | About |
|---|---|---|
| `DailySummary_lost_log.cfg` | `SentRunIsNotRepeated` | a crash between completing a run and logging it (`cli.py:24908`) repeats the whole summary, which `stock_research_monitor_mvp.md:130` excludes |
| `DailySummary_truncated.cfg` | `FailedWasRefused` | a reply cut short (`telegram.py:49`) counts as a definite failure and is resent, which `docs/codex/operating-guide.md:340` excludes; the intraday alerts and the briefing slots do the same (`BrokenOff`) |
| `DailySummary_signature.cfg` | `SentTextIsNotResent` | a new signature resends texts already accepted (`repository.py:957`; `stock_research_monitor_mvp.md:133`) |
| `DailySummary_retry.cfg` | `AmbiguousIsNotRetried` | a process killed with an unrecorded unknown outcome lets the next one resend (`cli.py:24976`; `operating-guide.md:340`) |
| `FileLease_takeover.cfg` | `MutualExclusion` | two contenders judge one stale file; the second unlinks the fresh lock of the first (`chart-alert-store.ts:146`, `chart_alerts.py:305`) |
| `FileLease_release.cfg` | `ReleaseIsOwn` | a release unlinks a lock that changed hands after the check, against the comment at `chart-alert-store.ts:140` |
| `ChartMonitor_exclusive.cfg` | `PollingIsExclusive` | `pause` releases the lease under a running tick (`chart-alert-monitor.ts:113`), and another server polls the same watch (`docs/codex/chart-alert-proposal.md:28`) |
| `ChartMonitor_elsewhere.cfg` | `OwnerElsewhereIsElsewhere` | the owner is told that another server owns the monitor (`chart-alert-monitor.ts:55`) |
| `Intraday_held.cfg` | `HeldUntilReview` | two invocations list one batch; the second sends it after the first has marked it ambiguous (`cli.py:44743`) |
| `Telegram_poison.cfg` | `RepliesAndAdvances` | a page is one message however long it is (`cli.py:43286-43315`); Telegram refuses it each time, and neither it nor any later command is ever answered (`docs/codex/mini-pc-runbook.md:684`) |
| `Telegram_photo.cfg` | `StoredIsAcknowledged` | a photo is stored and its note consumed, the answer fails; as a plain image it is skipped the next time, and the operator is never told (`cli.py:43011`) |
| `MarketMessages_once.cfg` | `OneAlertPerNumber` | an answer that is lost is followed by another attempt (`telegram.py:60-77`), against "one operator alert per official acceptance number" (`mini-pc-runbook.md:64`) |
| `Toss_once.cfg` | `OneReissue` | in Next a refused token is dropped, and when the request for another fails the next refused GET asks again (`toss-openapi.ts:466-469`), against "one token reissue ... for the server lifetime" (`docs/codex/toss-openapi-lab.md:932`; `web/test/toss-priority-quotes.test.mjs:406`) |

In Python the same failure spends the budget for good: the refused token stays
(`toss_openapi_web_view.py:857`), and every later GET is refused until a restart.

Run them as `tlc -config DailySummary_signature.cfg MCDailySummaryDelivery`, and
so on with the `MC` module of the component.

## 6. What is proved

All theorems hold for every value of the constants that satisfies the named
assumptions (`BoundsAssumption`, `MessagesAssumption`, `IntradayAssumption`,
...), which TLC evaluates in every run.  They are proved by the usual three
facts, `Init => Inv`, `Inv /\ [Next]_vars => Inv'`, `Inv => property`, with one
lemma or case per action.  Every component modelled has its proofs.

* **`DailySummaryDelivery_proofs`.**  For any number of processes, runs,
  fragments, crashes and truncated replies.  `SerialCorrect` proves that, until
  two invocations overlap, `SerialInv` holds: only one process is busy
  (`Alone`), what it remembers is what the tables say (`MemoryIsCurrent`), a
  run's status fits its fragments (`TablesAgree`), and the acceptances of a
  fragment are bounded by its status plus the crashes and broken replies
  (`AcceptedIsCounted`).  None of the listed properties is inductive alone: that
  a fragment is not sent twice rests on the memory being current, which rests on
  being alone.  From it: `DuplicateNeedsCrashAlways`,
  `FailedWasNotAcceptedAlways`, `SentRunIsCompleteAlways`,
  `DeliveryCanBeLoggedAlways`, `DeliveredInOrderAlways`,
  `AmbiguityIsHeldAlways`, `FinishedRunsStayAlways`, and the refinement
  `DailyImplementsHeldDelivery`, which has one lemma per action of `HeldDelivery`
  (`LedgerBegin`, `LedgerSend`, `LedgerMark`, `LedgerCrash`) and one for the steps
  that only read (`LedgerQuiet`).  `HeldDeliveryExcuses` proves what the
  abstract specification is worth: from its invariant that only what is open is
  in flight and that what is open or absent has been received on excuses alone
  (`Counted`), every repetition has an excuse.  `TypeCorrect` and
  `SentWasAcceptedAlways` have no condition: however invocations overlap, a
  fragment recorded as sent was accepted.
* **`ChartAlertOutbox_proofs`.**  For any number of dispatchers, writers,
  events and crashes, without the lock: `OutboxInv` adds to the properties that
  a claim is exclusive (`ClaimIsExclusive`), that an unclaimed row has no
  attempt and no receipt (`UnclaimedIsFresh`) and that a file to unlink has its
  row (`UnlinkIsSafe`).  From it `AttemptedOnceAlways`, `StatusIsTrueAlways`,
  `StatusOnlyAdvancesAlways`, `NothingIsLostAlways`, the refinement
  `OutboxImplementsOneShot`, and for a single writer `SpoolNeverBlocksAlways`.
* **`ChartAlertMonitor_proofs`, the monitor.**  For any number of servers,
  requests, watches, failures and crashes, `MonitorCorrect` proves
  `MonitorInv`, which adds to the types: the lease file has one owner inside
  the process it names, either the service or the one request that has just
  created it, as long as no server has died (`LeaseInv`); between the read and the write of an update is
  exactly the request or tick that `writer` names (`WriterInv`); and every
  pattern known to the file, to a snapshot or to a tick past `Match` is
  spooled, in a baseline or still on the tick's list (`KnownInv`).  None of the
  properties is inductive without: a service that gets a lease must not find
  another one there, and a file that is written is an old copy plus what a tick
  remembers.  Hence `OneOwnerUntilCrashAlways`, `OwnerIsNamedUntilCrashAlways`,
  `KnownIsAccountedForAlways` (that one whatever dies) and the refinement `MonitorImplementsLease`.
  The rest is promised by the queue of one process only (two services on one
  file do lose updates, which is why there is a lease), so these theorems assume
  `OneServer`: `ServerCorrect` adds that an update in progress has read the
  latest file (`QueueInv`), that the file is what the updates made it, that what
  a tick is about to spool is not yet known (`TodoInv`) and that a running
  monitor with the lease is armed or has a request in flight that will arm it,
  release the lease or meet a failing file (`ArmedInv`).  Hence
  `NoLostUpdateAlways`, `PollerIsArmedAlways`, `KnownIsNotRespooledAlways`.
* **`ChartAlertMonitor_proofs`, the lock files.**  For any number of processes,
  deaths and failed writes, with and without the clean-up: `LeaseCorrect`:
  until a process dies, whoever is past its creation owns the file
  (`OwnersOwn`).  Hence `ExclusiveUntilCrashAlways`, `ReleaseIsOwnAlways` and
  the refinement `FileImplementsLease`.  What both refinements are worth is
  `LeaseExcludes`: a holder of the abstract lease owns it, and one at most does.
* **`IntradayAlerts_proofs`.**  However invocations overlap, `QueueCorrect`:
  polls have numbers of their own and the batches of a message reported as sent
  are in the chat (`PollsAreNumbered`, `MessagesWereReceived`); hence
  `QueuedOnceAlways`, `SentWasReceivedAlways`.  For one invocation at a time,
  `SerialCorrect`: listed batches are as they were
  (`TodoIsCurrent`), rows read are current (`RowsAreCurrent`), and every
  acceptance is paid for by a mark, a crash, a broken reply or a review (`AcceptedIsPaid`, where
  a reviewing invocation holds one repetition of each batch until it has used
  or dropped it); hence `DuplicateNeedsCrashAlways`, `SummaryIsCurrentAlways`,
  `HeldUntilReviewAlways`, and the refinement `IntradayImplementsHeldDelivery`.
  That one needs the queue's invariant on both sides of a step, since a report
  stands as its one batch does (`StandingFrame`), and `TodoIsCurrent` for the
  batches just sent as well as for those to come: what is marked was open.
  It implies `DuplicateNeedsCrash`, through `RepeatNeedsExcuse`.
* **`TelegramCommands_proofs`.**  For any processors, writers, updates,
  failures and repeated deliveries.  `PInv` (every copy of the control state,
  in memory or in the file, counts only the stocks shown) gives
  `NoPageIsSkippedAlways`; `HInv` (every copy's offset passes only handled
  updates, and marks only updates whose effect is stored) gives
  `PassedWasHandledAlways`; neither has a condition.  For the effects, `SInv`
  says that either two holders of the control state have overlapped or one
  alone works (`Serial`): its copy is in step with the file, each effect is
  stored once and stays marked until the offset passes it.  From it
  `RepeatNeedsTornSaveAlways`, for any `KeepLast` of at least one, and
  `AnnouncedImageIsStoredAlways`.
* **`MarketMessages_proofs`.**  `MessagesInv` counts the receipts of a slot
  and of a notice against the log rows and against the crashes, lost or broken
  replies and overlaps that can excuse a repetition: `LogMatchesReceiptsAlways`,
  `SlotRepeatNeedsCauseAlways`, `NoticeRepeatNeedsCauseAlways`.
* **`SchemaMigration_proofs`.**  As long as no two processes initialize
  together (the run `schema_fresh` shows what happens then):
  `VersionTellsSchemaAlways`, `RowsMatchVersionAlways`,
  `RerunSucceedsAlways`, `VersionNeverFallsAlways`.
* **`TossProvider_proofs`.**  For any calls, keys, GETs and tokens, in either
  runtime.  `TossInv`: a call that fetches is in flight for its key (`Placed`),
  one call at most asks for a token (`OneAsks`), which is newer than every token
  carried, kept or refused (`NewestIsNew`), whoever lacks a token after a 401
  does so because the budget was spent (`AgainIsSpent`), each reissue is paid for
  (`BudgetIsKept`), and the token that spent the budget is not the one kept now
  (`SpentForCause`).  Hence `OneRequestSetAlways`, `ReissueIsBoundedAlways`,
  `ExhaustedMeansSpentAlways`, `TokenIsNewestAlways`, and
  `ErrorMeansNothingRecentAlways`.

The inductive invariants were checked by TLC, as invariants of the instances
above, before they were proved.

Only model-checked: all liveness properties (`EveryEventIsSettled`,
`StaleLockIsRecovered`, `RunningIsPolled`, `NoBatchIsStarved`,
`EveryUpdateIsPassed`, `EveryNoticeIsAlerted`, `SchemaBecomesCurrent`,
`EveryCallIsAnswered`), because liveness under fairness and `ENABLED` are
beyond the installed provers.  Induction over data (an operator parameter) and
`RECURSIVE` operators are out of the provers' reach too; no module uses
recursion.

## 7. Plan

Done in this order, by importance: (A) daily summary delivery, (B1) outbox,
(B2) lock, (B3) monitor, (C) collection and intraday alerts, (D) the command
loop and its control file, (E) briefing slots and KIND notices, (F) schema
migrations, (G) the Toss provider; each with its proofs.  Next:

1. `ChartAlertPipeline`: monitor and outbox composed through the spool;
   end to end, a detected transition is received at most once and not lost
   while the spool has room; two lease holders at the spool limit.
2. `TelegramRequest`: the retry loop and the classification of its errors; an
   abstract send (the `Fits` of the delivery modules) shown to be implemented
   by it except for truncated replies.
3. `OperatorControls`, `ChartLabMonitor`, and pure algorithms
   (business days, backoff and next due time, summary counts) against
   reference definitions.

The refuted statements that teach least have moved from the runs to the
configurations listed in section 5, so that the number of runs stays what one
reads in a sitting.

## 8. What is not modelled

* Collectors, news analysis, backtest, market capture, read views: they parse,
  project or upsert by key; what they deliver is a free choice of the models.
* Message wording, paging text, HTML, logging and operation events.
* SQLite itself: a transaction is atomic and durable once committed (WAL with
  `synchronous = NORMAL` survives a process crash, which is the crash modelled;
  power loss is not).  A `SELECT` before the first write of a connection is a
  step of its own, as Python's `sqlite3` opens the transaction with the write.
* In `IntradayAlerts`: the `delivery_log` row, the control file (its
  unlocked writers are in `TelegramCommands`), and the branch for a batch
  without reports, which `insert_reports` never creates.
* In `TelegramCommands`: the expiry of a stock search (the pending selection), and
  counts over more than one business date.
* In `MarketMessages`: the calendar, profile, review and window guards, which
  are a free choice of when a command finds work.  A KIND notice is
  promised to arrive only while the market stays open, and only if the ones
  before it are not refused at every check.
* In `SchemaMigration`: what a migration does to its tables; a version is a
  number and a migration adds the part of the schema with that number.
* In `ChartAlertMonitor`: the cap of 1000 known ids, backoff times, and the
  wall clock.
* In `TossProvider`: how many GETs are forgiven (the investor volumes of two
  stocks are one here), rate limits, what an answer says, and the second client
  a program may run beside this one, which is `Forget`.
* Windows that no listed property covers, because the code leaves them open: a
  crash between completing a run and logging it (`cli.py:24908`), a signature
  that changes between fragments (`repository.py:957`), two writers at the limit
  of the spool (`chart_alerts.py:146`), and a lock file whose creator died before
  it wrote its name (`chart_alerts.py:305`), which nobody ever removes.
* In `FileLease`: reuse of a pid by another program.
* The Task Scheduler, Telegram and the file system are external; the models
  contain how the code uses them.
