# Telemod in TLA+

Specifications of the Telegram moderation bot in `src/`: what its parts keep, what their steps do,
which of its promises hold, and under which exceptions. TLC checks the modules on small instances;
the TLA+ proof system proves their safety properties for all values of the constants, and that the
task queue implements its abstract specification. What stays with TLC alone is liveness, and that no
handler is held up (section 5).

The program that is built is `src/cmd/telemod/main.go` (`src/main.go` is the same file);
`src/cmd/main.go` and `src/cmd/bot/main.go` start an older version and are not built.

## 1. The system

One process (or several, see below) serves many Telegram groups. Updates arrive by webhook or by
polling, go into a bounded channel and are handled by a pool of update workers, each in its own
goroutine, so that **two updates of the same group or user are handled concurrently and in any
order**. What must survive a restart is in PostgreSQL; what is read for every message is cached in
memory. Anything to be done later is a row of `scheduled_tasks`.

| Component | State | Operations | Correct when |
|---|---|---|---|
| Task table (`internal/db/store.go` 665-856) | `scheduled_tasks` | upsert by dedup key, cancel, claim a batch, complete, fail with backoff, clean up, recover | a row tells the truth about its task; an attempt is handed out once |
| Task worker (`internal/bot/tasks.go`) | the claimed batch, the task in hand | recover at start, poll, execute, store the outcome, clean up | every task is executed, not early, not after a cancel, a bounded number of times |
| CAPTCHA (`captcha.go`, `tasks.go`, `CaptchaStore`) | prompt waited for per user; Telegram's member state | issue, press, expire | a newcomer ends up verified or banned, never stuck, and not both |
| Group settings (`helpers.go`, `admin.go`, `GroupCache`) | `groups`, one cached copy per process | ensureGroup, dashboard, `/setlog`, start-up schema | saved changes stay, caches agree with the table |
| Bad words, allowed domains | `bad_words`, `link_whitelist`, cached lists | scan, warm-up, add, remove | messages are scanned with the stored list |
| Flood limiter (`internal/cache/cache.go` 216-325) | recent messages and last strike per user | Add, CleanupOlderThan | a flood is a flood; one strike per window |
| Security checks and strikes (`security.go`) | `user_strikes`, member state | warn, mute, ban, unmute task | three strikes ban, each counted once |
| Reports (`report.go`) | – | `/report`, the buttons ban and strike | what the log channel is told was done |
| Cooldown limiter (`cache.go` 336-388) | when each user may report again | Allow, Cleanup | one report per interval |
| Administrator cache (`roles.go`, `AdminCache`) | role per user with TTL | look up, cache, evict | nobody is treated by a role older than the TTL |
| Update intake (`bot.go`) | bounded queue, workers | webhook, poll, handle, shut down | accepted updates are handled |
| Polling lock (`store.go` 25-79) | advisory lock | acquire, release | one poller at a time |
| Audit log, metrics (`bot.go` 588-699) | bounded queues, daily counters | enqueue, drop, drain, report | counters lag, never exceed; no handler waits; every day is reported |
| Scanner (`internal/security`) | – | bad words, links | a message is found for a word, or a misspelling, of the list; a link is let through for its domain |

**How they interact.** Update handlers call the store, the caches and Telegram directly; there is no
lock across these calls, so every handler is a sequence of steps that others may interleave with.
The CAPTCHA, the strikes and every message that deletes itself enqueue tasks; the task worker runs
them in one goroutine per process, one after the other. In polling mode a process takes an advisory
lock before it starts its workers (unless `BOT_DISABLE_DB_POLLING_LOCK` is set, or the connection
that holds the lock breaks, which nobody notices); in webhook mode nothing keeps a second process
away, and during a deployment two run side by side. So two task workers on one table are a
configuration the program can be in, and the table's statements (`FOR UPDATE SKIP LOCKED`) are
written for it.

**Hard behaviours.** Upserts over rows that are being executed; recovery that resets rows of a
process that is alive; calls that fail after they took effect; crashes between two steps of a
handler (a SIGTERM is one: `main` waits for the workers at most by way of the polling lock, whose
connection `store.Close` waits for); time-outs of users racing the
users' answers; cache fills racing changes; clocks read before a lock is waited for.
`PROJECT.json` lists each at its line, with the properties that are about it.

## 2. The modules

| Module | What it is |
|---|---|
| `TaskStore` | the table and its statements, one operator each; no specification of its own |
| `TaskWorker` | extends it with instances of the bot, producers, crashes, failing calls, the clock |
| `DelayedAction` | what the queue promises, abstractly: owed, performed, settled, withdrawn |
| `TaskWorkerRefinement` | `TaskWorker` implements `DelayedAction` |
| `TaskWorkerProofs` | the proofs about `TaskWorker`, its refinement of `DelayedAction` included |
| `Captcha` | extends `TaskStore` with newcomers, prompts, the in-memory store, the button, the expiry |
| `CaptchaProofs` | the proofs about it |
| `GroupSettings` | the row of a group, its cached copies, the handlers that read and change them |
| `WordLists` | a list of a group (bad words or domains), its cached copies, scans and commands |
| `GroupSettingsProofs` | the proofs about `GroupSettings` |
| `Scanner` | the scanner's functions: words, edit distance, hosts, domains |
| `MessageScan` | composes `WordLists` and `Scanner`: what a scan by the cached list finds |
| `FloodLimiter` | one user's entry of the limiter, the workers that wait for its lock, the clean-up |
| `MessageCheckProofs` | the proofs about `WordLists`, `MessageScan` and `FloodLimiter`, by which a message is judged as it comes in |
| `Strikes` | extends `TaskStore` with the strikes of one user, mutes, bans, the unmute task |
| `StrikesProofs` | the proofs about the count and the mutes |
| `UpdateIntake` | webhook and polling, the polling lock, the queue, the update workers, shutdown |
| `UpdateIntakeProofs` | the proofs about it: the lock, what is kept, lost and repeated, and in which order |
| `Report` | the command, its cooldown, the buttons, the roles and their cache, the clock |
| `ReportProofs` | the proofs about it |
| `EventQueues` | what moderation leaves behind: the two event queues, the days' counters, the daily report |
| `EventQueuesProofs` | the proofs about it |
| `MC*` | the sets that the `.cfg` files give to the constants |

`FloodLimiter` calls its specification `FloodSpec` (and `FloodInit`, `FloodNext`, `FloodTypeOK`), so
that `MessageCheckProofs` can extend it together with `MessageScan`.

Definitions whose name ends in `_Bug` are the code with a plausible mistake in it (a dropped guard,
a swapped order, an off-by-one). No specification uses one. Putting one in the place of the
definition it is named after makes TLC report the property it is paired with in `PROJECT.json`,
which shows that the property can see that mistake at the bounds of the run.

### TaskStore and TaskWorker

`tasks` is a function from dedup keys to rows, because the column is unique and every producer
gives one. A row has the columns the statements look at: `id`, `runAt`, `status`, `attempts`,
`updatedAt`, and a payload. The payload is a reference (which task this is) and the time its
producer asked for; the code's payload is JSON that the table never looks into. `nextId` is the
sequence, which an upsert that ends in an update also advances.

`phase`, `batch` and `job` are, per instance, whether `scheduledTaskWorker` has recovered, what
`processDueTasks` has claimed and not yet begun, and what it executes. Each iteration is
`ClaimBatch`, then `Execute` and one of `Succeed`, `Fail`, `PersistFails` per task. A call to the
database may fail before its effect (`RecoverFails`, `PersistFails`) or after it (`ClaimLost`).

The code looks at a row's `id` alone when it settles it, and an upsert keeps the id. That is the
heart of the module: **contested** (history) is the set of payloads whose row became pending while
some worker held a claim on it. Two places of the code do that, `EnqueueTask`'s upsert and
`RecoverRunningTasks`; the properties say that these are the *only* two ways in which a promise of
the queue can fail. They do fail so: a payload that is enqueued over a claimed row is marked done
by the worker that finishes the old one, and is never executed.

- `ClaimTokensUnique`: no attempt at a payload is handed out twice, through any mix of upserts,
  recoveries, retries and lost answers.
- `ExclusiveRun`, `DoneWasRun`, `NeverEarly`, `CancelSticks`, `RetryBudget`: a payload is in one
  worker's hands; "done" means executed; nothing is claimed early; a reported cancellation holds;
  attempts are bounded by the limit plus the crashes and failed calls. Each but for contested
  payloads.
- `ServedOrStuck`: every stored task is executed, cancelled or replaced in the end, also across a
  crash, unless a failed call left its row "running" with no worker that has it in hand. In the
  code such a row stays so until the next start of a process.
- `ImplementsDelayedAction`: one bot and keys that are enqueued once (messages to be deleted)
  implement `DelayedAction`, under `slot` = the payloads of pending and running rows and
  `performed` = the payloads whose execution was started.

### Captcha

One key per user. A join, a press and an expiry are sequences of steps, one per access to the
in-memory store, the table or Telegram: `issueCaptcha` is `IssueRestrict`, `IssueSend`, `IssueSet`,
`IssueEnqueue`; `handleCaptchaCallback` is `ClickGet`, `ClickCancel`, `ClickDelete`, `ClickRestore`,
`ClickEdit`; `executeCaptchaExpireTask` is `ExpireCheck`, `ExpireLoad`, `ExpireDrop`,
`ExpireUnprompt`, `ExpireBan`, `ExpireNotice`, and `processDueTasks` then does `Settle`. Every call
may fail and goes down the code's error path. Telegram is modelled from how the bot uses it:
restricting and restoring a user who has left or is banned changes nothing, and banning works on a
user who has left. A user who was banned does not come back (lifting a ban is a moderator's act).
A second join while the first is still being handled is left out, and so is a second press: one slow
press already meets every step of a join or an expiry. Messages that delete themselves
are only recorded in `toDelete`: what becomes of a task is the subject of `TaskWorker`.

- `MemoryBacked`, `NoLimbo`, `PromptsTidied`: what memory, table, prompts and restrictions say of a
  user agrees whenever no handler is under way; `NoLimbo` is the one users would notice: nobody
  stays restricted with nothing to end it.
- `CancelledNotBanned`: an expiry that a press cancelled bans nobody, by no earlier claim, retry or
  recovery.
- `ExpiryDecides`: an expiry on record gets its user out of restriction, across a restart.
- `NoHastyBan`: an expiry bans nobody for whom a newer prompt is waited for, unless it was already
  past its one look at the memory when that prompt was remembered. That exception is real: such a
  user has none of the 60 seconds the prompt promises (`tasks.go` 130).
- `VerifiedIsFinal`: what the bot tells the user; it fails (section 4).

### GroupSettings

`row` is the group's row, `cached` one copy per instance, `handler` what each update worker (and the
audit and task worker, which only peek) is doing: `Insert`, `Select`, `Fill` are `ensureGroup`;
`Update` and `Store` are the save of the dashboard and of `/setlog`. Settings are switches; each
change flips one in a copy and writes the whole row, as `UpdateGroup` does. `Start` includes the
statement of `EnsureCoreSchema` that copies `block_media`, which a database of an older version has
(`legacy`): it is the upgrade at the first start, and is repeated at every later one.

A change is **crossed** if another handler or another instance had the settings in hand when it was
saved, if its answer was lost, or if a later start undid it. The three are real: of two overlapping
changes the later save undoes the earlier one although both were answered "Settings saved.", and a
media setting that was turned off on an old database comes back with the next start, although the
comment at `store.go` 122 calls the schema check idempotent.

- `CacheWasCommitted`: no cache holds what was never in the table.
- `CacheIsCurrent`, `SavesAreKept`: without a crossed change caches agree with the row and the row
  holds exactly the saved changes. This is what the code does promise, and it covers overlapping
  first reads, creation races, failed saves, restarts and the upgrade itself.

### WordLists

The two lists of a group use the same code. Unlike the settings, a list is not written through the
cache but dropped from it, and loaded again by the next scan (`BeginLoad`, `Load`, `Fill`); the
warm-up of a group and `/badword list` load it whether it is cached or not. `CachedWasStored` and
`CachedIsCurrent` are the counterparts of the properties above. The exception of the latter is real
too: a load that overlaps a change stores the old list after the change dropped it, and nothing
drops it until the next change, although the command was answered "Bad word added."

### Scanner and MessageScan

`Scanner` has the functions of `internal/security/scanner.go`, its loops written as recursive
functions: `levenshtein` fills its table row by row as the code does (`Rows`, `NextRow`),
`tokeniseWestern` cuts words character by character (`Cutting`) and joins letters that stand alone,
`MatchesEnglish`, `IsAllowedDomain`, `normalizeHost` and the rest follow. Of characters only their kind
counts (letters, capitals with a lower case, what has a part in a link); "https://" and "www." are
one character each, and the regular expression that finds link candidates is left out: a candidate
is given. Texts in Khmer (`MatchesKhmer`) are found by plain substrings.

`ScannerAssumption` says that the kinds of characters are disjoint and that the lower case of a
capital is a letter; and that the two thresholds are in order, the first not 0. `ScanAssumption` says
what is a word and a domain: words are strings, labels are not empty and have no marks in them.

`MessageScan` joins it with `WordLists`, as `runSecurityChecks` does: a message is judged by the list
the instance has cached. What the list *means* is said without the scanner's means: the set of
strings up to one or two edits away from a word, the words a text says, the labels of a host. `Misspelt`
makes every string that is an edit or two away; `levenshtein` makes none of them.

- `BadWordsAreFound`: with a current copy an instance finds a message exactly if it says a word of
  the table's list, or a misspelling the word's length allows, or spells it letter by letter.
- `LinksAreJudged`: and blocks a link exactly if its host is neither a domain of the table's list nor
  below one, however the link is written.

### FloodLimiter

A worker reads the clock (`Receive`) and then waits for the limiter's mutex (`Add`), so events are
added in another order than that of their times. `Decision` is `FloodLimiter.Add`'s result.
`log`, all events ever, is the reference the decision is compared with. An edited message comes in
like a new one (`dispatcher.go` 16) and counts again, under the same id.

- `DecisionIsExact`: in any order, a flood is declared only over more than `Limit` messages within
  the window, and only those are deleted; as long as messages are added in order it is declared
  exactly then, and all of them are deleted, whatever was pruned or cleaned up.
- `StrikesSpaced`, `FloodsStrike`: strikes are at least a window apart although the entry that
  remembers the last may be cleaned up; a flood that does not strike is covered by one that did.

They hold because a window, with the wait for the lock, is shorter than the five minutes of
`memoryCleanupWorker` (three seconds by default; the proofs have this as their hypothesis); nothing
in the code ties `BOT_FLOOD_WINDOW` to that, and with `Window > MaxAge` `DecisionIsExact` does not
hold.

### Strikes

One user of one chat. `Strike` is `IncrementStrike` (one statement counts and returns the total);
the handler then goes on, by the total, with `Mute` and `Enqueue` (the second strike) or with `Ban`
(the third and later), while other handlers do the same; `Reset` is the goroutine a ban starts. A
warning changes nothing here. `ReportBan` is the button of a report; its other button strikes.
`ClaimUnmute`, `Lift`, `Settle` are the task worker with the one row of the unmute task. What
Telegram does to the rights of a banned member is not known from the code: setting them may lift
the ban or not, and both are in the model. Which messages break a rule is left out: a strike may
come at any time. The end of a mute is computed just before Telegram is asked and given unchanged to
both, so that `Mute` reads the clock and asks in one step.

- `CountIsHonest`: the count is the number of strikes since the last that was answered by a ban, and
  that is the third, for any overlap of handlers, except when a strike fell between a ban and its
  reset, or a reset failed or died (`late`).
- `MuteIsBacked`, `NoEarlyUnmute`: the task of a mute has the time Telegram was given, and an older
  task does not cut a newer mute short. They except two mutes whose steps overlap (`crossed`),
  failed calls, and a crash between the mute and its task.
- `MuteEnds`: a mute with its task in the table ends even if Telegram does not end it by itself,
  across restarts.

### UpdateIntake

`mode` is chosen at the start. In webhook mode `Post` is `handleWebhookHTTP`: the update goes into
the queue and Telegram forgets it, or the queue is full and nothing changes, or the answer is lost
and Telegram keeps it. In polling mode `Start` takes the advisory lock, `Poll` is a call of
`getUpdates` (Telegram forgets what is below the offset when the *next* call names it), `Push` one
turn of the loop that waits for room. `Take` and `Finish` are `updateWorker`. A process ends by
`Stop` and `Exit` (a signal; a kill is the two in a row), or by `Conflict` and `Return` (Telegram
ended its poll). `Break` loses the lock's connection, which the process does not notice. Two
instances, because a deployment starts the new process before it stops the old one.

- `NothingForgotten`, `LossIsBounded`: only the end of a process loses updates, and at most its
  queue and what its workers have in hand; a webhook also loses what it accepts after the signal.
- `RepeatsHaveReasons`: an update is handled twice only after a lost answer (webhook), the end of a
  process or a broken lock (polling). Handlers must stand this: nothing compares update ids.
- `PolledInOrder`: one polling process begins updates in their order. (In webhook mode a refusal
  reorders, and several workers finish in any order in both.)
- `OneAtWork`: two processes are not at work on polled updates together, because the lock is
  released after the workers have stopped, unless its connection broke.
- `EveryUpdateEnds`: every update is handled to its end, or was lost by a process that ended.

### Report

A worker that handles `/report` has read the clock (`ReceiveReport`) when it waits for the limiter's
lock (`Allow`); then the message is forwarded and the one with the buttons posted (`Forward`,
`Post`), each of which may fail. `Cleanup` reads the clock and waits likewise. A message to be
exempted, or a press of a button, asks for the user's role (`Begin`): a cached answer, or `Evict`,
`Ask` (Telegram; a failure counts as "no administrator") and `Set`, which stores the answer for a
TTL from then on. `ChangeRole` is Telegram's. A press with effect is `Ban`, or `Delete` and
`Strike`, and then `Edit` changes the message in the log channel, whose buttons go with it.

- `RoleIsRecent`: whoever is let through or refused was an administrator, or was none, no longer ago
  than the TTL and the wait for Telegram's answer; a failed look-up is a reason to refuse for as
  long. It covers late answers that overwrite younger ones and evictions of answers that came since.
- `ReportsSpaced`: reports of one user are a cooldown apart, less at most the wait for the lock.
- `SaidIsDone`: what the log channel is told of a ban was done, by whoever pressed; of "Delete &
  Strike" unless one of its calls failed. That exception is real: the text does not say so.

### EventQueues

A handler is the sequence of calls it has left: a flood deletes several messages and audits once, a
violation may strike, a third strike bans, a button kicks. Each call that worked puts its event into
`metricCh` (`Track`) or `auditCh` (`Audit`) or drops it when the queue is full; one worker each
empties them (`TakeMetric`, `TrackMetric`; `TakeAudit`, `Log`). `TrackMetric` counts on the date its
statement runs. `Midnight` begins a day and makes the job of the default schedule due; `Report` runs
it. Of the counters the model keeps how far they are behind what was done.

- `CountsAreHonest`: up to any day no more is counted than was done by then; the one exception is a
  ban at a third strike that failed, which is counted as "kicked" all the same.
- `LossesHaveReasons`: what is neither counted (logged) nor on its way was dropped by a full queue
  and counted as dropped, or lost with a failing call or a process.
- `NeverHeldUp`: a handler that has begun can always take its next step, whatever the queues, the
  database or Telegram's log channel do.
- `DaysAreReported`: it fails (section 4).

## 3. The runs

Deadlock is checked in `lists` and `report`, where something can always be done. The other `.cfg`
files say `CHECK_DEADLOCK FALSE`, because the bot really rests when nothing is due and no user does
anything; and because the bounds end every behaviour.

| Run | Instance | Shows |
|---|---|---|
| `worker` | 2 instances, a reusable key and a message key, 2 enqueues, 1 crash, 1 fault | the safety of the queue |
| `worker_refines` | 1 instance, 2 message keys, batches of 1, 3 enqueues, 1 crash, 1 fault | refinement and liveness |
| `captcha` | 1 user, 2 joins, 2 presses, 1 crash, 1 fault | the CAPTCHA's safety and liveness |
| `settings` | 2 instances of 2 handlers, 2 settings of which `block_media` was one, 2 changes, 1 fault, 1 crash | settings and caches |
| `lists` | 2 instances of 2 handlers, 3 words, 3 changes, 1 fault, 1 restart; messages of up to 7 characters, hosts of up to 3 labels | lists, caches and the scanner |
| `flood` | 5 messages under 2 ids, limit 1, window 2, age 3, lag 1, 7 ticks | the limiter |
| `strikes` | 2 handlers, 5 strikes, 1 pardon, 1 crash, 1 fault, mutes of 2 ticks | strikes, mutes, bans |
| `intake` | both modes, 2 instances of 1 worker, 3 updates, queue of 1, fetches of 2, 1 exit, 1 broken lock, 1 fault | intake and shutdown |
| `report` | 1 user, 2 workers, 1 report, TTL 1, cooldown 2, waits of 1, 3 ticks, 1 change of role, 1 fault, 1 crash | roles, cooldown, buttons |
| `events` | 2 handlers, 2 violations or presses, queues of 1, 1 midnight, 1 fault, 1 exit | queues and counters |
| `captcha_verified`, `daily_report` | the smallest instance that shows it | section 4 |

**Bounds and why they are enough.** Two of everything that can meet: two claims on one row need two
enqueues, or two instances; a stale fill needs one reader and one change; an undone change needs
two; strikes of which the entry is forgotten need two floods a window apart, which seven ticks and
five messages allow. One crash and one fault because the code keeps no count of either; the
properties that do (`RetryBudget`) are proved for any number. Rows of different keys meet only in a
batch, so two keys give every order; batches of one and two keys make `LIMIT` bind. `Horizon` bounds
when producers act, not the clock: `Tick` goes on while a row waits, so no retry is lost to it.
Five strikes make a ban, its reset and a mute after it; three updates are one more than a queue of
one and a worker hold, so that the bound on losses can be exceeded and the queue can be full. Three
ticks are one more than an answer's TTL and the wait for it, so that an answer can be too old; two
users would not meet, because roles and cooldowns are kept per user. A queue of one is full while
its worker has one event in hand and another waits.

The scanner's thresholds (5 and 9 letters) are 3 and 4 in the run, so that words of two, three and
four letters fall on both sides of each; messages of seven characters hold the longest word twice
misspelt, or spelled out with a separator between its letters; three labels make a domain, one below
it, and one that merely ends like it. A copy of a list and the table's list are each one of eight, and
the meaning of each pair is compared once.

Instances, handlers and words are interchangeable where a `.cfg` says `SYMMETRY` (in `lists` only the
handlers are, because the words are spelled); the run with liveness uses none.

**Fairness.** Weak fairness on the steps of the worker (the poll ticker and the batch loop go on),
on each handler that has begun (a goroutine is scheduled), on `Start`/`Restart` (the supervisor of
the deployment restarts the process; `render.yaml`, Docker) and on the clock. It presumes that calls
to Telegram and the database return; the 30 seconds of `jobCtx` do not reach the Telegram client.
In `UpdateIntake` Telegram posts an update again until it is answered (that is what it does), and
a stopping process ends. No fairness on joins, presses, enqueues, cancels, strikes, the reset, what
moderators do, Telegram ending a mute, faults, crashes, signals or conflicts.

## 4. Where the code does not do what it says

Two runs find a promise that the program makes in its texts or its README violated; `PROJECT.json`
quotes each.

- `VerifiedIsFinal`: a user who presses the button after the expiry task was claimed is told
  "Verification successful" and is banned.
- `DaysAreReported`: the job of the default schedule runs as a day begins and asks for the counters
  of that date. What was counted on the day that ended is never reported.

The exceptions that the properties of section 2 name are of the same kind: the payload that is
marked done unexecuted (`contested`); the change of a setting that another undoes, and the media
settings that come back with a restart (`crossed`); the hasty ban; the stale word list; strikes
deleted by the reset of an earlier ban; updates accepted after a signal; a "Delete & Strike" of which
a call failed; a failed ban that is counted.

## 5. The proofs

`TaskWorkerProofs` proves, for every set of instances and keys, every batch size, retry limit,
backoff and bound: `TypeCorrect`, the six safety properties of the `worker` run, and the refinement
of the `worker_refines` run. The assumptions are `StoreAssumption` and `WorkerAssumption` (the
constants are numbers, the configured ones positive, as `Options.withDefaults` makes them).

The argument. None of the properties is inductive alone, because each speaks of claims in memory
or of rows, and what keeps them true is how a claim relates to the row it was made of. The
invariant `IInv` adds, from `TaskWorker`:

- `FreshIds`: ids and references come from the sequence; rows do not share them. So a settle by id
  touches one row, and a new payload cannot be taken for an old one.
- `ClaimMatchesRow`: a row with a claim's id has its payload or a contested one; a row with its
  payload has its id, at least its attempts, and, uncontested, is running with exactly its attempts.
  This is what makes a second claim, a cancel or an early run impossible without contesting.
- `OneJob`, `RowTimes`, `RowWithdrawn`, `RowAttempts`: the job was begun; what the time, status and
  count of an uncontested row say of its payload. `RowAttempts` needs `ClaimedBySome`: an unclaimed
  running row was abandoned by a crash or a fault, which paid for the attempt.

Statements are first described by their effect on one row (`ClaimEffect`, `FailEffect`, ...); then
there is one lemma per action or group of like actions (`QuietStep` for those that leave the table
alone, `SettleStep` for `Succeed` and `Fail`), each with one step per conjunct.
`StepInvariant` puts them together.

`QueueKeepsItsPromise` says `Spec => ImplementsDelayedAction` under the hypothesis `OneBot`: no key is
enqueued again, and there is at most one instance. That is the case in which the abstract
specification is meant; without it a payload may be contested, and is then not performed as
promised. `RefInv` adds to `IInv` that nothing is contested, that what a worker holds is running
(`HeldIsRunning`), and that references that were executed are older than the sequence. Each action
then is a step of `DelayedAction`, by the way it changes the slot of one key (`OneSlot`), or a
stutter: a claim changes no slot, an execution performs, a settle empties the slot only of what was
performed (or gives it up after an attempt), a cancel withdraws, an enqueue requests.

`CaptchaProofs` proves `TypeCorrect` and the five safety properties of the `captcha` run, for every
set of users and any number of joins, presses, crashes and failing calls. They share one invariant
of four parts, because each property speaks of a moment when nothing is half done, and is kept by
what is known while something is.

- Which row a claim is about (`RowIds`, `ClaimIds`, `HeldOnce`): a settle by id touches the row the
  claim was made of, or none.
- Which user a prompt is about (`RefsOwned`, `IssueFresh`, `ClaimRow`, `WithdrawnRefs`): a message is of
  one user; one on its way into the table was never there; a withdrawn one is neither pending nor
  claimed, but for contested ones. `CancelledAreNotBanned` follows from this part alone.
- What memory and table know of a prompt while a press, a join or an expiry is half done (`Enqueued`,
  `PastLook`, `Backed`, `Forgotten`, `Ending`; `NotHasty` for `NoBanIsHasty`).
- The one prompt of a user who joined once (`OneJoin`, `FirstMsg`, `OneMsg`, `Unprompted`, `Prompted`),
  for `PromptsAreTidied`: the premise of that property, a single join, speaks of the past, so the
  invariant has to say what that past can have left behind.

The lemmas are by what changes, not by action: `RowStep`, `HeldStep`, `IssueMoves`, `ClickMoves`,
`MemMoves` and `JobMoves` say what any step does to a row, a claim, a handler, the memory, and there
is one lemma per part of the invariant over these.

`GroupSettingsProofs` proves the three properties of the `settings` run and `TypeCorrect`, for every
set of settings, instances and handlers and every number of changes, failing calls and crashes.

- `CachesWereCommitted` needs `CopyCommitted`: what a handler has in hand was in the table, because
  it was read from there, or has been saved.
- `CachesAreCurrent` and `ChangesAreKept` need each other, and three more facts: `CopyIsCurrent` (a
  handler with the settings in hand has those of the row, until a change is crossed), `Unborn`
  (before there is a row, the defaults are intended) and `DownIsEmpty` (an instance that is down has
  no copy, so that the upgrade at the first start leaves nothing stale behind).
- `UncrossedUpdate` is the heart of `ChangesAreKept`: a handler that saves while nothing is crossed
  flips a column of what the row has, so that no other column is lost.

`MessageCheckProofs` proves three sets of properties.

- Of `WordLists`, `ListTypeCorrect`, `ListsWereStored` and `ListsAreCurrent`, from `LoadedWasStored` and
  `LoadedIsCurrent`: a loaded list was the table's, and until a change is crossed it still is when it
  goes into the cache.
- Of `FloodLimiter`, the three properties of the `flood` run and `FloodTypeCorrect`, for every limit,
  window, lag and number of messages. `FloodsAreStruck` needs only that the last strike that is
  remembered was one. `StrikesAreSpaced` and `DecisionsAreExact` need that the clean-up forgets
  nothing that still counts (`Remembered`, `Kept`): what it drops is older than any event that may
  still come by a window, which rests on the hypothesis `AgeSuffices` (window and lag together are no
  longer than the clean-up's age) and on `InTime`, the bound on the wait for the lock.
- Of `MessageScan`, `LinksJudged` and `WordsFound`, for every alphabet, list of words and of domains,
  every length of the messages and hosts, and any thresholds. With `ListsAreCurrent` they come down to
  the scanner alone, for any list: `BlockedAreForeign` and `FoundAreBad`.

The scanner's functions are defined by recursion, and the library's theorems on induction take an
operator as a parameter, which no prover here can instantiate. But their proof for one set of numbers
needs none: `Upward` says that a *set* which has 0 and with each number the next has them all, from
`LeastNatural`, and `Recursion` takes from it that a function chosen by a recursive equation over
an interval satisfies this equation. Each property of a recursive function is then the set of
the numbers it holds for.

- `LinkIsJudged`: the host that is left of a link, however it is written, is its labels in lower case
  with dots between them (`HostIsItsLabels`), as is a domain's; and since labels have no dots, one such
  string ends with a dot and another just if the labels of the one end with those of the other.
- `DistanceCountsEdits`: a table of distances gives at most `k` just if `k` edits are enough, for `k` up
  to 2. One way (`EditsAreInDistance`), an edit changes no entry of the table by more than one. The
  other way (`DistanceIsEdits`), an entry that is not larger than `k` has a neighbour it came from, by
  an edit or none. `MatchIsMisspelt` adds what the comparison of lengths and the thresholds make of it.
- `TokensAreSaid`: the words cut at what is no letter are the longest stretches of letters
  (`WordsAreStretches`), because at every character what is cut so far is closed in this sense
  (`RawTokensAreClosed`); and neighbouring words of one letter are letters that stand alone with no
  others between them (`TogetherIsStretch`, `StretchSpells`).

`UpdateIntakeProofs` proves `TypeCorrect` and the five safety properties of the `intake` run, from
`IntakeAssumption`. That a process at work has the lock is not inductive: after `Stop` its workers take
what the queue still has, and its last batch is still pushed, so an idle process that is returning
may be at work again. `HoldsLock` therefore speaks of every `Engaged` process: up, returning, busy,
or with updates left. What frees a lock is the return or end of its process, which leaves it with no
queue, batch or busy worker (`EndStep`); a start finds nobody engaged whose connection is whole
(`StartStep`).

That no update is forgotten is not inductive either: what a poll confirms, Telegram drops. So
`MemoryInv` says of a process that is up that it has taken over everything below its offset which
Telegram still keeps (`Covered`). An offset grows when an update goes into the queue, and nothing
older was left out, as a batch is of the oldest updates (`Oldest`, kept through `PollMemory` and
`PushMemory`); a process begins to poll at 0 (`Fresh`), and new updates come above every offset
(`Came`). For the order, `InOrder` puts the offset between what a process has taken over and its
batch.

The bound on losses is charged when a process is told to stop, not when it ends: by then its workers
may have begun more, and its last batch is still pushed. `Doomed` are the updates for which nobody
is left but a process that was told to stop; a stop dooms at most what the queue and the workers
hold (`TakenIsSmall`), later steps doom nothing that was not accepted late, and what is lost is
doomed (`Gone`). For repeats the invariant counts ahead: in polling mode how often an update was
begun, the processes that may still begin it (`Chance`), and whether another process may yet get the
lock (`Opening`) together never exceed one more than the exits and breaks; in webhook mode, how often
it was begun, its places in the queues, and whether Telegram still posts it never exceed one more
than the lost answers.

`ReportProofs` proves the three properties of the `report` run and `TypeCorrect`, for every number of
users, workers, reports, role changes, failures and crashes, and every cooldown, cache life and wait.

- `ReportsAreSpaced` needs `Limiter`: either the limiter still has the last report that was let
  through, or a cooldown has passed since. The clean-up keeps it so although it reads the clock before
  it has the lock, because what is over at that time is over later. `Waits` bounds how old the time
  of a report at the lock may be, which is the difference the property allows.
- `RolesAreRecent` needs that every answer is `Backed` since a time: it is right now, or something
  since then was a reason for it (the role was another, or a look-up failed). An answer on its way is
  backed since it was asked for (`AnswersBacked`), a cached one too, and its end is no further from
  that time than the cache's life and the wait (`CachedBacked`). A change of role keeps every answer
  backed (`BackedStays`), because it is itself the reason for the answers that it makes wrong.
- `WhatIsSaidIsDone` follows from where the handler of a press stands between its calls.

`StrikesProofs` proves `CountIsHonest`, `MuteIsBacked` and `NoEarlyUnmute` of the `strikes` run, and
`TypeCorrect`, for every number of handlers, strikes, pardons, crashes and failures and every length
of a mute.

- `TheCountIsHonest`: the property is inductive once the counters have their types. `CountStrike` is
  the heart: a strike that meets no ban and no reset finds a count that is true, so the third of them
  is the one that bans; `CountReset` and `CountCrash` say what a reset that fails, or is lost, makes
  of it.
- `MutesAreBacked` and `NoMuteIsCutShort` share `MuteInv`: while nothing failed or crossed, a handler
  on its way to the table has the end that Telegram was given (`OwnEnd`), and the row of a mute that
  lasts is pending, is due at that end, and no worker has an older task in hand (`Waiting`). The last
  part is what makes an early unmute impossible: nothing can be claimed before its time
  (`GoodWorker`), and a task that was claimed before the mute crosses it.

`EventQueuesProofs` proves `CountsAreHonest` and `LossesHaveReasons` of the `events` run, and
`TypeCorrect`, for any number of handlers, days, events, failures and exits and any size of the
queues.

- Both need `Tidy`: only the next of a handler's calls can be one that counts, so that a handler has
  at most one event to put into the queue. (The plan of a flood has its `Track` put in front of the
  rest when a deletion worked.)
- `CountsStayHonest`: `Honest` says that what is on its way to a counter (`Tokens`: the handlers that
  bear the event, the queue, the worker) is at most what the counter is behind, today and on every
  later day, with a failed third-strike ban forgiven (`Pardon`). `Swap`, `CountAppend` and `CountTail`
  say how an event moves from handler to queue to worker without its number changing; `Midnight`
  leaves it alone, which is why the invariant is about all later days and not about today's.
- `LossesAreReasoned`: the two accounts are inductive by themselves, once it is known how many events
  an exit can take with it (`OnTheWayIsSmall`).

Only model-checked:

- `ExpiryDecides`, `ServedOrStuck`, `MuteEnds`, `EveryUpdateEnds`: liveness under fairness, and
  `NeverHeldUp`, which says `ENABLED`. Both are out of the prover's reach.

What is proved of the scanner's functions is proved of the characters and links as modelled; texts in
Khmer, the search for candidates, and the normalisation of letters have no properties.

## 6. What is not modelled, and the plan

Not modelled and not planned: texts, rendering, configuration, the health server, read-only
dashboards, the older entry points. They keep no state that anything else relies on. `/lock` and
`/unlock` read and write the chat's permissions at Telegram, of which the bot keeps nothing. Which
media and forwards a setting blocks is a table of flags; a violation may occur at any time in
`Strikes` and `EventQueues`.

Planned: the CAPTCHA's restriction and a mute on one member state: the unmute task also ends a
verification, and a press of the button also ends a mute.
