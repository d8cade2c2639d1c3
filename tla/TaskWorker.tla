----------------------------- MODULE TaskWorker -----------------------------
(***************************************************************************)
(* The scheduled-task worker of internal/bot/tasks.go on the table of      *)
(* TaskStore, in one or several running instances of the bot, with         *)
(* producers that enqueue and cancel, crashes (a SIGTERM too: main returns *)
(* without waiting for the workers), and database calls that fail before   *)
(* or after their effect.                                                  *)
(*                                                                         *)
(* ran, withdrawn and contested are history: the code does not keep them.  *)
(* A payload is contested once its row has become pending again under a    *)
(* worker that still holds a claim on that row, which the code allows in   *)
(* two places: the upsert of EnqueueTask and RecoverRunningTasks.          *)
(***************************************************************************)
EXTENDS TaskStore

CONSTANTS
  Instances,    \* running copies of the bot on one database
  Reusable,     \* keys that name a user, which are enqueued again and again;
                \* a key that names a message is enqueued once
  Delays,       \* how far ahead producers schedule
  Horizon,      \* bound on the clock
  MaxEnqueues,  \* bound on the tasks ever enqueued
  MaxCrashes,   \* bound on crashes
  MaxFaults     \* bound on failing database calls

ASSUME WorkerAssumption ==
  /\ Reusable \subseteq Keys
  /\ Delays \subseteq Nat
  /\ Horizon \in Nat /\ MaxEnqueues \in Nat
  /\ MaxCrashes \in Nat /\ MaxFaults \in Nat

VARIABLES
  phase,      \* per instance: "down", "starting" (before recovery) or "up"
  batch,      \* per instance: claims of the current batch still to execute
  job,        \* per instance: the claim being executed, if any
  crashes,    \* crashes so far
  faults,     \* failed database calls so far
  ran,        \* history: payloads whose execution was started
  withdrawn,  \* history: payloads a cancel reported as cancelled
  contested   \* history: payloads made pending under a held claim

control == <<phase, batch, job>>
history == <<ran, withdrawn, contested>>
vars == <<tasks, nextId, now, phase, batch, job, crashes, faults,
          ran, withdrawn, contested>>

Held(i) == batch[i] \cup job[i]

ClaimedBySome(k) == Present(k) /\ \E i \in Instances : \E c \in Held(i) : c.id = tasks[k].id

TypeOK ==
  /\ tasks \in [Keys -> Task]
  /\ nextId \in Nat \ {0}
  /\ now \in Nat
  /\ phase \in [Instances -> {"down", "starting", "up"}]
  /\ batch \in [Instances -> SUBSET Claim]
  /\ job \in [Instances -> SUBSET Claim]
  /\ crashes \in Nat /\ faults \in Nat
  /\ ran \subseteq Nat /\ withdrawn \subseteq Nat /\ contested \subseteq Nat

Init ==
  /\ StoreInit
  /\ phase = [i \in Instances |-> "down"]
  /\ batch = [i \in Instances |-> {}]
  /\ job = [i \in Instances |-> {}]
  /\ crashes = 0 /\ faults = 0
  /\ ran = {} /\ withdrawn = {} /\ contested = {}

----------------------------------------------------------------------------
(* A database call fails; Fault bounds how often. *)
Fault ==
  /\ faults < MaxFaults
  /\ faults' = faults + 1

NoFault == UNCHANGED <<faults, crashes>>

(* The supervisor starts the process, and with it scheduledTaskWorker. *)
Start(i) ==
  /\ phase[i] = "down"
  /\ phase' = [phase EXCEPT ![i] = "starting"]
  /\ NoFault
  /\ UNCHANGED <<tasks, nextId, now, batch, job, history>>

(* scheduledTaskWorker first puts every running row back, whoever runs it. *)
Recover(i) ==
  /\ phase[i] = "starting"
  /\ RecoverRunningTasks
  /\ phase' = [phase EXCEPT ![i] = "up"]
  /\ contested' = contested \cup
       {tasks[k].payload.ref : k \in {k \in Keys : tasks[k].status = "running"
                                                   /\ ClaimedBySome(k)}}
  /\ NoFault
  /\ UNCHANGED <<now, batch, job, ran, withdrawn>>

(* A failed recovery is logged and not tried again. *)
RecoverFails(i) ==
  /\ phase[i] = "starting"
  /\ Fault
  /\ phase' = [phase EXCEPT ![i] = "up"]
  /\ UNCHANGED <<tasks, nextId, now, batch, job, crashes, history>>

Idle(i) == phase[i] = "up" /\ batch[i] = {} /\ job[i] = {}

(* processDueTasks claims a batch, at start-up and on every tick of the     *)
(* poll ticker.                                                             *)
ClaimBatch(i) ==
  /\ Idle(i)
  /\ Due # {}
  /\ ClaimDueTasks
  /\ batch' = [batch EXCEPT ![i] = Claimed]
  /\ NoFault
  /\ UNCHANGED <<now, phase, job, history>>

(* The UPDATE commits, and reading its rows fails: ClaimDueTasks returns an *)
(* error and the worker never sees what it claimed.                         *)
ClaimLost(i) ==
  /\ Idle(i)
  /\ Due # {}
  /\ Fault
  /\ ClaimDueTasks
  /\ UNCHANGED <<now, control, crashes, history>>

(* The worker takes up one claim of its batch (RETURNING promises no order) *)
(* and starts its effect on Telegram.                                       *)
Execute(i) ==
  /\ phase[i] = "up" /\ job[i] = {}
  /\ \E c \in batch[i] :
       /\ batch' = [batch EXCEPT ![i] = @ \ {c}]
       /\ job' = [job EXCEPT ![i] = {c}]
       /\ ran' = ran \cup {c.payload.ref}
  /\ NoFault
  /\ UNCHANGED <<tasks, nextId, now, phase, withdrawn, contested>>

Release(i) == job' = [job EXCEPT ![i] = {}]

(* executeScheduledTaskSafe returned nil. *)
Succeed(i) ==
  /\ \E c \in job[i] : CompleteTask(c.id)
  /\ Release(i)
  /\ NoFault
  /\ UNCHANGED <<now, phase, batch, history>>

(* It returned an error, or panicked. *)
Fail(i) ==
  /\ \E c \in job[i] : FailTask(c.id, c.attempts)
  /\ Release(i)
  /\ NoFault
  /\ UNCHANGED <<now, phase, batch, history>>

(* CompleteTask or FailTask failed: the error is logged, the row stays as it was. *)
PersistFails(i) ==
  /\ job[i] # {}
  /\ Fault
  /\ Release(i)
  /\ UNCHANGED <<tasks, nextId, now, phase, batch, crashes, history>>

(* scheduledTaskCleanupWorker, a goroutine of its own. *)
Cleanup(i) ==
  /\ phase[i] # "down"
  /\ \E k \in Keys : Stale(k)
  /\ CleanupFinishedTasks
  /\ NoFault
  /\ UNCHANGED <<now, control, history>>

(* The process dies at any point; what the worker held in memory is gone. *)
Crash(i) ==
  /\ phase[i] # "down"
  /\ crashes < MaxCrashes
  /\ crashes' = crashes + 1
  /\ phase' = [phase EXCEPT ![i] = "down"]
  /\ batch' = [batch EXCEPT ![i] = {}]
  /\ job' = [job EXCEPT ![i] = {}]
  /\ UNCHANGED <<tasks, nextId, now, faults, history>>

SomeUp == \E i \in Instances : phase[i] # "down"

(* enqueueCaptchaExpiry, enqueueDeleteMessage, enqueueUnmuteUser, from any  *)
(* update worker.                                                           *)
Enqueue(k, d) ==
  /\ SomeUp
  /\ nextId <= MaxEnqueues /\ now + d <= Horizon
  /\ k \in Reusable \/ ~Present(k)
  /\ EnqueueTask(k, [ref |-> nextId, at |-> now + d], now + d)
  /\ contested' = IF ClaimedBySome(k) THEN contested \cup {nextId} ELSE contested
  /\ NoFault
  /\ UNCHANGED <<now, control, ran, withdrawn>>

(* cancelCaptchaExpiry, when it has something to cancel. *)
Cancel(k) ==
  /\ SomeUp
  /\ Cancellable(k)
  /\ CancelTaskByDedupKey(k)
  /\ withdrawn' = withdrawn \cup {tasks[k].payload.ref}
  /\ NoFault
  /\ UNCHANGED <<now, control, ran, contested>>

(* Horizon bounds the clock, except that a row put off beyond it by a retry *)
(* still comes due: nothing is lost to the bound.                           *)
Tick ==
  /\ \/ now < Horizon
     \/ \E k \in Keys : tasks[k].status = "pending" /\ tasks[k].runAt > now
  /\ now' = now + 1
  /\ NoFault
  /\ UNCHANGED <<tasks, nextId, control, history>>

InstanceStep(i) ==
  \/ Start(i) \/ Recover(i) \/ RecoverFails(i)
  \/ ClaimBatch(i) \/ ClaimLost(i) \/ Execute(i)
  \/ Succeed(i) \/ Fail(i) \/ PersistFails(i)
  \/ Cleanup(i) \/ Crash(i)

Next ==
  \/ \E i \in Instances : InstanceStep(i)
  \/ \E k \in Keys : Cancel(k) \/ \E d \in Delays : Enqueue(k, d)
  \/ Tick

Spec == Init /\ [][Next]_vars

----------------------------------------------------------------------------
(* Every claim is a distinct attempt at a distinct payload, whichever       *)
(* instances hold it: ClaimDueTasks never hands the same attempt out twice, *)
(* through any mix of upserts, recoveries, retries and lost answers.        *)
ClaimTokensUnique ==
  \A i, j \in Instances : \A c \in Held(i), d \in Held(j) :
    (c.payload.ref = d.payload.ref /\ c.attempts = d.attempts) =>
      (c = d /\ i = j /\ ~(c \in batch[i] /\ d \in job[i]))

(* Two workers, or one worker twice, have the same payload in hand only     *)
(* once it is contested: apart from the two places that put a row back      *)
(* under a live claim, claiming is exclusive.                               *)
ExclusiveRun ==
  \A i, j \in Instances : \A c \in Held(i), d \in Held(j) :
    (c.payload.ref = d.payload.ref /\ c.payload.ref \notin contested) =>
      (i = j /\ c = d)

(* A row that says "done" was executed.  CompleteTask looks at the row's id *)
(* only, so this rests on no claim outliving the payload it was made for.   *)
DoneWasRun ==
  \A k \in Keys :
    tasks[k].status = "done" =>
      tasks[k].payload.ref \in ran \cup contested

(* No payload is in a worker's hands before the time its producer asked     *)
(* for, retries and recoveries (which rewrite run_at) included.             *)
NeverEarly ==
  \A i \in Instances : \A c \in Held(i) :
    c.payload.ref \in contested \/ c.payload.at <= now

(* A payload whose cancellation was reported to the caller is never in a    *)
(* worker's hands afterwards: not from a claim made before, nor a retry.    *)
CancelSticks ==
  \A i \in Instances : \A c \in Held(i) :
    c.payload.ref \in withdrawn => c.payload.ref \in contested

(* FailTask gives a task up after MaxAttempts; only attempts that a crash   *)
(* or a failed database call left unanswered come on top of them.           *)
RetryBudget ==
  \A i \in Instances : \A c \in Held(i) :
    c.payload.ref \in contested \/ c.attempts <= MaxAttempts + crashes + faults

----------------------------------------------------------------------------
(* The strengthening that makes the safety properties inductive.            *)

(* Ids and references come from the sequence, and no two rows share one. *)
FreshIds ==
  /\ \A k \in Keys : Present(k) => /\ tasks[k].id < nextId
                                   /\ tasks[k].payload.ref < nextId
  /\ \A j, k \in Keys : Present(j) /\ Present(k) /\ j # k =>
       /\ tasks[j].id # tasks[k].id
       /\ tasks[j].payload.ref # tasks[k].payload.ref
  /\ \A n \in withdrawn : n < nextId

(* How a claim relates to the row it was made of, whatever happened to the  *)
(* row since: an upsert may have replaced the payload, nothing else may.    *)
ClaimMatchesRow ==
  \A i \in Instances : \A c \in Held(i) :
    /\ c.id < nextId /\ c.payload.ref < nextId
    /\ \A k \in Keys : Present(k) =>
         /\ tasks[k].id = c.id => \/ tasks[k].payload = c.payload
                                 \/ tasks[k].payload.ref \in contested
         /\ tasks[k].payload.ref = c.payload.ref =>
              /\ tasks[k].id = c.id
              /\ c.attempts <= tasks[k].attempts
              /\ c.payload.ref \notin contested =>
                   /\ tasks[k].status = "running"
                   /\ c.attempts = tasks[k].attempts

(* The worker executes one claim at a time, out of the batch. *)
OneJob ==
  \A i \in Instances :
    /\ batch[i] \cap job[i] = {}
    /\ \A c, d \in job[i] : c = d
    /\ \A c \in job[i] : c.payload.ref \in ran

(* What the time, status and count of an uncontested row say of its payload. *)
RowTimes ==
  \A k \in Keys : tasks[k].payload.ref \notin contested =>
    /\ tasks[k].status = "pending" => tasks[k].payload.at <= tasks[k].runAt
    /\ tasks[k].status = "running" => tasks[k].payload.at <= now

RowWithdrawn ==
  \A k \in Keys :
    Present(k) /\ tasks[k].payload.ref \in withdrawn =>
      tasks[k].status = "cancelled" \/ tasks[k].payload.ref \in contested

RowAttempts ==
  \A k \in Keys : tasks[k].payload.ref \notin contested =>
    /\ tasks[k].status = "pending" =>
         tasks[k].attempts < MaxAttempts + crashes + faults
    /\ tasks[k].status = "running" =>
         /\ tasks[k].attempts <= MaxAttempts + crashes + faults
         /\ ~ClaimedBySome(k) => tasks[k].attempts < MaxAttempts + crashes + faults

Strengthening ==
  FreshIds /\ ClaimMatchesRow /\ OneJob /\ RowTimes /\ RowWithdrawn /\ RowAttempts

----------------------------------------------------------------------------
(* Fairness.  The supervisor restarts the process; the poll ticker, the     *)
(* batch loop and the clock go on; the HTTP client and the database answer. *)
(* Nothing makes a producer enqueue or cancel, a call fail, or a process    *)
(* crash.                                                                   *)
Fairness ==
  /\ WF_vars(Tick)
  /\ \A i \in Instances :
       /\ WF_vars(Start(i))
       /\ WF_vars(Recover(i) \/ RecoverFails(i))
       /\ WF_vars(ClaimBatch(i))
       /\ WF_vars(Execute(i))
       /\ WF_vars(Succeed(i) \/ Fail(i) \/ PersistFails(i))

FairSpec == Spec /\ Fairness

Refs == 1..MaxEnqueues

(* A task the table owes an execution, claimed or not. *)
Outstanding(n) ==
  \E k \in Keys : tasks[k].payload.ref = n /\ tasks[k].status \in {"pending", "running"}

Replaced(n) == \A k \in Keys : tasks[k].payload.ref # n

(* A row is stuck when it says "running" although no worker of the bots that *)
(* are up has it in hand.                                                    *)
Stuck(n) ==
  \E k \in Keys :
    /\ tasks[k].payload.ref = n /\ tasks[k].status = "running"
    /\ ~ClaimedBySome(k)
    /\ \A i \in Instances : phase[i] = "up"

Settled(n) == n \in ran \cup withdrawn \cup contested \/ Replaced(n)

(* Every stored action is executed, cancelled or replaced in the end, across *)
(* crashes and retries, and across failing calls but for the ones that       *)
(* leave a row stuck: a claim whose answer was lost and a recovery that      *)
(* failed.                                                                   *)
ServedOrStuck ==
  \A n \in Refs : Outstanding(n) ~> (Settled(n) \/ (faults > 0 /\ Stuck(n)))
=============================================================================
