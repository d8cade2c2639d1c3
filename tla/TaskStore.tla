----------------------------- MODULE TaskStore -----------------------------
(***************************************************************************)
(* The scheduled_tasks table and the statements the program runs on it     *)
(* (internal/db/store.go).  Every statement is one action on the table.    *)
(*                                                                         *)
(* Each producer in internal/bot passes a non-empty dedup_key, and the     *)
(* column is UNIQUE, so the table is a function from keys to rows; a key   *)
(* with no row has the status "absent".  A row's id is drawn from a        *)
(* sequence that advances on every INSERT, the ones that end in ON         *)
(* CONFLICT DO UPDATE included, and survives such an update.  A statement  *)
(* is atomic, and FOR UPDATE SKIP LOCKED gives no row to two claims, so    *)
(* that statements appear to run one after the other.  (A claim that skips *)
(* a row locked at that moment takes a later one in its place; such a      *)
(* batch is not modelled, the skipped row is claimed on the next poll.)    *)
(*                                                                         *)
(* Definitions named _Bug are the code with a plausible mistake in it.  No *)
(* specification uses one: they show that the properties notice it.        *)
(***************************************************************************)
EXTENDS Integers, FiniteSets

CONSTANTS
  Keys,         \* dedup keys: captcha:<chat>:<user>, unmute:..., delete:...
  BatchSize,    \* BOT_TASK_BATCH_SIZE
  MaxAttempts,  \* BOT_TASK_MAX_ATTEMPTS
  RetryUnit,    \* the 5 seconds of retryAfter, in clock ticks
  RetryCap,     \* the 300 seconds of retryAfter, in clock ticks
  CleanupAge    \* BOT_TASK_CLEANUP_AGE, in clock ticks

(* Options.withDefaults makes every one of these positive. *)
ASSUME StoreAssumption ==
  /\ BatchSize \in Nat \ {0}
  /\ MaxAttempts \in Nat \ {0}
  /\ RetryUnit \in Nat \ {0}
  /\ RetryCap \in Nat \ {0}
  /\ CleanupAge \in Nat \ {0}

VARIABLES
  tasks,   \* the table
  nextId,  \* next value of the id sequence
  now      \* the database clock, NOW()

Status == {"pending", "running", "done", "failed", "cancelled"}

(* What a task is about: the thing it refers to (for a CAPTCHA the prompt's *)
(* message) and the run time its producer asked for, which the table        *)
(* overwrites and the properties need.                                      *)
Payload == [ref : Nat, at : Nat]

Task == [id : Nat, payload : Payload, runAt : Nat,
         status : Status \cup {"absent"}, attempts : Nat, updatedAt : Nat]

(* What ClaimDueTasks returns of a row, the part the worker goes on to use. *)
Claim == [key : Keys, id : Nat, payload : Payload, attempts : Nat \ {0}]

NoTask == [id |-> 0, payload |-> [ref |-> 0, at |-> 0], runAt |-> 0,
           status |-> "absent", attempts |-> 0, updatedAt |-> 0]

Present(k) == tasks[k].status # "absent"

StoreInit ==
  /\ tasks = [k \in Keys |-> NoTask]
  /\ nextId = 1
  /\ now = 0

----------------------------------------------------------------------------
EnqueueKept_Bug(k, payload, runAt) ==  \* ON CONFLICT DO NOTHING
  /\ tasks' = IF Present(k) THEN tasks
              ELSE [tasks EXCEPT ![k] =
                      [id |-> nextId, payload |-> payload, runAt |-> runAt,
                       status |-> "pending", attempts |-> 0, updatedAt |-> now]]
  /\ nextId' = nextId + 1

(* INSERT ... ON CONFLICT (dedup_key) DO UPDATE: whatever state the row was *)
(* in, it becomes a pending task with the new payload and a fresh count.    *)
EnqueueTask(k, payload, runAt) ==
  /\ tasks' = [tasks EXCEPT ![k] =
                 [id |-> IF Present(k) THEN tasks[k].id ELSE nextId,
                  payload |-> payload, runAt |-> runAt,
                  status |-> "pending", attempts |-> 0, updatedAt |-> now]]
  /\ nextId' = nextId + 1

Cancellable_Bug(k) == tasks[k].status \in {"pending", "running"}

(* The UPDATE matches pending rows only; the caller is told whether it did. *)
Cancellable(k) == tasks[k].status = "pending"

CancelTaskByDedupKey(k) ==
  /\ tasks' = IF Cancellable(k)
              THEN [tasks EXCEPT ![k].status = "cancelled", ![k].updatedAt = now]
              ELSE tasks
  /\ UNCHANGED nextId

Due_Bug == {k \in Keys : tasks[k].status = "pending"}  \* whatever its run_at

DueRunning_Bug ==  \* running rows are taken for abandoned
  {k \in Keys : tasks[k].status \in {"pending", "running"} /\ tasks[k].runAt <= now}

(* The rows ClaimDueTasks may take: ORDER BY run_at, id LIMIT BatchSize.    *)
Due == {k \in Keys : tasks[k].status = "pending" /\ tasks[k].runAt <= now}

Before(j, k) ==
  \/ tasks[j].runAt < tasks[k].runAt
  \/ tasks[j].runAt = tasks[k].runAt /\ tasks[j].id < tasks[k].id

DueBatch ==
  {k \in Due : Cardinality({j \in Due : Before(j, k)}) < BatchSize}

ClaimDueTasks_Bug ==  \* claiming settles the row
  /\ tasks' = [k \in Keys |->
                 IF k \in DueBatch
                 THEN [tasks[k] EXCEPT !.status = "done", !.attempts = @ + 1]
                 ELSE tasks[k]]
  /\ UNCHANGED nextId

ClaimDueTasks ==
  /\ tasks' = [k \in Keys |->
                 IF k \in DueBatch
                 THEN [tasks[k] EXCEPT !.status = "running",
                                       !.attempts = @ + 1, !.updatedAt = now]
                 ELSE tasks[k]]
  /\ UNCHANGED nextId

Claimed ==
  {[key |-> k, id |-> tasks[k].id, payload |-> tasks[k].payload,
    attempts |-> tasks[k].attempts + 1] : k \in DueBatch}

(* UPDATE ... WHERE id = $1: neither the status nor the payload is looked at. *)
HasId(k, id) == Present(k) /\ tasks[k].id = id

CompleteTask(id) ==
  /\ tasks' = [k \in Keys |->
                 IF HasId(k, id)
                 THEN [tasks[k] EXCEPT !.status = "done", !.updatedAt = now]
                 ELSE tasks[k]]
  /\ UNCHANGED nextId

(* retryAfter: attempts^2 * 5 seconds, at most 300. *)
RetryAfter(attempts) ==
  LET ticks == attempts * attempts * RetryUnit
  IN  IF ticks > RetryCap THEN RetryCap ELSE ticks

FailTask_Bug(id, attempts) ==  \* > for >=
  /\ tasks' = [k \in Keys |->
                 IF ~HasId(k, id) THEN tasks[k]
                 ELSE IF attempts > MaxAttempts
                 THEN [tasks[k] EXCEPT !.status = "failed", !.updatedAt = now]
                 ELSE [tasks[k] EXCEPT !.status = "pending", !.updatedAt = now,
                                       !.runAt = now + RetryAfter(attempts)]]
  /\ UNCHANGED nextId

FailTask(id, attempts) ==
  /\ tasks' = [k \in Keys |->
                 IF ~HasId(k, id) THEN tasks[k]
                 ELSE IF attempts >= MaxAttempts
                 THEN [tasks[k] EXCEPT !.status = "failed", !.updatedAt = now]
                 ELSE [tasks[k] EXCEPT !.status = "pending", !.updatedAt = now,
                                       !.runAt = now + RetryAfter(attempts)]]
  /\ UNCHANGED nextId

Stale(k) ==
  tasks[k].status \in {"done", "cancelled"} /\ tasks[k].updatedAt + CleanupAge < now

CleanupFinishedTasks ==
  /\ tasks' = [k \in Keys |-> IF Stale(k) THEN NoTask ELSE tasks[k]]
  /\ UNCHANGED nextId

Recover_Bug ==  \* WHERE status = 'pending'
  UNCHANGED <<tasks, nextId>>

RecoverAttempts_Bug ==  \* attempts = 0, as in the upsert
  /\ tasks' = [k \in Keys |->
                 IF tasks[k].status = "running"
                 THEN [tasks[k] EXCEPT !.status = "pending", !.runAt = now,
                                       !.attempts = 0, !.updatedAt = now]
                 ELSE tasks[k]]
  /\ UNCHANGED nextId

RecoverRunningTasks ==
  /\ tasks' = [k \in Keys |->
                 IF tasks[k].status = "running"
                 THEN [tasks[k] EXCEPT !.status = "pending", !.runAt = now,
                                       !.updatedAt = now]
                 ELSE tasks[k]]
  /\ UNCHANGED nextId
=============================================================================
