-------------------------- MODULE TaskWorkerProofs --------------------------
(***************************************************************************)
(* The safety properties of TaskWorker, for every set of instances and     *)
(* keys, every batch size, retry limit and bound, and every mix of         *)
(* crashes, recoveries and failing database calls.                         *)
(***************************************************************************)
EXTENDS TaskWorkerRefinement, TLAPS

(* A retry is put off by a number of ticks. *)
LEMMA RetryAfterType ==
  ASSUME NEW a \in Nat
  PROVE  RetryAfter(a) \in Nat
<1>1. RetryUnit \in Nat /\ RetryCap \in Nat
  BY StoreAssumption
<1>2. a * a \in Nat
  OBVIOUS
<1>3. a * a * RetryUnit \in Nat
  BY <1>1, <1>2
<1> QED
  BY <1>1, <1>3 DEF RetryAfter

(* The statements that set several columns of a row keep its type. *)
LEMMA RowTypes ==
  ASSUME NEW t \in Task, NEW s \in Status, NEW a \in Nat, NEW r \in Nat, NEW u \in Nat
  PROVE  /\ [t EXCEPT !.status = s, !.updatedAt = u] \in Task
         /\ [t EXCEPT !.status = s, !.attempts = a, !.updatedAt = u] \in Task
         /\ [t EXCEPT !.status = s, !.updatedAt = u, !.runAt = r] \in Task
         /\ [t EXCEPT !.status = s, !.runAt = r, !.updatedAt = u] \in Task
  BY DEF Task

(* The table keeps its type under every statement, and the sequence its own. *)
LEMMA StoreTypes ==
  ASSUME tasks \in [Keys -> Task], nextId \in Nat \ {0}, now \in Nat
  PROVE  /\ ClaimDueTasks => tasks' \in [Keys -> Task] /\ nextId' \in Nat \ {0}
         /\ RecoverRunningTasks => tasks' \in [Keys -> Task] /\ nextId' \in Nat \ {0}
         /\ CleanupFinishedTasks => tasks' \in [Keys -> Task] /\ nextId' \in Nat \ {0}
         /\ \A k \in Keys : CancelTaskByDedupKey(k) =>
              tasks' \in [Keys -> Task] /\ nextId' \in Nat \ {0}
         /\ \A n \in Nat : CompleteTask(n) =>
              tasks' \in [Keys -> Task] /\ nextId' \in Nat \ {0}
         /\ \A n, a \in Nat : FailTask(n, a) =>
              tasks' \in [Keys -> Task] /\ nextId' \in Nat \ {0}
         /\ \A k \in Keys, p \in Payload, t \in Nat : EnqueueTask(k, p, t) =>
              tasks' \in [Keys -> Task] /\ nextId' \in Nat \ {0}
         /\ Claimed \subseteq Claim
<1>1. ClaimDueTasks => tasks' \in [Keys -> Task] /\ nextId' \in Nat \ {0}
  <2>1. ASSUME NEW k \in Keys
        PROVE  [tasks[k] EXCEPT !.status = "running", !.attempts = @ + 1,
                                !.updatedAt = now] \in Task
    <3>1. tasks[k] \in Task /\ tasks[k].attempts + 1 \in Nat /\ "running" \in Status
      BY DEF Task, Status
    <3> QED
      BY <3>1, RowTypes
  <2> QED
    BY <2>1 DEF ClaimDueTasks
<1>2. RecoverRunningTasks => tasks' \in [Keys -> Task] /\ nextId' \in Nat \ {0}
  <2>1. ASSUME NEW k \in Keys
        PROVE  [tasks[k] EXCEPT !.status = "pending", !.runAt = now,
                                !.updatedAt = now] \in Task
    BY RowTypes DEF Status
  <2> QED
    BY <2>1 DEF RecoverRunningTasks
<1>3. CleanupFinishedTasks => tasks' \in [Keys -> Task] /\ nextId' \in Nat \ {0}
  BY DEF CleanupFinishedTasks, NoTask, Task, Payload
<1>4. ASSUME NEW k \in Keys, CancelTaskByDedupKey(k)
      PROVE  tasks' \in [Keys -> Task] /\ nextId' \in Nat \ {0}
  BY ZenonT(40), <1>4 DEF CancelTaskByDedupKey, Task, Status
<1>5. ASSUME NEW n \in Nat, CompleteTask(n)
      PROVE  tasks' \in [Keys -> Task] /\ nextId' \in Nat \ {0}
  <2>1. ASSUME NEW k \in Keys
        PROVE  [tasks[k] EXCEPT !.status = "done", !.updatedAt = now] \in Task
    BY RowTypes DEF Status
  <2> QED
    BY <1>5, <2>1 DEF CompleteTask
<1>6. ASSUME NEW n \in Nat, NEW a \in Nat, FailTask(n, a)
      PROVE  tasks' \in [Keys -> Task] /\ nextId' \in Nat \ {0}
  <2>1. RetryAfter(a) \in Nat
    BY RetryAfterType
  <2>2. ASSUME NEW k \in Keys
        PROVE  /\ [tasks[k] EXCEPT !.status = "failed", !.updatedAt = now] \in Task
               /\ [tasks[k] EXCEPT !.status = "pending", !.updatedAt = now,
                                   !.runAt = now + RetryAfter(a)] \in Task
    <3>1. tasks[k] \in Task /\ "failed" \in Status /\ "pending" \in Status
      BY DEF Status
    <3>2. now + RetryAfter(a) \in Nat
      BY <2>1
    <3> QED
      BY <3>1, <3>2, RowTypes
  <2> QED
    BY <1>6, <2>2 DEF FailTask
<1>7. ASSUME NEW k \in Keys, NEW p \in Payload, NEW t \in Nat, EnqueueTask(k, p, t)
      PROVE  tasks' \in [Keys -> Task] /\ nextId' \in Nat \ {0}
  BY <1>7 DEF EnqueueTask, Task, Status
<1>8. Claimed \subseteq Claim
  <2> SUFFICES ASSUME NEW k \in DueBatch
               PROVE  [key |-> k, id |-> tasks[k].id, payload |-> tasks[k].payload,
                       attempts |-> tasks[k].attempts + 1] \in Claim
    BY DEF Claimed
  <2>1. k \in Keys
    BY DEF DueBatch, Due
  <2>2. tasks[k].id \in Nat /\ tasks[k].payload \in Payload /\ tasks[k].attempts \in Nat
    BY <2>1 DEF Task
  <2>3. tasks[k].attempts + 1 \in Nat \ {0}
    BY <2>2
  <2> QED
    BY <2>1, <2>2, <2>3 DEF Claim
<1> QED
  BY <1>1, <1>2, <1>3, <1>4, <1>5, <1>6, <1>7, <1>8

(* The empty table is well typed. *)
LEMMA TypeInit == Init => TypeOK
  BY DEF Init, StoreInit, TypeOK, Task, Status, Payload, NoTask

(* Every step of an instance, a producer or the clock keeps the types. *)
LEMMA TypeStep == TypeOK /\ [Next]_vars => TypeOK'
<1> SUFFICES ASSUME TypeOK, [Next]_vars PROVE TypeOK'
  OBVIOUS
<1> USE DEF TypeOK, NoFault, Fault, history, control, Held
<1>1. ASSUME NEW i \in Instances, InstanceStep(i) PROVE TypeOK'
  <2>1. CASE Start(i)
    BY <2>1 DEF Start
  <2>2. CASE Recover(i)
    BY ZenonT(40), <2>2, StoreTypes DEF Recover, Task, Payload
  <2>3. CASE RecoverFails(i)
    BY <2>3 DEF RecoverFails
  <2>4. CASE ClaimBatch(i)
    BY <2>4, StoreTypes DEF ClaimBatch
  <2>5. CASE ClaimLost(i)
    BY <2>5, StoreTypes DEF ClaimLost
  <2>6. CASE Execute(i)
    <3>1. PICK c \in batch[i] :
            /\ batch' = [batch EXCEPT ![i] = @ \ {c}]
            /\ job' = [job EXCEPT ![i] = {c}]
            /\ ran' = ran \cup {c.payload.ref}
      BY <2>6 DEF Execute
    <3>2. c \in Claim /\ c.payload.ref \in Nat
      BY DEF Claim, Payload
    <3> QED
      BY <2>6, <3>1, <3>2 DEF Execute
  <2>7. CASE Succeed(i)
    BY <2>7, StoreTypes DEF Succeed, Release, Claim
  <2>8. CASE Fail(i)
    BY <2>8, StoreTypes DEF Fail, Release, Claim
  <2>9. CASE PersistFails(i)
    BY <2>9 DEF PersistFails, Release
  <2>10. CASE Cleanup(i)
    BY <2>10, StoreTypes DEF Cleanup
  <2>11. CASE Crash(i)
    BY <2>11 DEF Crash
  <2> QED
    BY <1>1, <2>1, <2>2, <2>3, <2>4, <2>5, <2>6, <2>7, <2>8, <2>9, <2>10, <2>11
       DEF InstanceStep
<1>2. ASSUME NEW k \in Keys, Cancel(k) PROVE TypeOK'
  BY <1>2, StoreTypes DEF Cancel, Task, Payload
<1>3. ASSUME NEW k \in Keys, NEW d \in Delays, Enqueue(k, d) PROVE TypeOK'
  <2>1. [ref |-> nextId, at |-> now + d] \in Payload /\ now + d \in Nat
    BY WorkerAssumption DEF Payload
  <2> QED
    BY <1>3, <2>1, StoreTypes DEF Enqueue
<1>4. CASE Tick
  BY <1>4 DEF Tick
<1>5. CASE UNCHANGED vars
  BY <1>5 DEF vars
<1> QED
  BY <1>1, <1>2, <1>3, <1>4, <1>5 DEF Next

(* The table, the sequence and the claims keep their types: an attempt      *)
(* count or a run time never leaves Nat, whatever is retried or recovered.  *)
THEOREM TypeCorrect == Spec => []TypeOK
  BY TypeInit, TypeStep, PTL DEF Spec

----------------------------------------------------------------------------
(* What each statement does to a row, column by column. *)
LEMMA ClaimEffect ==
  ASSUME TypeOK, ClaimDueTasks, NEW k \in Keys
  PROVE  /\ nextId' = nextId
         /\ tasks'[k].id = tasks[k].id
         /\ tasks'[k].payload = tasks[k].payload
         /\ tasks'[k].runAt = tasks[k].runAt
         /\ k \in DueBatch => /\ tasks'[k].status = "running"
                              /\ tasks'[k].attempts = tasks[k].attempts + 1
         /\ k \notin DueBatch => tasks'[k] = tasks[k]
  BY DEF TypeOK, Task, ClaimDueTasks

(* RecoverRunningTasks: running rows are pending and due, no other changes. *)
LEMMA RecoverEffect ==
  ASSUME TypeOK, RecoverRunningTasks, NEW k \in Keys
  PROVE  /\ nextId' = nextId
         /\ tasks'[k].id = tasks[k].id
         /\ tasks'[k].payload = tasks[k].payload
         /\ tasks'[k].attempts = tasks[k].attempts
         /\ tasks[k].status = "running" => /\ tasks'[k].status = "pending"
                                           /\ tasks'[k].runAt = now
         /\ tasks[k].status # "running" => tasks'[k] = tasks[k]
  BY DEF TypeOK, Task, RecoverRunningTasks

(* CompleteTask: the row of that id is done, with whatever payload it has. *)
LEMMA CompleteEffect ==
  ASSUME TypeOK, NEW n \in Nat, CompleteTask(n), NEW k \in Keys
  PROVE  /\ nextId' = nextId
         /\ tasks'[k].id = tasks[k].id
         /\ tasks'[k].payload = tasks[k].payload
         /\ tasks'[k].attempts = tasks[k].attempts
         /\ HasId(k, n) => tasks'[k].status = "done"
         /\ ~HasId(k, n) => tasks'[k] = tasks[k]
  BY DEF TypeOK, Task, CompleteTask

(* FailTask: the row of that id failed for good, or waits for a next attempt,
   which it does only while attempts are left. *)
LEMMA FailEffect ==
  ASSUME TypeOK, NEW n \in Nat, NEW a \in Nat, FailTask(n, a), NEW k \in Keys
  PROVE  /\ nextId' = nextId
         /\ tasks'[k].id = tasks[k].id
         /\ tasks'[k].payload = tasks[k].payload
         /\ tasks'[k].attempts = tasks[k].attempts
         /\ HasId(k, n) => \/ tasks'[k].status = "failed"
                           \/ /\ tasks'[k].status = "pending"
                              /\ tasks'[k].runAt >= now
                              /\ a < MaxAttempts
         /\ ~HasId(k, n) => tasks'[k] = tasks[k]
<1>1. RetryAfter(a) \in Nat /\ MaxAttempts \in Nat /\ now \in Nat
  BY RetryAfterType, StoreAssumption DEF TypeOK
<1>2. tasks[k] \in Task /\ tasks[k] = [id |-> tasks[k].id, payload |-> tasks[k].payload,
         runAt |-> tasks[k].runAt, status |-> tasks[k].status,
         attempts |-> tasks[k].attempts, updatedAt |-> tasks[k].updatedAt]
  BY DEF TypeOK, Task
<1>3. CASE ~HasId(k, n)
  BY <1>3 DEF FailTask
<1>4. CASE HasId(k, n) /\ a >= MaxAttempts
  <2>1. tasks'[k] = [tasks[k] EXCEPT !.status = "failed", !.updatedAt = now]
    BY <1>4 DEF FailTask
  <2> QED
    BY <1>2, <1>4, <2>1 DEF FailTask
<1>5. CASE HasId(k, n) /\ ~(a >= MaxAttempts)
  <2>1. tasks'[k] = [tasks[k] EXCEPT !.status = "pending", !.updatedAt = now,
                                     !.runAt = now + RetryAfter(a)]
    BY <1>5 DEF FailTask
  <2>2. now + RetryAfter(a) >= now /\ a < MaxAttempts
    BY <1>1, <1>5
  <2> QED
    BY <1>2, <1>5, <2>1, <2>2 DEF FailTask
<1> QED
  BY <1>3, <1>4, <1>5

(* CancelTaskByDedupKey: the pending row of that key is cancelled. *)
LEMMA CancelEffect ==
  ASSUME TypeOK, NEW k \in Keys, Cancellable(k), CancelTaskByDedupKey(k), NEW j \in Keys
  PROVE  /\ nextId' = nextId
         /\ tasks'[j].id = tasks[j].id
         /\ tasks'[j].payload = tasks[j].payload
         /\ tasks'[j].attempts = tasks[j].attempts
         /\ tasks'[k].status = "cancelled"
         /\ j # k => tasks'[j] = tasks[j]
  BY DEF TypeOK, Task, CancelTaskByDedupKey

(* CleanupFinishedTasks: rows stay as they are or go. *)
LEMMA CleanupEffect ==
  ASSUME TypeOK, CleanupFinishedTasks, NEW k \in Keys
  PROVE  nextId' = nextId /\ (tasks'[k] = tasks[k] \/ tasks'[k] = NoTask)
  BY DEF TypeOK, CleanupFinishedTasks

(* A claim names the row it was made of, as that row then was. *)
LEMMA ClaimedRow ==
  ASSUME NEW c \in Claimed
  PROVE  \E k \in DueBatch : /\ k \in Keys
                             /\ tasks[k].status = "pending"
                             /\ tasks[k].runAt <= now
                             /\ c.id = tasks[k].id
                             /\ c.payload = tasks[k].payload
                             /\ c.attempts = tasks[k].attempts + 1
<1>1. PICK k \in DueBatch :
        c = [key |-> k, id |-> tasks[k].id, payload |-> tasks[k].payload,
             attempts |-> tasks[k].attempts + 1]
  BY DEF Claimed
<1>2. k \in Keys /\ tasks[k].status = "pending" /\ tasks[k].runAt <= now
  BY DEF DueBatch, Due
<1> QED
  BY <1>1, <1>2

----------------------------------------------------------------------------
(* The inductive invariant: the strengthening of TaskWorker and the         *)
(* properties themselves, none of which is inductive alone.                 *)
IInv ==
  /\ TypeOK
  /\ FreshIds /\ ClaimMatchesRow /\ OneJob /\ RowTimes /\ RowWithdrawn /\ RowAttempts
  /\ DoneWasRun /\ NeverEarly /\ CancelSticks /\ RetryBudget
  /\ ExclusiveRun /\ ClaimTokensUnique

(* More crashes and faults allow more attempts. *)
LEMMA BudgetGrows ==
  ASSUME NEW a \in Nat, NEW m \in Nat, NEW c \in Nat, NEW f \in Nat,
         NEW c2 \in Nat, NEW f2 \in Nat, c2 + f2 >= c + f
  PROVE  /\ a < m + c + f => a < m + c2 + f2
         /\ a <= m + c + f => a <= m + c2 + f2
         /\ a <= m + c + f /\ c2 + f2 > c + f => a < m + c2 + f2
  OBVIOUS

(* The steps that leave the table and the history alone and only drop       *)
(* claims, advance the clock or count a crash or a fault.                   *)
LEMMA QuietStep ==
  ASSUME IInv, TypeOK',
         UNCHANGED <<tasks, nextId, ran, withdrawn, contested>>,
         \A i \in Instances : batch'[i] \subseteq batch[i] /\ job'[i] \subseteq job[i],
         now' >= now,
         crashes' + faults' >= crashes + faults,
         \/ \A k \in Keys : ClaimedBySome(k) => ClaimedBySome(k)'
         \/ crashes' + faults' > crashes + faults
  PROVE  IInv'
<1>0. \A i \in Instances : Held(i)' \subseteq Held(i)
  BY DEF Held
<1>1. FreshIds'
  BY DEF IInv, FreshIds, Present
<1>2. ClaimMatchesRow'
  BY <1>0 DEF IInv, ClaimMatchesRow, Present
<1>3. OneJob'
  BY DEF IInv, OneJob
<1>4. RowTimes'
  BY DEF IInv, TypeOK, RowTimes, Task, Payload
<1>5. RowWithdrawn'
  BY DEF IInv, RowWithdrawn, Present
<1>6. RowAttempts'
  <2> SUFFICES ASSUME NEW k \in Keys, tasks[k].payload.ref \notin contested
               PROVE  /\ tasks[k].status = "pending" =>
                           tasks[k].attempts < MaxAttempts + crashes' + faults'
                      /\ tasks[k].status = "running" =>
                           /\ tasks[k].attempts <= MaxAttempts + crashes' + faults'
                           /\ ~ClaimedBySome(k)' =>
                                tasks[k].attempts < MaxAttempts + crashes' + faults'
    BY DEF RowAttempts
  <2>1. /\ tasks[k].attempts \in Nat /\ MaxAttempts \in Nat
        /\ crashes \in Nat /\ faults \in Nat /\ crashes' \in Nat /\ faults' \in Nat
    BY StoreAssumption DEF IInv, TypeOK, Task
  <2>2. /\ tasks[k].status = "pending" =>
             tasks[k].attempts < MaxAttempts + crashes + faults
        /\ tasks[k].status = "running" =>
             /\ tasks[k].attempts <= MaxAttempts + crashes + faults
             /\ ~ClaimedBySome(k) => tasks[k].attempts < MaxAttempts + crashes + faults
    BY DEF IInv, RowAttempts
  <2>3. \/ ClaimedBySome(k) => ClaimedBySome(k)'
        \/ crashes' + faults' > crashes + faults
    OBVIOUS
  <2>4. /\ tasks[k].attempts < MaxAttempts + crashes + faults =>
             tasks[k].attempts < MaxAttempts + crashes' + faults'
        /\ tasks[k].attempts <= MaxAttempts + crashes + faults =>
             tasks[k].attempts <= MaxAttempts + crashes' + faults'
        /\ tasks[k].attempts <= MaxAttempts + crashes + faults
             /\ crashes' + faults' > crashes + faults =>
             tasks[k].attempts < MaxAttempts + crashes' + faults'
    BY <2>1, BudgetGrows
  <2> QED
    BY <2>2, <2>3, <2>4, Zenon
<1>7. DoneWasRun'
  BY DEF IInv, DoneWasRun
<1>8. NeverEarly'
  <2> SUFFICES ASSUME NEW i \in Instances, NEW c \in Held(i), c.payload.ref \notin contested
               PROVE  c.payload.at <= now'
    BY <1>0 DEF NeverEarly
  <2>1. c.payload.at \in Nat /\ now \in Nat /\ now' \in Nat
    BY DEF IInv, TypeOK, Held, Claim, Payload
  <2>2. c.payload.at <= now
    BY DEF IInv, NeverEarly
  <2> QED
    BY <2>1, <2>2
<1>9. CancelSticks'
  BY <1>0 DEF IInv, CancelSticks
<1>10. RetryBudget'
  <2> SUFFICES ASSUME NEW i \in Instances, NEW c \in Held(i), c.payload.ref \notin contested
               PROVE  c.attempts <= MaxAttempts + crashes' + faults'
    BY <1>0 DEF RetryBudget
  <2>1. /\ c.attempts \in Nat /\ MaxAttempts \in Nat
        /\ crashes \in Nat /\ faults \in Nat /\ crashes' \in Nat /\ faults' \in Nat
    BY StoreAssumption DEF IInv, TypeOK, Held, Claim
  <2>2. c.attempts <= MaxAttempts + crashes + faults
    BY DEF IInv, RetryBudget
  <2> QED
    BY <2>1, <2>2
<1>11. ExclusiveRun'
  BY <1>0 DEF IInv, ExclusiveRun
<1>12. ClaimTokensUnique'
  BY <1>0 DEF IInv, ClaimTokensUnique
<1> QED
  BY <1>1, <1>2, <1>3, <1>4, <1>5, <1>6, <1>7, <1>8, <1>9, <1>10, <1>11, <1>12 DEF IInv

----------------------------------------------------------------------------
(* Claiming, whoever gets to see the claims: what it does to the table. *)
LEMMA ClaimRows ==
  ASSUME IInv, ClaimDueTasks, UNCHANGED <<now, ran, withdrawn, contested>>
  PROVE  /\ FreshIds' /\ RowTimes' /\ RowWithdrawn' /\ DoneWasRun'
         /\ \A k \in Keys : Present(k)' <=> Present(k)
         /\ \A k \in DueBatch : k \in Keys /\ tasks[k].status = "pending"
                                 /\ tasks[k].runAt <= now
<1>1. \A k \in DueBatch : k \in Keys /\ tasks[k].status = "pending"
                            /\ tasks[k].runAt <= now
  BY DEF DueBatch, Due
<1>2. \A k \in Keys : Present(k)' <=> Present(k)
  BY <1>1, ClaimEffect DEF IInv, Present
<1>3. FreshIds'
  <2>1. /\ nextId' = nextId /\ withdrawn' = withdrawn
        /\ \A k \in Keys : tasks'[k].id = tasks[k].id /\ tasks'[k].payload = tasks[k].payload
    BY ClaimEffect DEF IInv, ClaimDueTasks
  <2> QED
    BY <1>2, <2>1 DEF IInv, FreshIds
<1>4. RowTimes'
  <2> SUFFICES ASSUME NEW k \in Keys, tasks[k].payload.ref \notin contested
               PROVE  /\ tasks'[k].status = "pending" =>
                           tasks[k].payload.at <= tasks'[k].runAt
                      /\ tasks'[k].status = "running" => tasks[k].payload.at <= now
    BY ClaimEffect DEF IInv, RowTimes
  <2>1. CASE k \notin DueBatch
    BY <2>1, ClaimEffect DEF IInv, RowTimes
  <2>2. CASE k \in DueBatch
    <3>1. tasks[k].payload.at <= tasks[k].runAt /\ tasks[k].runAt <= now
      BY <1>1, <2>2 DEF IInv, RowTimes
    <3>2. tasks[k].payload.at \in Nat /\ tasks[k].runAt \in Nat /\ now \in Nat
      BY DEF IInv, TypeOK, Task, Payload
    <3>3. tasks[k].payload.at <= now
      BY <3>1, <3>2
    <3> QED
      BY <2>2, <3>3, ClaimEffect DEF IInv
  <2> QED
    BY <2>1, <2>2
<1>5. RowWithdrawn'
  BY <1>1, <1>2, ClaimEffect DEF IInv, RowWithdrawn
<1>6. DoneWasRun'
  BY ClaimEffect DEF IInv, DoneWasRun
<1> QED
  BY <1>1, <1>2, <1>3, <1>4, <1>5, <1>6

(* A claim held through it still matches its row. *)
LEMMA ClaimKeepsOthers ==
  ASSUME IInv, ClaimDueTasks, UNCHANGED <<now, ran, withdrawn, contested>>,
         NEW j \in Instances, NEW c \in Held(j), NEW k \in Keys, Present(k)'
  PROVE  /\ c.id < nextId' /\ c.payload.ref < nextId'
         /\ tasks'[k].id = c.id => \/ tasks'[k].payload = c.payload
                                  \/ tasks'[k].payload.ref \in contested'
         /\ tasks'[k].payload.ref = c.payload.ref =>
              /\ tasks'[k].id = c.id
              /\ c.attempts <= tasks'[k].attempts
              /\ c.payload.ref \notin contested' =>
                   /\ tasks'[k].status = "running"
                   /\ c.attempts = tasks'[k].attempts
<1>1. Present(k) /\ c.id < nextId /\ c.payload.ref < nextId
  BY ClaimRows DEF IInv, ClaimMatchesRow
<1>2. /\ tasks[k].id = c.id => \/ tasks[k].payload = c.payload
                               \/ tasks[k].payload.ref \in contested
      /\ tasks[k].payload.ref = c.payload.ref =>
           /\ tasks[k].id = c.id
           /\ c.attempts <= tasks[k].attempts
           /\ c.payload.ref \notin contested =>
                /\ tasks[k].status = "running"
                /\ c.attempts = tasks[k].attempts
  BY <1>1 DEF IInv, ClaimMatchesRow
<1>3. c.attempts \in Nat /\ tasks[k].attempts \in Nat
  BY DEF IInv, TypeOK, Held, Claim, Task
<1>4. k \in DueBatch => tasks[k].status # "running"
  BY ClaimRows
<1> QED
  BY <1>1, <1>2, <1>3, <1>4, ClaimEffect DEF IInv

(* The worker claims a batch. *)
LEMMA ClaimBatchStep ==
  ASSUME IInv, TypeOK', NEW i \in Instances, ClaimBatch(i)
  PROVE  IInv'
<1> USE DEF NoFault, history
<1>1. /\ ClaimDueTasks /\ UNCHANGED <<now, ran, withdrawn, contested, crashes, faults, job>>
      /\ batch' = [batch EXCEPT ![i] = Claimed] /\ batch[i] = {} /\ job[i] = {}
  BY DEF ClaimBatch, Idle
<1>2. /\ Held(i)' = Claimed /\ Held(i) = {}
      /\ \A j \in Instances : j # i => Held(j)' = Held(j)
  BY <1>1 DEF Held, IInv, TypeOK
<1>3. FreshIds' /\ RowTimes' /\ RowWithdrawn' /\ DoneWasRun'
  BY <1>1, ClaimRows
<1>4. \A k \in Keys : /\ Present(k)' <=> Present(k)
                      /\ tasks'[k].id = tasks[k].id
                      /\ tasks'[k].payload = tasks[k].payload
  BY <1>1, ClaimRows, ClaimEffect DEF IInv
(* What the new claims say, row by row. *)
<1>5. ASSUME NEW c \in Claimed
      PROVE  \E k \in DueBatch :
               /\ k \in Keys /\ Present(k) /\ tasks[k].status = "pending"
               /\ tasks[k].runAt <= now
               /\ c.id = tasks[k].id /\ c.payload = tasks[k].payload
               /\ c.attempts = tasks'[k].attempts /\ c.attempts = tasks[k].attempts + 1
               /\ tasks'[k].status = "running"
               /\ \A j \in Keys : Present(j) /\ j # k =>
                    tasks[j].id # c.id /\ tasks[j].payload.ref # c.payload.ref
  <2>1. PICK k \in DueBatch : /\ k \in Keys /\ tasks[k].status = "pending"
                              /\ tasks[k].runAt <= now
                              /\ c.id = tasks[k].id /\ c.payload = tasks[k].payload
                              /\ c.attempts = tasks[k].attempts + 1
    BY ClaimedRow
  <2>2. tasks'[k].status = "running" /\ tasks'[k].attempts = tasks[k].attempts + 1
    BY <1>1, <2>1, ClaimEffect DEF IInv
  <2>3. Present(k)
    BY <2>1 DEF Present
  <2> QED
    BY <2>1, <2>2, <2>3 DEF IInv, FreshIds
<1>6. ClaimMatchesRow'
  <2> SUFFICES ASSUME NEW j \in Instances, NEW c \in Held(j)'
               PROVE  /\ c.id < nextId' /\ c.payload.ref < nextId'
                      /\ \A k \in Keys : Present(k)' =>
                           /\ tasks'[k].id = c.id => \/ tasks'[k].payload = c.payload
                                                    \/ tasks'[k].payload.ref \in contested'
                           /\ tasks'[k].payload.ref = c.payload.ref =>
                                /\ tasks'[k].id = c.id
                                /\ c.attempts <= tasks'[k].attempts
                                /\ c.payload.ref \notin contested' =>
                                     /\ tasks'[k].status = "running"
                                     /\ c.attempts = tasks'[k].attempts
    BY DEF ClaimMatchesRow
  <2>1. CASE c \in Held(j)
    <3>1. c.id < nextId' /\ c.payload.ref < nextId'
      BY <1>1, <2>1 DEF IInv, ClaimMatchesRow, ClaimDueTasks
    <3> QED
      BY <1>1, <2>1, <3>1, ClaimKeepsOthers
  <2>2. CASE c \in Claimed
    <3>1. PICK k \in DueBatch :
            /\ k \in Keys /\ Present(k)
            /\ c.id = tasks[k].id /\ c.payload = tasks[k].payload
            /\ c.attempts = tasks'[k].attempts /\ tasks'[k].status = "running"
            /\ \A m \in Keys : Present(m) /\ m # k =>
                 tasks[m].id # c.id /\ tasks[m].payload.ref # c.payload.ref
      BY <1>5, <2>2
    <3>2. c.id < nextId' /\ c.payload.ref < nextId'
      BY <1>1, <3>1 DEF IInv, FreshIds, ClaimDueTasks
    <3>3. c.attempts <= tasks'[k].attempts
      BY <3>1 DEF TypeOK, Task
    <3> QED
      BY <1>4, <3>1, <3>2, <3>3
  <2> QED
    BY <1>2, <2>1, <2>2
<1>7. OneJob'
  BY <1>1 DEF IInv, OneJob, TypeOK
<1>8. RowAttempts'
  <2> SUFFICES ASSUME NEW k \in Keys, tasks[k].payload.ref \notin contested
               PROVE  /\ tasks'[k].status = "pending" =>
                           tasks'[k].attempts < MaxAttempts + crashes + faults
                      /\ tasks'[k].status = "running" =>
                           /\ tasks'[k].attempts <= MaxAttempts + crashes + faults
                           /\ ~ClaimedBySome(k)' =>
                                tasks'[k].attempts < MaxAttempts + crashes + faults
    BY <1>1, <1>4 DEF RowAttempts
  <2>1. CASE k \in DueBatch
    <3>1. ClaimedBySome(k)'
      <4>1. [key |-> k, id |-> tasks[k].id, payload |-> tasks[k].payload,
             attempts |-> tasks[k].attempts + 1] \in Held(i)'
        BY <1>2, <2>1 DEF Claimed
      <4>2. Present(k)'
        BY <1>1, <2>1, ClaimRows, ClaimEffect DEF IInv, Present
      <4> QED
        BY <1>4, <4>1, <4>2 DEF ClaimedBySome
    <3>2. tasks[k].attempts < MaxAttempts + crashes + faults
      BY <1>1, <2>1, ClaimRows DEF IInv, RowAttempts
    <3>3. /\ tasks'[k].status = "running" /\ tasks'[k].attempts = tasks[k].attempts + 1
          /\ tasks[k].attempts \in Nat /\ crashes \in Nat /\ faults \in Nat
          /\ MaxAttempts \in Nat
      BY <1>1, <2>1, ClaimEffect, StoreAssumption DEF IInv, TypeOK, Task
    <3>4. tasks'[k].attempts <= MaxAttempts + crashes + faults
      BY <3>2, <3>3
    <3> QED
      BY <3>1, <3>3, <3>4
  <2>2. CASE k \notin DueBatch
    <3>1. tasks'[k] = tasks[k]
      BY <1>1, <2>2, ClaimEffect DEF IInv
    <3>2. ClaimedBySome(k) => ClaimedBySome(k)'
      BY <1>2, <1>4 DEF ClaimedBySome
    <3> QED
      BY <3>1, <3>2, Zenon DEF IInv, RowAttempts
  <2> QED
    BY <2>1, <2>2
<1>9. NeverEarly'
  <2> SUFFICES ASSUME NEW c \in Claimed, c.payload.ref \notin contested
               PROVE  c.payload.at <= now
    BY <1>1, <1>2 DEF IInv, NeverEarly
  <2>1. PICK k \in Keys : /\ tasks[k].status = "pending" /\ tasks[k].runAt <= now
                          /\ c.payload = tasks[k].payload
    BY <1>5
  <2>2. tasks[k].payload.at <= tasks[k].runAt
    BY <2>1 DEF IInv, RowTimes
  <2>3. tasks[k].payload.at \in Nat /\ tasks[k].runAt \in Nat /\ now \in Nat
    BY DEF IInv, TypeOK, Task, Payload
  <2> QED
    BY <2>1, <2>2, <2>3
<1>10. CancelSticks'
  <2> SUFFICES ASSUME NEW c \in Claimed, c.payload.ref \in withdrawn
               PROVE  c.payload.ref \in contested
    BY <1>1, <1>2 DEF IInv, CancelSticks
  <2> QED
    BY <1>5 DEF IInv, RowWithdrawn
<1>11. RetryBudget'
  <2> SUFFICES ASSUME NEW c \in Claimed, c.payload.ref \notin contested
               PROVE  c.attempts <= MaxAttempts + crashes + faults
    BY <1>1, <1>2 DEF IInv, RetryBudget
  <2>1. PICK k \in Keys : /\ tasks[k].status = "pending"
                          /\ c.payload = tasks[k].payload
                          /\ c.attempts = tasks[k].attempts + 1
    BY <1>5
  <2>2. tasks[k].attempts < MaxAttempts + crashes + faults
    BY <2>1 DEF IInv, RowAttempts
  <2>3. /\ tasks[k].attempts \in Nat /\ crashes \in Nat /\ faults \in Nat
        /\ MaxAttempts \in Nat
    BY StoreAssumption DEF IInv, TypeOK, Task
  <2> QED
    BY <2>1, <2>2, <2>3
(* A claim held by another worker is of another payload, or of an earlier attempt. *)
<1>12. ASSUME NEW c \in Claimed, NEW j \in Instances, NEW d \in Held(j),
              c.payload.ref = d.payload.ref
       PROVE  c.payload.ref \in contested /\ c.attempts # d.attempts
  <2>1. PICK k \in Keys : /\ Present(k) /\ tasks[k].status = "pending"
                          /\ c.payload = tasks[k].payload
                          /\ c.attempts = tasks[k].attempts + 1
    BY <1>5
  <2>2. d.attempts <= tasks[k].attempts /\ d.payload.ref \in contested
    BY <1>12, <2>1 DEF IInv, ClaimMatchesRow
  <2>3. tasks[k].attempts \in Nat /\ d.attempts \in Nat
    BY DEF IInv, TypeOK, Task, Held, Claim
  <2> QED
    BY <1>12, <2>1, <2>2, <2>3
<1>13. ASSUME NEW c \in Claimed, NEW d \in Claimed, c.payload.ref = d.payload.ref
       PROVE  c = d
  <2>1. PICK k \in DueBatch : c = [key |-> k, id |-> tasks[k].id, payload |-> tasks[k].payload,
                                   attempts |-> tasks[k].attempts + 1]
    BY DEF Claimed
  <2>2. PICK m \in DueBatch : d = [key |-> m, id |-> tasks[m].id, payload |-> tasks[m].payload,
                                   attempts |-> tasks[m].attempts + 1]
    BY DEF Claimed
  <2>3. k \in Keys /\ m \in Keys /\ Present(k) /\ Present(m)
    BY <1>1, ClaimRows DEF Present
  <2>4. k = m
    BY <1>13, <2>1, <2>2, <2>3 DEF IInv, FreshIds
  <2> QED
    BY <2>1, <2>2, <2>4
<1>14. ExclusiveRun'
  BY <1>1, <1>2, <1>12, <1>13 DEF IInv, ExclusiveRun
<1>15. ClaimTokensUnique'
  <2>1. job'[i] = {}
    BY <1>1
  <2>2. \A j \in Instances : j # i => batch'[j] = batch[j] /\ job'[j] = job[j]
    BY <1>1
  <2> QED
    BY <1>2, <1>12, <1>13, <2>1, <2>2 DEF IInv, ClaimTokensUnique
<1> QED
  BY <1>3, <1>6, <1>7, <1>8, <1>9, <1>10, <1>11, <1>14, <1>15 DEF IInv

(* A batch is claimed and never seen. *)
LEMMA ClaimLostStep ==
  ASSUME IInv, TypeOK', NEW i \in Instances, ClaimLost(i)
  PROVE  IInv'
<1>1. /\ ClaimDueTasks /\ UNCHANGED <<now, ran, withdrawn, contested, crashes, batch, job>>
      /\ faults' = faults + 1
  BY DEF ClaimLost, Fault, control, history
<1>2. \A j \in Instances : Held(j)' = Held(j)
  BY <1>1 DEF Held
<1>3. FreshIds' /\ RowTimes' /\ RowWithdrawn' /\ DoneWasRun'
  BY <1>1, ClaimRows
<1>4. ClaimMatchesRow'
  <2>1. ASSUME NEW j \in Instances, NEW c \in Held(j)
        PROVE  c.id < nextId' /\ c.payload.ref < nextId'
    BY <1>1 DEF IInv, ClaimMatchesRow, ClaimDueTasks
  <2> QED
    BY <1>1, <1>2, <2>1, ClaimKeepsOthers DEF ClaimMatchesRow
<1>5. OneJob'
  BY <1>1 DEF IInv, OneJob
<1>6. RowAttempts'
  <2>0. /\ \A k \in Keys : tasks'[k].attempts \in Nat
        /\ \A k \in Keys : tasks'[k].payload = tasks[k].payload
        /\ crashes' \in Nat /\ faults' \in Nat /\ MaxAttempts \in Nat
    BY <1>1, ClaimEffect, StoreAssumption DEF IInv, TypeOK, Task
  <2> SUFFICES ASSUME NEW k \in Keys, tasks[k].payload.ref \notin contested,
                      tasks'[k].status \in {"pending", "running"}
               PROVE  tasks'[k].attempts < MaxAttempts + crashes' + faults'
    BY <1>1, <2>0 DEF RowAttempts
  <2>1. /\ tasks[k].attempts \in Nat /\ crashes \in Nat /\ faults \in Nat
        /\ MaxAttempts \in Nat
    BY StoreAssumption DEF IInv, TypeOK, Task
  <2>2. CASE k \in DueBatch
    <3>1. tasks[k].attempts < MaxAttempts + crashes + faults
      BY <1>1, <2>2, ClaimRows DEF IInv, RowAttempts
    <3>2. tasks'[k].attempts = tasks[k].attempts + 1
      BY <1>1, <2>2, ClaimEffect DEF IInv
    <3> QED
      BY <1>1, <2>1, <3>1, <3>2
  <2>3. CASE k \notin DueBatch
    <3>1. tasks'[k] = tasks[k]
      BY <1>1, <2>3, ClaimEffect DEF IInv
    <3>2. \/ tasks[k].attempts < MaxAttempts + crashes + faults
          \/ tasks[k].attempts <= MaxAttempts + crashes + faults
      BY <3>1 DEF IInv, RowAttempts
    <3> QED
      BY <1>1, <2>1, <3>1, <3>2
  <2> QED
    BY <2>2, <2>3
<1>7. NeverEarly' /\ CancelSticks' /\ ExclusiveRun'
  BY <1>1, <1>2 DEF IInv, NeverEarly, CancelSticks, ExclusiveRun
<1>8. RetryBudget'
  <2> SUFFICES ASSUME NEW j \in Instances, NEW c \in Held(j), c.payload.ref \notin contested
               PROVE  c.attempts <= MaxAttempts + crashes' + faults'
    BY <1>1, <1>2 DEF RetryBudget
  <2>1. /\ c.attempts \in Nat /\ crashes \in Nat /\ faults \in Nat
        /\ MaxAttempts \in Nat
    BY StoreAssumption DEF IInv, TypeOK, Held, Claim
  <2>2. c.attempts <= MaxAttempts + crashes + faults
    BY DEF IInv, RetryBudget
  <2> QED
    BY <1>1, <2>1, <2>2
<1>9. ClaimTokensUnique'
  BY <1>1, <1>2 DEF IInv, ClaimTokensUnique
<1> QED
  BY <1>3, <1>4, <1>5, <1>6, <1>7, <1>8, <1>9 DEF IInv

(* A claim moves from the batch to the job. *)
LEMMA ExecuteStep ==
  ASSUME IInv, TypeOK', NEW i \in Instances, Execute(i)
  PROVE  IInv'
<1>1. PICK e \in batch[i] :
        /\ batch' = [batch EXCEPT ![i] = @ \ {e}]
        /\ job' = [job EXCEPT ![i] = {e}]
        /\ ran' = ran \cup {e.payload.ref}
  BY DEF Execute
<1>2. job[i] = {} /\ UNCHANGED <<tasks, nextId, now, withdrawn, contested, crashes, faults>>
  BY DEF Execute, NoFault
<1>3. /\ batch'[i] = batch[i] \ {e} /\ job'[i] = {e}
      /\ \A j \in Instances : j # i => batch'[j] = batch[j] /\ job'[j] = job[j]
  BY <1>1 DEF IInv, TypeOK
<1>4. \A j \in Instances : Held(j)' = Held(j)
  BY <1>1, <1>2, <1>3 DEF Held
<1>5. \A k \in Keys : ClaimedBySome(k)' <=> ClaimedBySome(k)
  BY <1>2, <1>4 DEF ClaimedBySome, Present
<1>6. FreshIds' /\ RowTimes' /\ RowWithdrawn'
  BY <1>2 DEF IInv, FreshIds, RowTimes, RowWithdrawn, Present
<1>7. ClaimMatchesRow'
  BY <1>2, <1>4 DEF IInv, ClaimMatchesRow, Present
<1>8. OneJob'
  BY <1>1, <1>3 DEF IInv, OneJob
<1>9. RowAttempts'
  BY <1>2, <1>5, Zenon DEF IInv, RowAttempts
<1>10. DoneWasRun'
  BY <1>1, <1>2 DEF IInv, DoneWasRun
<1>11. NeverEarly' /\ CancelSticks' /\ RetryBudget' /\ ExclusiveRun'
  BY <1>2, <1>4 DEF IInv, NeverEarly, CancelSticks, RetryBudget, ExclusiveRun
<1>12. ClaimTokensUnique'
  BY <1>1, <1>2, <1>3, <1>4 DEF IInv, ClaimTokensUnique
<1> QED
  BY <1>6, <1>7, <1>8, <1>9, <1>10, <1>11, <1>12 DEF IInv

(* The worker is done with its job and writes the outcome to the row with   *)
(* the job's id, whatever that row has become.                              *)
LEMMA SettleStep ==
  ASSUME IInv, TypeOK', NEW i \in Instances, NEW c \in job[i],
         CompleteTask(c.id) \/ FailTask(c.id, c.attempts), Release(i),
         UNCHANGED <<now, batch, crashes, faults, ran, withdrawn, contested>>
  PROVE  IInv'
<1>1. c \in Held(i) /\ c.id \in Nat /\ c.attempts \in Nat
  BY DEF IInv, TypeOK, Held, Claim
<1>2. ASSUME NEW k \in Keys
      PROVE  /\ nextId' = nextId
             /\ tasks'[k].id = tasks[k].id
             /\ tasks'[k].payload = tasks[k].payload
             /\ tasks'[k].attempts = tasks[k].attempts
             /\ HasId(k, c.id) => \/ tasks'[k].status \in {"done", "failed"}
                                  \/ /\ tasks'[k].status = "pending"
                                     /\ tasks'[k].runAt >= now
                                     /\ c.attempts < MaxAttempts
             /\ ~HasId(k, c.id) => tasks'[k] = tasks[k]
  <2>1. CASE CompleteTask(c.id)
    BY <1>1, <2>1, CompleteEffect DEF IInv
  <2>2. CASE FailTask(c.id, c.attempts)
    BY <1>1, <2>2, FailEffect DEF IInv
  <2> QED
    BY <2>1, <2>2
<1>3. nextId' = nextId
  BY DEF CompleteTask, FailTask
<1>4. \A k \in Keys : Present(k)' <=> Present(k)
  BY <1>2 DEF Present, HasId
<1>5. /\ job[i] = {c} /\ c \notin batch[i] /\ c.payload.ref \in ran
      /\ job'[i] = {} /\ batch' = batch
      /\ \A j \in Instances : j # i => job'[j] = job[j]
  BY DEF IInv, OneJob, Release, TypeOK
<1>6. \A j \in Instances : Held(j)' \subseteq Held(j) /\ (j # i => Held(j)' = Held(j))
  BY <1>5 DEF Held
<1>7. c \notin Held(i)' /\ \A d \in Held(i) : d = c \/ d \in Held(i)'
  BY <1>5 DEF Held
(* The row it writes to: its own, or a contested one. *)
<1>8. ASSUME NEW k \in Keys, HasId(k, c.id), tasks[k].payload.ref \notin contested
      PROVE  tasks[k].payload = c.payload /\ tasks[k].attempts = c.attempts
  BY <1>1, <1>8 DEF IInv, ClaimMatchesRow, HasId
<1>9. FreshIds'
  BY <1>2, <1>3, <1>4 DEF IInv, FreshIds
<1>10. ClaimMatchesRow'
  <2> SUFFICES ASSUME NEW j \in Instances, NEW d \in Held(j)'
               PROVE  /\ d.id < nextId' /\ d.payload.ref < nextId'
                      /\ \A k \in Keys : Present(k)' =>
                           /\ tasks'[k].id = d.id => \/ tasks'[k].payload = d.payload
                                                    \/ tasks'[k].payload.ref \in contested'
                           /\ tasks'[k].payload.ref = d.payload.ref =>
                                /\ tasks'[k].id = d.id
                                /\ d.attempts <= tasks'[k].attempts
                                /\ d.payload.ref \notin contested' =>
                                     /\ tasks'[k].status = "running"
                                     /\ d.attempts = tasks'[k].attempts
    BY DEF ClaimMatchesRow
  <2>1. d \in Held(j)
    BY <1>6
  <2>2. ASSUME NEW k \in Keys, tasks[k].payload.ref = d.payload.ref,
               d.payload.ref \notin contested
        PROVE  tasks'[k] = tasks[k]
    <3>1. CASE HasId(k, c.id)
      <4>1. c.payload.ref = d.payload.ref
        BY <1>8, <2>2, <3>1
      <4>2. i = j /\ c = d
        BY <1>1, <2>1, <2>2, <4>1 DEF IInv, ExclusiveRun
      <4> QED
        BY <1>7, <4>2
    <3> QED
      BY <1>2, <3>1
  <2> QED
    BY <1>2, <1>3, <1>4, <2>1, <2>2 DEF IInv, ClaimMatchesRow
<1>11. OneJob'
  BY <1>5 DEF IInv, OneJob
<1>12. RowTimes'
  <2> SUFFICES ASSUME NEW k \in Keys, tasks[k].payload.ref \notin contested
               PROVE  /\ tasks'[k].status = "pending" =>
                           tasks[k].payload.at <= tasks'[k].runAt
                      /\ tasks'[k].status = "running" => tasks[k].payload.at <= now
    BY <1>2 DEF RowTimes
  <2>1. CASE ~HasId(k, c.id)
    BY <1>2, <2>1 DEF IInv, RowTimes
  <2>2. CASE HasId(k, c.id)
    <3>1. tasks[k].payload.at <= now
      BY <1>1, <1>8, <2>2 DEF IInv, NeverEarly
    <3>2. tasks[k].payload.at \in Nat /\ now \in Nat /\ tasks'[k].runAt \in Nat
      BY DEF IInv, TypeOK, Task, Payload
    <3>3. tasks'[k].status = "pending" => tasks'[k].runAt >= now
      BY <1>2, <2>2
    <3>4. tasks'[k].status = "pending" => tasks[k].payload.at <= tasks'[k].runAt
      BY <3>1, <3>2, <3>3
    <3> QED
      BY <1>2, <2>2, <3>1, <3>4
  <2> QED
    BY <2>1, <2>2
<1>13. RowWithdrawn'
  <2> SUFFICES ASSUME NEW k \in Keys, Present(k), tasks[k].payload.ref \in withdrawn,
                      tasks[k].payload.ref \notin contested
               PROVE  tasks'[k].status = "cancelled"
    BY <1>2, <1>4 DEF RowWithdrawn
  <2>1. ~HasId(k, c.id)
    BY <1>1, <1>8 DEF IInv, CancelSticks
  <2> QED
    BY <1>2, <2>1 DEF IInv, RowWithdrawn
<1>14. RowAttempts'
  <2> SUFFICES ASSUME NEW k \in Keys, tasks[k].payload.ref \notin contested
               PROVE  /\ tasks'[k].status = "pending" =>
                           tasks[k].attempts < MaxAttempts + crashes + faults
                      /\ tasks'[k].status = "running" =>
                           /\ tasks[k].attempts <= MaxAttempts + crashes + faults
                           /\ ~ClaimedBySome(k)' =>
                                tasks[k].attempts < MaxAttempts + crashes + faults
    BY <1>2 DEF RowAttempts
  <2>1. CASE ~HasId(k, c.id)
    <3>1. tasks'[k] = tasks[k]
      BY <1>2, <2>1
    <3>2. ASSUME ClaimedBySome(k) PROVE ClaimedBySome(k)'
      <4>1. PICK j \in Instances : \E d \in Held(j) : Present(k) /\ d.id = tasks[k].id
        BY <3>2 DEF ClaimedBySome
      <4>2. PICK d \in Held(j) : Present(k) /\ d.id = tasks[k].id
        BY <4>1
      <4>3. d # c
        BY <2>1, <4>2 DEF HasId
      <4>4. d \in Held(j)'
        BY <1>6, <1>7, <4>3
      <4> QED
        BY <1>4, <3>1, <4>2, <4>4 DEF ClaimedBySome
    <3> QED
      BY <3>1, <3>2, Zenon DEF IInv, RowAttempts
  <2>2. CASE HasId(k, c.id)
    <3>1. tasks'[k].status = "pending" => tasks[k].attempts < MaxAttempts
      BY <1>2, <1>8, <2>2
    <3>2. /\ tasks[k].attempts \in Nat /\ MaxAttempts \in Nat
          /\ crashes \in Nat /\ faults \in Nat
      BY StoreAssumption DEF IInv, TypeOK, Task
    <3>3. tasks[k].attempts < MaxAttempts =>
            tasks[k].attempts < MaxAttempts + crashes + faults
      BY <3>2
    <3>4. tasks'[k].status # "running"
      BY <1>2, <2>2
    <3> QED
      BY <3>1, <3>3, <3>4, Zenon
  <2> QED
    BY <2>1, <2>2
<1>15. DoneWasRun'
  <2> SUFFICES ASSUME NEW k \in Keys, tasks'[k].status = "done",
                      tasks[k].payload.ref \notin contested
               PROVE  tasks[k].payload.ref \in ran
    BY <1>2 DEF DoneWasRun
  <2>1. CASE HasId(k, c.id)
    BY <1>5, <1>8, <2>1
  <2>2. CASE ~HasId(k, c.id)
    BY <1>2, <2>2 DEF IInv, DoneWasRun
  <2> QED
    BY <2>1, <2>2
<1>16. NeverEarly' /\ CancelSticks' /\ RetryBudget' /\ ExclusiveRun'
  BY <1>6 DEF IInv, NeverEarly, CancelSticks, RetryBudget, ExclusiveRun
<1>17. ClaimTokensUnique'
  BY <1>5, <1>6 DEF IInv, ClaimTokensUnique
<1> QED
  BY <1>9, <1>10, <1>11, <1>12, <1>13, <1>14, <1>15, <1>16, <1>17 DEF IInv

(* A starting instance puts every running row back, contesting the claimed ones. *)
LEMMA RecoverStep ==
  ASSUME IInv, TypeOK', NEW i \in Instances, Recover(i)
  PROVE  IInv'
<1>1. /\ RecoverRunningTasks
      /\ contested' = contested \cup
           {tasks[k].payload.ref : k \in {k \in Keys : tasks[k].status = "running"
                                                       /\ ClaimedBySome(k)}}
      /\ UNCHANGED <<now, batch, job, ran, withdrawn, crashes, faults>>
  BY DEF Recover, NoFault
<1>2. ASSUME NEW k \in Keys
      PROVE  /\ tasks'[k].id = tasks[k].id
             /\ tasks'[k].payload = tasks[k].payload
             /\ tasks'[k].attempts = tasks[k].attempts
             /\ tasks[k].status = "running" => /\ tasks'[k].status = "pending"
                                               /\ tasks'[k].runAt = now
             /\ tasks[k].status # "running" => tasks'[k] = tasks[k]
  BY <1>1, RecoverEffect DEF IInv
<1>3. nextId' = nextId
  BY <1>1 DEF RecoverRunningTasks
<1>4. \A k \in Keys : Present(k)' <=> Present(k)
  BY <1>2 DEF Present
<1>5. \A j \in Instances : Held(j)' = Held(j)
  BY <1>1 DEF Held
<1>6. /\ contested \subseteq contested'
      /\ \A k \in Keys : tasks[k].status = "running" /\ ClaimedBySome(k) =>
           tasks[k].payload.ref \in contested'
  BY <1>1
<1>7. \A k \in Keys : ClaimedBySome(k)' <=> ClaimedBySome(k)
  BY <1>2, <1>4, <1>5 DEF ClaimedBySome
<1>8. FreshIds'
  BY <1>1, <1>2, <1>3, <1>4 DEF IInv, FreshIds
<1>9. ClaimMatchesRow'
  <2> SUFFICES ASSUME NEW j \in Instances, NEW d \in Held(j)
               PROVE  /\ d.id < nextId /\ d.payload.ref < nextId
                      /\ \A k \in Keys : Present(k) =>
                           /\ tasks[k].id = d.id => \/ tasks[k].payload = d.payload
                                                   \/ tasks[k].payload.ref \in contested'
                           /\ tasks[k].payload.ref = d.payload.ref =>
                                /\ tasks[k].id = d.id
                                /\ d.attempts <= tasks[k].attempts
                                /\ d.payload.ref \notin contested' =>
                                     /\ tasks'[k].status = "running"
                                     /\ d.attempts = tasks[k].attempts
    BY <1>2, <1>3, <1>4, <1>5 DEF ClaimMatchesRow
  <2>1. ASSUME NEW k \in Keys, Present(k), tasks[k].payload.ref = d.payload.ref,
               d.payload.ref \notin contested'
        PROVE  FALSE
    <3>1. tasks[k].status = "running" /\ tasks[k].id = d.id
      BY <1>6, <2>1 DEF IInv, ClaimMatchesRow
    <3>2. ClaimedBySome(k)
      BY <2>1, <3>1 DEF ClaimedBySome
    <3> QED
      BY <1>6, <2>1, <3>1, <3>2
  <2> QED
    BY <1>6, <2>1 DEF IInv, ClaimMatchesRow
<1>10. OneJob'
  BY <1>1 DEF IInv, OneJob
<1>11. RowTimes'
  <2> SUFFICES ASSUME NEW k \in Keys, tasks[k].payload.ref \notin contested
               PROVE  /\ tasks'[k].status = "pending" =>
                           tasks[k].payload.at <= tasks'[k].runAt
                      /\ tasks'[k].status = "running" => tasks[k].payload.at <= now
    BY <1>1, <1>2, <1>6 DEF RowTimes
  <2> QED
    BY <1>2 DEF IInv, RowTimes
<1>12. RowWithdrawn'
  BY <1>1, <1>2, <1>4, <1>6 DEF IInv, RowWithdrawn
<1>13. RowAttempts'
  <2> SUFFICES ASSUME NEW k \in Keys, tasks[k].payload.ref \notin contested'
               PROVE  /\ tasks'[k].status = "pending" =>
                           tasks[k].attempts < MaxAttempts + crashes + faults
                      /\ tasks'[k].status # "running"
    BY <1>1, <1>2 DEF RowAttempts
  <2>1. CASE tasks[k].status = "running"
    <3>1. ~ClaimedBySome(k)
      BY <1>6, <2>1, Zenon
    <3>2. tasks[k].attempts < MaxAttempts + crashes + faults
      BY <1>6, <2>1, <3>1, Zenon DEF IInv, RowAttempts
    <3> QED
      BY <1>2, <2>1, <3>2
  <2>2. CASE tasks[k].status # "running"
    <3>1. tasks[k].payload.ref \notin contested /\ tasks'[k] = tasks[k]
      BY <1>2, <1>6, <2>2
    <3>2. tasks[k].status = "pending" => tasks[k].attempts < MaxAttempts + crashes + faults
      BY <3>1, Zenon DEF IInv, RowAttempts
    <3> QED
      BY <2>2, <3>1, <3>2
  <2> QED
    BY <2>1, <2>2
<1>14. DoneWasRun'
  BY <1>1, <1>2, <1>6 DEF IInv, DoneWasRun
<1>15. NeverEarly' /\ CancelSticks' /\ RetryBudget' /\ ExclusiveRun'
  BY <1>1, <1>5, <1>6 DEF IInv, NeverEarly, CancelSticks, RetryBudget, ExclusiveRun
<1>16. ClaimTokensUnique'
  BY <1>1, <1>5 DEF IInv, ClaimTokensUnique
<1> QED
  BY <1>8, <1>9, <1>10, <1>11, <1>12, <1>13, <1>14, <1>15, <1>16 DEF IInv

(* Old finished rows are deleted. *)
LEMMA CleanupStep ==
  ASSUME IInv, TypeOK', CleanupFinishedTasks,
         UNCHANGED <<now, batch, job, ran, withdrawn, contested, crashes, faults>>
  PROVE  IInv'
<1>1. \A k \in Keys : tasks'[k] = tasks[k] \/ tasks'[k] = NoTask
  BY CleanupEffect DEF IInv
<1>2. nextId' = nextId
  BY DEF CleanupFinishedTasks
<1>3. \A k \in Keys : Present(k)' => Present(k) /\ tasks'[k] = tasks[k]
  BY <1>1 DEF Present, NoTask
<1>4. \A j \in Instances : Held(j)' = Held(j)
  BY DEF Held
<1>5. \A k \in Keys : tasks'[k].status \in {"pending", "running", "done"} =>
                       Present(k)' /\ tasks'[k] = tasks[k]
  BY <1>3 DEF Present
<1>6. \A k \in Keys : Present(k)' => (ClaimedBySome(k)' <=> ClaimedBySome(k))
  BY <1>3, <1>4 DEF ClaimedBySome
<1>7. FreshIds'
  BY <1>2, <1>3 DEF IInv, FreshIds
<1>8. ClaimMatchesRow'
  BY <1>2, <1>3, <1>4 DEF IInv, ClaimMatchesRow
<1>9. OneJob'
  BY DEF IInv, OneJob
<1>10. RowTimes'
  BY <1>5 DEF IInv, RowTimes
<1>11. RowWithdrawn'
  BY <1>3 DEF IInv, RowWithdrawn
<1>12. RowAttempts'
  BY <1>5, <1>6, Zenon DEF IInv, RowAttempts
<1>13. DoneWasRun'
  BY <1>5 DEF IInv, DoneWasRun
<1>14. NeverEarly' /\ CancelSticks' /\ RetryBudget' /\ ExclusiveRun'
  BY <1>4 DEF IInv, NeverEarly, CancelSticks, RetryBudget, ExclusiveRun
<1>15. ClaimTokensUnique'
  BY <1>4 DEF IInv, ClaimTokensUnique
<1> QED
  BY <1>7, <1>8, <1>9, <1>10, <1>11, <1>12, <1>13, <1>14, <1>15 DEF IInv

(* A pending row is cancelled. *)
LEMMA CancelStep ==
  ASSUME IInv, TypeOK', NEW k \in Keys, Cancel(k)
  PROVE  IInv'
<1>1. /\ Cancellable(k) /\ CancelTaskByDedupKey(k)
      /\ withdrawn' = withdrawn \cup {tasks[k].payload.ref}
      /\ UNCHANGED <<now, batch, job, ran, contested, crashes, faults>>
  BY DEF Cancel, NoFault, control
<1>2. ASSUME NEW j \in Keys
      PROVE  /\ nextId' = nextId
             /\ tasks'[j].id = tasks[j].id
             /\ tasks'[j].payload = tasks[j].payload
             /\ tasks'[k].status = "cancelled"
             /\ j # k => tasks'[j] = tasks[j]
             /\ tasks'[j].attempts = tasks[j].attempts
  BY <1>1, CancelEffect DEF IInv
<1>3. nextId' = nextId
  BY <1>1 DEF CancelTaskByDedupKey
<1>4. tasks[k].status = "pending" /\ Present(k)
  BY <1>1 DEF Cancellable, Present
<1>5. \A j \in Keys : Present(j)' <=> Present(j)
  BY <1>2, <1>4 DEF Present
<1>6. \A j \in Instances : Held(j)' = Held(j)
  BY <1>1 DEF Held
<1>7. \A j \in Keys : ClaimedBySome(j)' <=> ClaimedBySome(j)
  BY <1>2, <1>5, <1>6 DEF ClaimedBySome
<1>8. FreshIds'
  BY <1>1, <1>2, <1>3, <1>4, <1>5 DEF IInv, FreshIds
<1>9. ClaimMatchesRow'
  <2> SUFFICES ASSUME NEW i \in Instances, NEW c \in Held(i)
               PROVE  /\ c.id < nextId /\ c.payload.ref < nextId
                      /\ \A j \in Keys : Present(j) =>
                           /\ tasks[j].id = c.id => \/ tasks[j].payload = c.payload
                                                   \/ tasks[j].payload.ref \in contested
                           /\ tasks[j].payload.ref = c.payload.ref =>
                                /\ tasks[j].id = c.id
                                /\ c.attempts <= tasks[j].attempts
                                /\ c.payload.ref \notin contested =>
                                     /\ tasks'[j].status = "running"
                                     /\ c.attempts = tasks[j].attempts
    BY <1>1, <1>2, <1>3, <1>5, <1>6 DEF ClaimMatchesRow
  <2> QED
    BY <1>2, <1>4 DEF IInv, ClaimMatchesRow
<1>10. OneJob'
  BY <1>1 DEF IInv, OneJob
<1>11. RowTimes'
  BY <1>1, <1>2 DEF IInv, RowTimes
<1>12. RowWithdrawn'
  BY <1>1, <1>2, <1>4, <1>5 DEF IInv, RowWithdrawn, FreshIds
<1>13. RowAttempts'
  <2>1. ASSUME NEW j \in Keys, tasks'[j].status \in {"pending", "running"}
        PROVE  tasks'[j] = tasks[j]
    BY <1>2, <2>1
  <2> QED
    BY <1>1, <1>2, <1>7, <2>1, Zenon DEF IInv, RowAttempts
<1>14. DoneWasRun'
  BY <1>1, <1>2 DEF IInv, DoneWasRun
(* A worker that holds a claim on a pending row holds a contested one. *)
<1>15. CancelSticks'
  <2> SUFFICES ASSUME NEW i \in Instances, NEW c \in Held(i),
                      c.payload.ref = tasks[k].payload.ref
               PROVE  c.payload.ref \in contested
    BY <1>1, <1>6 DEF IInv, CancelSticks
  <2> QED
    BY <1>4 DEF IInv, ClaimMatchesRow
<1>16. NeverEarly' /\ RetryBudget' /\ ExclusiveRun'
  BY <1>1, <1>6 DEF IInv, NeverEarly, RetryBudget, ExclusiveRun
<1>17. ClaimTokensUnique'
  BY <1>1, <1>6 DEF IInv, ClaimTokensUnique
<1> QED
  BY <1>8, <1>9, <1>10, <1>11, <1>12, <1>13, <1>14, <1>15, <1>16, <1>17 DEF IInv

(* A task is enqueued, on a fresh row or over the one its key has. *)
LEMMA EnqueueStep ==
  ASSUME IInv, TypeOK', NEW k \in Keys, NEW d \in Delays, Enqueue(k, d)
  PROVE  IInv'
<1> DEFINE p == [ref |-> nextId, at |-> now + d]
<1>1. /\ EnqueueTask(k, p, now + d) /\ nextId' = nextId + 1
      /\ contested' = IF ClaimedBySome(k) THEN contested \cup {nextId} ELSE contested
      /\ UNCHANGED <<now, batch, job, ran, withdrawn, crashes, faults>>
  BY DEF Enqueue, EnqueueTask, NoFault, control
<1>2. /\ nextId \in Nat \ {0} /\ now \in Nat /\ d \in Nat /\ MaxAttempts \in Nat \ {0}
      /\ crashes \in Nat /\ faults \in Nat
  BY StoreAssumption, WorkerAssumption DEF IInv, TypeOK
<1>3. /\ tasks'[k].id = IF Present(k) THEN tasks[k].id ELSE nextId
      /\ tasks'[k].payload = p /\ tasks'[k].runAt = now + d
      /\ tasks'[k].status = "pending" /\ tasks'[k].attempts = 0
      /\ \A j \in Keys : j # k => tasks'[j] = tasks[j]
  BY <1>1 DEF EnqueueTask, IInv, TypeOK
<1>4. /\ p.ref = nextId /\ p.at = now + d
      /\ tasks'[k].payload.ref = nextId /\ tasks'[k].payload.at = now + d
  BY <1>3
<1>5. Present(k)' /\ \A j \in Keys : j # k => (Present(j)' <=> Present(j))
  BY <1>3 DEF Present
<1>6. \A j \in Instances : Held(j)' = Held(j)
  BY <1>1 DEF Held
<1>7. /\ \A j \in Keys : tasks[j].id \in Nat /\ tasks[j].payload.ref \in Nat
      /\ \A n \in withdrawn : n \in Nat
      /\ \A i \in Instances : \A c \in Held(i) :
           /\ c.id \in Nat /\ c.payload.ref \in Nat
           /\ c.id < nextId /\ c.payload.ref < nextId
  BY DEF IInv, TypeOK, Task, Payload, Held, Claim, ClaimMatchesRow
<1>8. FreshIds'
  <2>1. \A j \in Keys : Present(j) => tasks[j].id < nextId /\ tasks[j].payload.ref < nextId
    BY DEF IInv, FreshIds
  <2>2. \A j \in Keys : Present(j)' => tasks'[j].id < nextId' /\ tasks'[j].payload.ref < nextId'
    BY <1>1, <1>2, <1>3, <1>4, <1>5, <1>7, <2>1
  <2>3. \A j \in Keys : Present(j)' /\ j # k =>
          tasks'[j].id # tasks'[k].id /\ tasks'[j].payload.ref # tasks'[k].payload.ref
    BY <1>2, <1>3, <1>4, <1>5, <1>7, <2>1 DEF IInv, FreshIds
  <2>4. \A i, j \in Keys : Present(i)' /\ Present(j)' /\ i # j /\ i # k /\ j # k =>
          tasks'[i].id # tasks'[j].id /\ tasks'[i].payload.ref # tasks'[j].payload.ref
    BY <1>3, <1>5 DEF IInv, FreshIds
  <2>5. \A n \in withdrawn' : n < nextId'
    BY <1>1, <1>2, <1>7 DEF IInv, FreshIds
  <2> QED
    BY <2>2, <2>3, <2>4, <2>5 DEF FreshIds
<1>9. ClaimMatchesRow'
  <2> SUFFICES ASSUME NEW i \in Instances, NEW c \in Held(i), NEW j \in Keys, Present(j)'
               PROVE  /\ tasks'[j].id = c.id => \/ tasks'[j].payload = c.payload
                                               \/ tasks'[j].payload.ref \in contested'
                      /\ tasks'[j].payload.ref = c.payload.ref =>
                           /\ tasks'[j].id = c.id
                           /\ c.attempts <= tasks'[j].attempts
                           /\ c.payload.ref \notin contested' =>
                                /\ tasks'[j].status = "running"
                                /\ c.attempts = tasks'[j].attempts
    BY <1>1, <1>2, <1>6, <1>7 DEF ClaimMatchesRow
  <2>1. CASE j = k
    <3>1. tasks'[k].payload.ref # c.payload.ref
      BY <1>2, <1>4, <1>7
    <3>2. ASSUME tasks'[k].id = c.id PROVE tasks'[k].payload.ref \in contested'
      <4>1. c.id # nextId
        BY <1>2, <1>7
      <4>2. Present(k) /\ tasks[k].id = c.id
        BY <1>3, <3>2, <4>1
      <4>3. ClaimedBySome(k)
        BY <4>2 DEF ClaimedBySome
      <4> QED
        BY <1>1, <1>4, <4>3
    <3> QED
      BY <2>1, <3>1, <3>2
  <2>2. CASE j # k
    BY <1>1, <1>3, <1>5, <2>2 DEF IInv, ClaimMatchesRow
  <2> QED
    BY <2>1, <2>2
<1>10. OneJob'
  BY <1>1 DEF IInv, OneJob
<1>11. RowTimes'
  <2>1. ASSUME NEW j \in Keys, j # k, tasks'[j].payload.ref \notin contested'
        PROVE  /\ tasks'[j].status = "pending" => tasks'[j].payload.at <= tasks'[j].runAt
               /\ tasks'[j].status = "running" => tasks'[j].payload.at <= now'
    BY <1>1, <1>3, <2>1 DEF IInv, RowTimes
  <2>2. tasks'[k].payload.at <= tasks'[k].runAt /\ tasks'[k].status = "pending"
    BY <1>2, <1>3, <1>4
  <2> QED
    BY <2>1, <2>2 DEF RowTimes
<1>12. RowWithdrawn'
  <2>1. nextId \notin withdrawn'
    BY <1>1, <1>2 DEF IInv, FreshIds
  <2> QED
    BY <1>1, <1>3, <1>4, <1>5, <2>1 DEF IInv, RowWithdrawn
<1>13. RowAttempts'
  <2>1. 0 < MaxAttempts + crashes + faults
    BY <1>2
  <2>2. tasks'[k].attempts < MaxAttempts + crashes' + faults' /\ tasks'[k].status # "running"
    BY <1>1, <1>3, <2>1
  <2>3. ASSUME NEW j \in Keys, j # k
        PROVE  ClaimedBySome(j)' <=> ClaimedBySome(j)
    BY <1>3, <1>5, <1>6, <2>3 DEF ClaimedBySome
  <2>4. contested \subseteq contested'
    BY <1>1
  <2> QED
    BY <1>1, <1>3, <2>2, <2>3, <2>4, Zenon DEF IInv, RowAttempts
<1>14. DoneWasRun'
  BY <1>1, <1>3 DEF IInv, DoneWasRun
<1>15. contested \subseteq contested'
  BY <1>1
<1>16. NeverEarly' /\ CancelSticks' /\ RetryBudget' /\ ExclusiveRun'
  BY <1>1, <1>6, <1>15 DEF IInv, NeverEarly, CancelSticks, RetryBudget, ExclusiveRun
<1>17. ClaimTokensUnique'
  BY <1>1, <1>6 DEF IInv, ClaimTokensUnique
<1> QED
  BY <1>8, <1>9, <1>10, <1>11, <1>12, <1>13, <1>14, <1>16, <1>17 DEF IInv

(* Nothing is stored or claimed at first. *)
LEMMA InitInvariant == Init => IInv
<1> SUFFICES ASSUME Init PROVE IInv
  OBVIOUS
<1>1. TypeOK
  BY TypeInit
<1>2. /\ \A k \in Keys : ~Present(k) /\ tasks[k].status = "absent"
      /\ \A i \in Instances : Held(i) = {} /\ batch[i] = {} /\ job[i] = {}
      /\ withdrawn = {}
  BY DEF Init, StoreInit, Present, NoTask, Held
<1>3. FreshIds /\ ClaimMatchesRow /\ OneJob /\ RowTimes /\ RowWithdrawn
  BY <1>2 DEF FreshIds, ClaimMatchesRow, OneJob, RowTimes, RowWithdrawn
<1>4. RowAttempts
  BY <1>2, Zenon DEF RowAttempts
<1>5. DoneWasRun /\ NeverEarly /\ CancelSticks /\ RetryBudget /\ ExclusiveRun
  BY <1>2 DEF DoneWasRun, NeverEarly, CancelSticks, RetryBudget, ExclusiveRun
<1>6. ClaimTokensUnique
  BY <1>2 DEF ClaimTokensUnique
<1> QED
  BY <1>1, <1>3, <1>4, <1>5, <1>6 DEF IInv

(* Every step preserves the invariant: one case per action. *)
LEMMA StepInvariant == IInv /\ [Next]_vars => IInv'
<1> SUFFICES ASSUME IInv, [Next]_vars PROVE IInv'
  OBVIOUS
<1>0. TypeOK /\ TypeOK'
  BY TypeStep DEF IInv
<1>1. ASSUME NEW i \in Instances, InstanceStep(i) PROVE IInv'
  <2> USE DEF NoFault, Fault, history, control
  <2>0. \A k \in Keys : batch' = batch /\ job' = job /\ tasks' = tasks
                         => (ClaimedBySome(k) => ClaimedBySome(k)')
    BY DEF ClaimedBySome, Held, Present
  <2>1. CASE Start(i)
    <3>1. /\ UNCHANGED <<tasks, nextId, now, batch, job, ran, withdrawn, contested>>
          /\ crashes' = crashes /\ faults' = faults
      BY <2>1 DEF Start
    <3>2. now' >= now /\ crashes' + faults' >= crashes + faults
      BY <1>0, <3>1 DEF TypeOK
    <3> QED
      BY <1>0, <2>0, <3>1, <3>2, QuietStep
  <2>2. CASE Recover(i)
    BY <1>0, <2>2, RecoverStep
  <2>3. CASE RecoverFails(i)
    <3>1. /\ UNCHANGED <<tasks, nextId, now, batch, job, ran, withdrawn, contested>>
          /\ crashes' = crashes /\ faults' = faults + 1
      BY <2>3 DEF RecoverFails
    <3>2. now' >= now /\ crashes' + faults' >= crashes + faults
      BY <1>0, <3>1 DEF TypeOK
    <3> QED
      BY <1>0, <2>0, <3>1, <3>2, QuietStep
  <2>4. CASE ClaimBatch(i)
    BY <1>0, <2>4, ClaimBatchStep
  <2>5. CASE ClaimLost(i)
    BY <1>0, <2>5, ClaimLostStep
  <2>6. CASE Execute(i)
    BY <1>0, <2>6, ExecuteStep
  <2>7. CASE Succeed(i)
    <3>1. PICK c \in job[i] : CompleteTask(c.id)
      BY <2>7 DEF Succeed
    <3>2. Release(i) /\ UNCHANGED <<now, batch, crashes, faults, ran, withdrawn, contested>>
      BY <2>7 DEF Succeed
    <3> QED
      BY <1>0, <3>1, <3>2, SettleStep
  <2>8. CASE Fail(i)
    <3>1. PICK c \in job[i] : FailTask(c.id, c.attempts)
      BY <2>8 DEF Fail
    <3>2. Release(i) /\ UNCHANGED <<now, batch, crashes, faults, ran, withdrawn, contested>>
      BY <2>8 DEF Fail
    <3> QED
      BY <1>0, <3>1, <3>2, SettleStep
  <2>9. CASE PersistFails(i)
    <3>1. /\ UNCHANGED <<tasks, nextId, now, batch, ran, withdrawn, contested>>
          /\ crashes' = crashes /\ faults' = faults + 1
          /\ job' = [job EXCEPT ![i] = {}]
      BY <2>9 DEF PersistFails, Release
    <3>2. /\ now' >= now /\ crashes' + faults' > crashes + faults
          /\ \A j \in Instances : batch'[j] \subseteq batch[j] /\ job'[j] \subseteq job[j]
      BY <1>0, <3>1 DEF TypeOK
    <3>3. crashes' + faults' >= crashes + faults
      BY <1>0, <3>1 DEF TypeOK
    <3> QED
      BY <1>0, <3>1, <3>2, <3>3, QuietStep
  <2>10. CASE Cleanup(i)
    BY <1>0, <2>10, CleanupStep DEF Cleanup
  <2>11. CASE Crash(i)
    <3>1. /\ UNCHANGED <<tasks, nextId, now, ran, withdrawn, contested>>
          /\ crashes' = crashes + 1 /\ faults' = faults
          /\ batch' = [batch EXCEPT ![i] = {}] /\ job' = [job EXCEPT ![i] = {}]
      BY <2>11 DEF Crash
    <3>2. /\ now' >= now /\ crashes' + faults' > crashes + faults
          /\ \A j \in Instances : batch'[j] \subseteq batch[j] /\ job'[j] \subseteq job[j]
      BY <1>0, <3>1 DEF TypeOK
    <3>3. crashes' + faults' >= crashes + faults
      BY <1>0, <3>1 DEF TypeOK
    <3> QED
      BY <1>0, <3>1, <3>2, <3>3, QuietStep
  <2> QED
    BY <1>1, <2>1, <2>2, <2>3, <2>4, <2>5, <2>6, <2>7, <2>8, <2>9, <2>10, <2>11
       DEF InstanceStep
<1>2. ASSUME NEW k \in Keys, Cancel(k) PROVE IInv'
  BY <1>0, <1>2, CancelStep
<1>3. ASSUME NEW k \in Keys, NEW d \in Delays, Enqueue(k, d) PROVE IInv'
  BY <1>0, <1>3, EnqueueStep
<1>4. ASSUME Tick \/ UNCHANGED vars PROVE IInv'
  <2>1. /\ UNCHANGED <<tasks, nextId, batch, job, ran, withdrawn, contested>>
        /\ crashes' = crashes /\ faults' = faults
        /\ now' = now \/ now' = now + 1
    BY <1>4 DEF Tick, vars, NoFault, control, history
  <2>2. now' >= now /\ crashes' + faults' >= crashes + faults
    BY <1>0, <2>1 DEF TypeOK
  <2>3. \A k \in Keys : ClaimedBySome(k) => ClaimedBySome(k)'
    BY <2>1 DEF ClaimedBySome, Held, Present
  <2> QED
    BY <1>0, <2>1, <2>2, <2>3, QuietStep
<1> QED
  BY <1>1, <1>2, <1>3, <1>4 DEF Next

(* The inductive invariant holds throughout: in particular, how each claim a
   worker holds relates to the row it was made of. *)
THEOREM Inductive == Spec => []IInv
  BY InitInvariant, StepInvariant, PTL DEF Spec

(* Whatever happens, an attempt at a payload is handed out once. *)
THEOREM TokensAreUnique == Spec => []ClaimTokensUnique
<1>1. IInv => ClaimTokensUnique
  BY DEF IInv
<1> QED
  BY <1>1, Inductive, PTL

(* Claiming is exclusive but for an upsert or a recovery under a held claim. *)
THEOREM ClaimingIsExclusive == Spec => []ExclusiveRun
<1>1. IInv => ExclusiveRun
  BY DEF IInv
<1> QED
  BY <1>1, Inductive, PTL

(* "done" means executed, with the same exception. *)
THEOREM DoneRowsWereRun == Spec => []DoneWasRun
<1>1. IInv => DoneWasRun
  BY DEF IInv
<1> QED
  BY <1>1, Inductive, PTL

(* Nothing runs ahead of the time it was asked for, with the same exception. *)
THEOREM NothingRunsEarly == Spec => []NeverEarly
<1>1. IInv => NeverEarly
  BY DEF IInv
<1> QED
  BY <1>1, Inductive, PTL

(* A reported cancellation holds for good, with the same exception. *)
THEOREM CancellationSticks == Spec => []CancelSticks
<1>1. IInv => CancelSticks
  BY DEF IInv
<1> QED
  BY <1>1, Inductive, PTL

(* Attempts are bounded by MaxAttempts and the crashes and faults so far. *)
THEOREM AttemptsAreBounded == Spec => []RetryBudget
<1>1. IInv => RetryBudget
  BY DEF IInv
<1> QED
  BY <1>1, Inductive, PTL
----------------------------------------------------------------------------
(* One instance of the bot, and keys that are not used again: the case of   *)
(* TaskWorkerRefinement.                                                    *)
OneBot == Reusable = {} /\ \A i, j \in Instances : i = j

(* A worker that is not up holds nothing, and what one holds is running. *)
HeldIsRunning ==
  \A i \in Instances :
    /\ phase[i] # "up" => Held(i) = {}
    /\ \A c \in Held(i) : \E k \in Keys :
         /\ tasks[k].status = "running"
         /\ tasks[k].id = c.id /\ tasks[k].payload = c.payload

RefInv ==
  /\ IInv
  /\ contested = {}
  /\ HeldIsRunning
  /\ \A n \in ran : n < nextId

(* What the table owes changes with the status of a row only. *)
Owed(t) == IF t.status \in {"pending", "running"} THEN {t.payload} ELSE {}

LEMMA SlotIsOwed ==
  /\ slot = [k \in Keys |-> Owed(tasks[k])]
  /\ slot' = [k \in Keys |-> Owed(tasks'[k])]
  BY DEF slot, Owed

(* Nothing that ever happens to the rows or the claims contests a payload. *)
LEMMA NeverContested ==
  ASSUME OneBot, RefInv, [Next]_vars
  PROVE  contested' = {}
<1>1. ASSUME NEW i \in Instances, Recover(i) PROVE contested' = {}
  <2>1. \A j \in Instances : Held(j) = {}
    BY <1>1 DEF Recover, RefInv, HeldIsRunning, OneBot
  <2>2. \A k \in Keys : ~ClaimedBySome(k)
    BY <2>1 DEF ClaimedBySome
  <2> QED
    BY <1>1, <2>2 DEF Recover, RefInv
<1>2. ASSUME NEW k \in Keys, NEW d \in Delays, Enqueue(k, d) PROVE contested' = {}
  BY <1>2 DEF Enqueue, ClaimedBySome, RefInv, OneBot
<1>3. ASSUME NEW i \in Instances, InstanceStep(i), ~Recover(i) PROVE contested' = {}
  BY <1>3 DEF InstanceStep, Start, RecoverFails, ClaimBatch, ClaimLost, Execute, Succeed, Fail,
              PersistFails, Cleanup, Crash, history, RefInv
<1>4. ASSUME \/ Tick \/ UNCHANGED vars \/ \E k \in Keys : Cancel(k) PROVE contested' = {}
  BY <1>4 DEF Tick, vars, Cancel, history, RefInv
<1> QED
  BY <1>1, <1>2, <1>3, <1>4 DEF Next

(* References that were executed came from the sequence. *)
LEMMA RanBelow ==
  ASSUME RefInv, IInv', [Next]_vars
  PROVE  \A n \in ran' : n < nextId'
<1>0. /\ nextId \in Nat /\ nextId' \in Nat /\ ran \subseteq Nat
      /\ \A n \in ran : n < nextId
  BY DEF RefInv, IInv, TypeOK
<1>1. ASSUME NEW i \in Instances, Execute(i) PROVE \A n \in ran' : n < nextId'
  <2>1. PICK c \in batch[i] : ran' = ran \cup {c.payload.ref}
    BY <1>1 DEF Execute
  <2>2. c.payload.ref < nextId
    BY DEF RefInv, IInv, Strengthening, ClaimMatchesRow, Held
  <2> QED
    BY <1>0, <1>1, <2>1, <2>2 DEF Execute
<1>2. ASSUME ~ \E i \in Instances : Execute(i) PROVE ran' = ran
  BY <1>2 DEF Next, InstanceStep, Start, Recover, RecoverFails, ClaimBatch, ClaimLost, Succeed,
       Fail, PersistFails, Cleanup, Crash, Cancel, Enqueue, Tick, vars, history
<1>3. nextId' >= nextId
  <2>1. nextId' = nextId \/ nextId' = nextId + 1
    BY DEF Next, InstanceStep, Start, Recover, RecoverFails, ClaimBatch, ClaimLost, Succeed, Execute,
       Fail, PersistFails, Cleanup, Crash, Cancel, Enqueue, Tick, vars, RecoverRunningTasks,
       ClaimDueTasks, CompleteTask, FailTask, CleanupFinishedTasks, CancelTaskByDedupKey, EnqueueTask
  <2> QED
    BY <1>0, <2>1
<1>4. CASE \E i \in Instances : Execute(i)
  BY <1>1, <1>4
<1>5. CASE ~ \E i \in Instances : Execute(i)
  <2>1. ran' = ran
    BY <1>2, <1>5
  <2>2. ASSUME NEW n \in ran PROVE n < nextId'
    <3>1. n \in Nat /\ n < nextId
      BY <1>0
    <3> QED
      BY <1>0, <1>3, <3>1
  <2> QED
    BY <2>1, <2>2
<1> QED
  BY <1>4, <1>5

(* Steps after which nobody holds more than before, and that leave alone the *)
(* rows of what is held.                                                     *)
LEMMA KeepsRunning ==
  ASSUME HeldIsRunning,
         \A i \in Instances : /\ Held(i)' \subseteq Held(i)
                              /\ phase'[i] # "up" => phase[i] # "up" \/ Held(i)' = {},
         \A i \in Instances : \A c \in Held(i)' : \A k \in Keys :
           tasks[k].status = "running" /\ tasks[k].id = c.id =>
             /\ tasks'[k].status = "running"
             /\ tasks'[k].id = c.id /\ tasks'[k].payload = tasks[k].payload
  PROVE  HeldIsRunning'
<1> SUFFICES ASSUME NEW i \in Instances
             PROVE  /\ phase'[i] # "up" => Held(i)' = {}
                    /\ \A c \in Held(i)' : \E k \in Keys :
                         /\ tasks'[k].status = "running"
                         /\ tasks'[k].id = c.id /\ tasks'[k].payload = c.payload
  BY DEF HeldIsRunning
<1>1. phase'[i] # "up" => Held(i)' = {}
  BY DEF HeldIsRunning
<1>2. ASSUME NEW c \in Held(i)'
      PROVE  \E k \in Keys : /\ tasks'[k].status = "running"
                             /\ tasks'[k].id = c.id /\ tasks'[k].payload = c.payload
  BY <1>2 DEF HeldIsRunning
<1> QED
  BY <1>1, <1>2

(* A claim in hand is settled: its row is nobody else's. *)
LEMMA SettleKeepsRunning ==
  ASSUME OneBot, RefInv, NEW i \in Instances, NEW c \in job[i], Release(i),
         UNCHANGED <<phase, batch>>,
         \A k \in Keys : ~HasId(k, c.id) => tasks'[k] = tasks[k]
  PROVE  HeldIsRunning'
<1>1. batch \in [Instances -> SUBSET Claim] /\ job \in [Instances -> SUBSET Claim]
  BY DEF RefInv, IInv, TypeOK
<1>2. Held(i)' = batch[i] /\ c \in Held(i) /\ c \notin batch[i]
  BY <1>1 DEF Release, Held, RefInv, IInv, OneJob
<1>3. \A j \in Instances : Held(j)' \subseteq Held(j)
  BY <1>1, <1>2 DEF OneBot, Held
<1>4. ASSUME NEW d \in batch[i], NEW k \in Keys, tasks[k].status = "running", tasks[k].id = d.id
      PROVE  ~HasId(k, c.id)
  <2> SUFFICES ASSUME HasId(k, c.id) PROVE FALSE
    OBVIOUS
  <2>1. PICK m \in Keys : tasks[m].status = "running" /\ tasks[m].id = d.id /\ tasks[m].payload = d.payload
    BY DEF RefInv, HeldIsRunning, Held
  <2>2. PICK n \in Keys : tasks[n].status = "running" /\ tasks[n].id = c.id /\ tasks[n].payload = c.payload
    BY <1>2 DEF RefInv, HeldIsRunning
  <2>3. Present(k) /\ Present(m) /\ Present(n)
    BY <1>4, <2>1, <2>2 DEF Present
  <2>4. k = m /\ k = n
    BY <1>4, <2>1, <2>2, <2>3 DEF HasId, RefInv, IInv, FreshIds
  <2>5. c.payload.ref = d.payload.ref /\ c.payload.ref \notin contested
    BY <2>1, <2>2, <2>4 DEF RefInv
  <2>6. c = d
    BY <1>2, <2>5 DEF RefInv, IInv, ExclusiveRun, Held
  <2> QED
    BY <1>2, <2>6
<1>5. \A j \in Instances : \A d \in Held(j)' : \A k \in Keys :
        tasks[k].status = "running" /\ tasks[k].id = d.id => tasks'[k] = tasks[k]
  BY <1>2, <1>4 DEF OneBot
<1> QED
  BY <1>3, <1>5, KeepsRunning DEF RefInv

(* Every step keeps what is held running. *)
LEMMA HeldIsRunningStep ==
  ASSUME OneBot, RefInv, [Next]_vars
  PROVE  HeldIsRunning'
<1>0. /\ TypeOK /\ batch \in [Instances -> SUBSET Claim] /\ job \in [Instances -> SUBSET Claim]
      /\ phase \in [Instances -> {"down", "starting", "up"}] /\ HeldIsRunning
  BY DEF RefInv, IInv, TypeOK
<1>1. ASSUME NEW i \in Instances, InstanceStep(i) PROVE HeldIsRunning'
  <2>1. CASE Start(i) \/ RecoverFails(i) \/ Execute(i) \/ PersistFails(i) \/ Crash(i)
    <3>1. UNCHANGED tasks
      BY <2>1 DEF Start, RecoverFails, Execute, PersistFails, Crash
    <3>2. CASE Start(i) \/ RecoverFails(i)
      <4>1. UNCHANGED <<batch, job>> /\ phase[i] # "up"
        BY <3>2 DEF Start, RecoverFails
      <4>2. \A j \in Instances : Held(j)' = Held(j) /\ Held(j) = {}
        BY <1>0, <4>1 DEF OneBot, Held, HeldIsRunning
      <4> QED
        BY <1>0, <3>1, <4>2, KeepsRunning
    <3>3. CASE Execute(i)
      <4>1. PICK c \in batch[i] : /\ batch' = [batch EXCEPT ![i] = @ \ {c}]
                                  /\ job' = [job EXCEPT ![i] = {c}]
        BY <3>3 DEF Execute
      <4>2. \A j \in Instances : Held(j)' \subseteq Held(j) /\ phase'[j] = phase[j]
        BY <1>0, <3>3, <4>1 DEF Execute, Held
      <4> QED
        BY <1>0, <3>1, <4>2, KeepsRunning
    <3>4. CASE PersistFails(i) \/ Crash(i)
      <4>1. \A j \in Instances : /\ Held(j)' \subseteq Held(j)
                                 /\ phase'[j] = phase[j] \/ Held(j)' = {}
        BY <1>0, <3>4 DEF PersistFails, Crash, Release, Held
      <4> QED
        BY <1>0, <3>1, <4>1, KeepsRunning
    <3> QED
      BY <2>1, <3>2, <3>3, <3>4
  <2>2. CASE Recover(i) \/ ClaimLost(i)
    <3>1. \A j \in Instances : Held(j) = {} /\ Held(j)' = {}
      BY <1>0, <2>2 DEF Recover, ClaimLost, Idle, OneBot, Held, HeldIsRunning, control
    <3> QED
      BY <3>1 DEF HeldIsRunning
  <2>3. CASE ClaimBatch(i)
    <3>1. /\ phase'[i] = "up" /\ batch'[i] = Claimed /\ job'[i] = {} /\ ClaimDueTasks
      BY <1>0, <2>3 DEF ClaimBatch, Idle
    <3>2. ASSUME NEW c \in Claimed
          PROVE  \E k \in Keys : /\ tasks'[k].status = "running"
                                 /\ tasks'[k].id = c.id /\ tasks'[k].payload = c.payload
      <4>1. PICK k \in DueBatch : k \in Keys /\ c.id = tasks[k].id /\ c.payload = tasks[k].payload
        BY ClaimedRow
      <4> QED
        BY <1>0, <3>1, <4>1, ClaimEffect
    <3> QED
      BY <3>1, <3>2 DEF HeldIsRunning, Held, OneBot
  <2>4. CASE Succeed(i)
    <3>1. PICK c \in job[i] : CompleteTask(c.id)
      BY <2>4 DEF Succeed
    <3>2. c.id \in Nat
      BY <1>0 DEF Claim
    <3>3. \A k \in Keys : ~HasId(k, c.id) => tasks'[k] = tasks[k]
      BY <1>0, <3>1, <3>2, CompleteEffect
    <3> QED
      BY <2>4, <3>3, SettleKeepsRunning DEF Succeed
  <2>5. CASE Fail(i)
    <3>1. PICK c \in job[i] : FailTask(c.id, c.attempts)
      BY <2>5 DEF Fail
    <3>2. c.id \in Nat /\ c.attempts \in Nat
      BY <1>0 DEF Claim
    <3>3. \A k \in Keys : ~HasId(k, c.id) => tasks'[k] = tasks[k]
      BY <1>0, <3>1, <3>2, FailEffect
    <3> QED
      BY <2>5, <3>3, SettleKeepsRunning DEF Fail
  <2>6. CASE Cleanup(i)
    <3>1. \A k \in Keys : tasks[k].status = "running" => tasks'[k] = tasks[k]
      BY <1>0, <2>6 DEF Cleanup, CleanupFinishedTasks, Stale, TypeOK
    <3>2. \A j \in Instances : Held(j)' = Held(j) /\ phase'[j] = phase[j]
      BY <2>6 DEF Cleanup, control, Held
    <3> QED
      BY <1>0, <3>1, <3>2, KeepsRunning
  <2> QED
    BY <1>1, <2>1, <2>2, <2>3, <2>4, <2>5, <2>6 DEF InstanceStep
<1>2. ASSUME NEW k \in Keys, Cancel(k) \/ \E d \in Delays : Enqueue(k, d) PROVE HeldIsRunning'
  <2>1. \A m \in Keys : tasks[m].status = "running" => tasks'[m] = tasks[m]
    BY <1>0, <1>2 DEF Cancel, Cancellable, CancelTaskByDedupKey, Enqueue, EnqueueTask, Present,
                      OneBot, TypeOK
  <2>2. \A j \in Instances : Held(j)' = Held(j) /\ phase'[j] = phase[j]
    BY <1>2 DEF Cancel, Enqueue, control, Held
  <2> QED
    BY <1>0, <2>1, <2>2, KeepsRunning
<1>3. CASE Tick \/ UNCHANGED vars
  <2>1. /\ UNCHANGED tasks
        /\ \A j \in Instances : Held(j)' = Held(j) /\ phase'[j] = phase[j]
    BY <1>3 DEF Tick, vars, control, Held
  <2> QED
    BY <1>0, <2>1, KeepsRunning
<1> QED
  BY <1>1, <1>2, <1>3 DEF Next

LEMMA RefInvInit == Init => RefInv
  BY InitInvariant DEF Init, RefInv, HeldIsRunning, Held

LEMMA RefInvStep ==
  ASSUME OneBot
  PROVE  RefInv /\ [Next]_vars => RefInv'
<1> SUFFICES ASSUME RefInv, [Next]_vars PROVE RefInv'
  OBVIOUS
<1>1. IInv'
  BY StepInvariant DEF RefInv
<1> QED
  BY <1>1, NeverContested, HeldIsRunningStep, RanBelow DEF RefInv

(* What one row owes after each statement. *)
LEMMA SameSlot ==
  ASSUME \A k \in Keys : Owed(tasks'[k]) = Owed(tasks[k])
  PROVE  slot' = slot
  BY SlotIsOwed

LEMMA OneSlot ==
  ASSUME NEW k \in Keys, NEW owed, Owed(tasks'[k]) = owed,
         \A m \in Keys \ {k} : Owed(tasks'[m]) = Owed(tasks[m])
  PROVE  slot' = [slot EXCEPT ![k] = owed]
  BY SlotIsOwed

(* A claim that is held is owed, by one row. *)
LEMMA HeldIsOwed ==
  ASSUME RefInv, NEW i \in Instances, NEW c \in Held(i)
  PROVE  \E k \in Keys : /\ slot[k] = {c.payload} /\ HasId(k, c.id)
                         /\ \A m \in Keys \ {k} : ~HasId(m, c.id)
<1>1. PICK k \in Keys : tasks[k].status = "running" /\ tasks[k].id = c.id /\ tasks[k].payload = c.payload
  BY DEF RefInv, HeldIsRunning
<1>2. slot[k] = {c.payload} /\ HasId(k, c.id)
  BY <1>1, SlotIsOwed DEF Owed, HasId, Present
<1>3. \A m \in Keys \ {k} : ~HasId(m, c.id)
  BY <1>2 DEF HasId, RefInv, IInv, FreshIds
<1> QED
  BY <1>2, <1>3

(* A task that is executed is performed, at its time or later. *)
LEMMA ExecutePerforms ==
  ASSUME RefInv, NEW i \in Instances, Execute(i)
  PROVE  \E k \in Keys : DA!Perform(k)
<1>1. PICK c \in batch[i] : ran' = ran \cup {c.payload.ref}
  BY DEF Execute
<1>2. c \in Held(i) /\ c.payload.at <= now
  BY DEF Held, RefInv, IInv, NeverEarly
<1>3. PICK k \in Keys : slot[k] = {c.payload}
  BY <1>2, HeldIsOwed
<1>4. slot' = slot /\ now' = now
  BY DEF Execute, slot
<1> QED
  BY <1>1, <1>2, <1>3, <1>4 DEF DA!Perform

(* One that completes, or fails for good, is settled; one that fails for now *)
(* is still owed.                                                            *)
LEMMA OutcomeSettles ==
  ASSUME RefInv, NEW i \in Instances, Succeed(i) \/ Fail(i)
  PROVE  (\E k \in Keys : DA!Settle(k)) \/ UNCHANGED <<slot, ran, now>>
<1>0. TypeOK /\ UNCHANGED <<ran, now>>
  BY DEF RefInv, IInv, Succeed, Fail, history
<1>1. PICK c \in job[i] : CompleteTask(c.id) \/ FailTask(c.id, c.attempts)
  BY DEF Succeed, Fail
<1>2. c.id \in Nat /\ c.attempts \in Nat /\ c \in Held(i)
  BY <1>0 DEF TypeOK, Claim, Held
<1>3. PICK k \in Keys : /\ slot[k] = {c.payload} /\ HasId(k, c.id)
                        /\ \A m \in Keys \ {k} : ~HasId(m, c.id)
  BY <1>2, HeldIsOwed
<1>4. /\ \A m \in Keys \ {k} : tasks'[m] = tasks[m]
      /\ tasks'[k].payload = tasks[k].payload
      /\ tasks'[k].status \in {"done", "failed", "pending"}
  <2>1. CASE CompleteTask(c.id)
    BY <1>0, <1>2, <1>3, <2>1, CompleteEffect
  <2>2. CASE FailTask(c.id, c.attempts)
    BY <1>0, <1>2, <1>3, <2>2, FailEffect
  <2> QED
    BY <1>1, <2>1, <2>2
<1>5. Owed(tasks[k]) = {c.payload}
  BY <1>3, SlotIsOwed
<1>6. tasks[k].payload = c.payload
  BY <1>5 DEF Owed
<1>7. CASE tasks'[k].status = "pending"
  <2>1. Owed(tasks'[k]) = Owed(tasks[k])
    BY <1>4, <1>5, <1>6, <1>7 DEF Owed
  <2> QED
    BY <1>0, <1>4, <2>1, SameSlot
<1>8. CASE tasks'[k].status # "pending"
  <2>1. Owed(tasks'[k]) = {}
    BY <1>4, <1>8 DEF Owed
  <2>2. slot' = [slot EXCEPT ![k] = {}]
    BY <1>4, <2>1, OneSlot
  <2>3. c.payload.ref \in ran
    BY DEF RefInv, IInv, OneJob
  <2> QED
    BY <1>0, <1>3, <2>2, <2>3 DEF DA!Settle
<1> QED
  BY <1>7, <1>8

(* A cancelled task is withdrawn. *)
LEMMA CancelWithdraws ==
  ASSUME RefInv, NEW k \in Keys, Cancel(k)
  PROVE  DA!Withdraw(k)
<1>1. TypeOK /\ UNCHANGED <<ran, now>> /\ tasks[k].status = "pending"
  BY DEF RefInv, IInv, Cancel, Cancellable
<1>2. /\ tasks'[k].status = "cancelled"
      /\ \A m \in Keys \ {k} : tasks'[m] = tasks[m]
  BY <1>1 DEF Cancel, Cancellable, CancelTaskByDedupKey, TypeOK, Task
<1>3. slot' = [slot EXCEPT ![k] = {}] /\ slot[k] # {}
  BY <1>1, <1>2, OneSlot, SlotIsOwed DEF Owed
<1> QED
  BY <1>1, <1>3 DEF DA!Withdraw

(* A new task is a new action, of a reference never used. *)
LEMMA EnqueueRequests ==
  ASSUME OneBot, RefInv, NEW k \in Keys, NEW d \in Delays, Enqueue(k, d)
  PROVE  DA!Request(k)
<1>1. TypeOK /\ UNCHANGED <<ran, now>> /\ d \in Nat /\ now \in Nat /\ nextId \in Nat \ {0}
  BY WorkerAssumption DEF RefInv, IInv, Enqueue, TypeOK
<1>2. PICK a : a = [ref |-> nextId, at |-> now + d]
  OBVIOUS
<1>3. a.ref = nextId /\ a.at = now + d
  BY <1>2
<1>4. a \in [ref : 1..MaxEnqueues, at : 0..Horizon]
  BY <1>1, <1>2, WorkerAssumption DEF Enqueue
<1>5. EnqueueTask(k, a, now + d) /\ tasks[k].status = "absent"
  BY <1>2 DEF Enqueue, OneBot, Present
<1>6. /\ tasks'[k].status = "pending" /\ tasks'[k].payload = a
      /\ \A m \in Keys \ {k} : tasks'[m] = tasks[m]
  BY <1>1, <1>5 DEF EnqueueTask, TypeOK, Task
<1>7. slot' = [slot EXCEPT ![k] = {a}] /\ slot[k] = {}
  BY ZenonT(40), <1>5, <1>6, OneSlot, SlotIsOwed DEF Owed
<1>8. a.at >= now /\ a.ref \notin ran
  BY <1>1, <1>3 DEF RefInv, TypeOK
<1>9. \A j \in Keys : \A b \in slot[j] : a.ref # b.ref
  <2> SUFFICES ASSUME NEW j \in Keys, NEW b \in slot[j] PROVE a.ref # b.ref
    OBVIOUS
  <2>1. b = tasks[j].payload /\ Present(j)
    BY SlotIsOwed DEF Owed, Present
  <2>2. tasks[j].payload.ref < nextId /\ tasks[j].payload.ref \in Nat
    BY <1>1, <2>1 DEF RefInv, IInv, FreshIds, TypeOK, Task, Payload
  <2> QED
    BY <1>1, <1>3, <2>1, <2>2
<1> QED
  BY <1>1, <1>4, <1>7, <1>8, <1>9 DEF DA!Request

(* Every other step of the table leaves alone what is owed. *)
LEMMA OtherSteps ==
  ASSUME RefInv, NEW i \in Instances,
         \/ Start(i) \/ Recover(i) \/ RecoverFails(i) \/ ClaimBatch(i) \/ ClaimLost(i)
         \/ PersistFails(i) \/ Cleanup(i) \/ Crash(i)
  PROVE  UNCHANGED <<slot, ran, now>>
<1>1. TypeOK /\ UNCHANGED <<ran, now>>
  BY DEF RefInv, IInv, Start, Recover, RecoverFails, ClaimBatch, ClaimLost, PersistFails, Cleanup,
         Crash, history
<1>2. \/ UNCHANGED tasks \/ RecoverRunningTasks \/ ClaimDueTasks \/ CleanupFinishedTasks
  BY DEF Start, Recover, RecoverFails, ClaimBatch, ClaimLost, PersistFails, Cleanup, Crash
<1>3. ASSUME NEW k \in Keys PROVE Owed(tasks'[k]) = Owed(tasks[k])
  <2>1. CASE UNCHANGED tasks
    BY <2>1
  <2>2. CASE RecoverRunningTasks
    BY <1>1, <2>2, RecoverEffect DEF Owed
  <2>3. CASE ClaimDueTasks
    BY <1>1, <2>3, ClaimEffect DEF Owed, DueBatch, Due
  <2>4. CASE CleanupFinishedTasks
    BY <1>1, <2>4 DEF CleanupFinishedTasks, Stale, Owed, NoTask
  <2> QED
    BY <1>2, <2>1, <2>2, <2>3, <2>4
<1> QED
  BY <1>1, <1>3, SameSlot

(* Every step is one of the promise's, or leaves it alone. *)
LEMMA StepRefines ==
  ASSUME OneBot
  PROVE  RefInv /\ [Next]_vars => [DA!Next]_<<slot, ran, now>>
<1> SUFFICES ASSUME RefInv, [Next]_vars PROVE [DA!Next]_<<slot, ran, now>>
  OBVIOUS
<1>1. ASSUME NEW i \in Instances, InstanceStep(i) PROVE [DA!Next]_<<slot, ran, now>>
  BY <1>1, ExecutePerforms, OutcomeSettles, OtherSteps DEF InstanceStep, DA!Next
<1>2. ASSUME NEW k \in Keys, Cancel(k) PROVE [DA!Next]_<<slot, ran, now>>
  BY <1>2, CancelWithdraws DEF DA!Next
<1>3. ASSUME NEW k \in Keys, NEW d \in Delays, Enqueue(k, d) PROVE [DA!Next]_<<slot, ran, now>>
  BY <1>3, EnqueueRequests DEF DA!Next
<1>4. CASE Tick
  BY <1>4 DEF Tick, slot, history, DA!Next, DA!Tick
<1>5. CASE UNCHANGED vars
  BY <1>5 DEF vars, slot
<1> QED
  BY <1>1, <1>2, <1>3, <1>4, <1>5 DEF Next

(* The table and the worker keep the promise of DelayedAction: an action     *)
(* that is enqueued is owed until it is settled, performed not before its    *)
(* time, at least once before it is settled, and not once withdrawn.         *)
THEOREM QueueKeepsItsPromise ==
  ASSUME OneBot
  PROVE  Spec => ImplementsDelayedAction
<1>1. Init => DA!Init
  BY DEF Init, StoreInit, NoTask, slot, DA!Init
<1>2. RefInv /\ [Next]_vars => [DA!Next]_<<slot, ran, now>>
  BY StepRefines
<1>3. RefInv /\ [Next]_vars => RefInv'
  BY RefInvStep
<1> QED
  BY <1>1, <1>2, <1>3, RefInvInit, PTL DEF Spec, ImplementsDelayedAction, DA!Spec
=============================================================================
