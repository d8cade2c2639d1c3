---------------------------- MODULE CaptchaProofs ----------------------------
(***************************************************************************)
(* The safety properties of Captcha, for every set of users, every batch   *)
(* size, retry limit and lifetime, and every number of joins, presses,     *)
(* crashes and failing calls.                                              *)
(*                                                                         *)
(* The invariant has four parts: which row a claim is about, which user a  *)
(* message is about, what the memory and the table know of a prompt while  *)
(* a press or an expiry is half done, and the one prompt of a user who     *)
(* joined once.                                                            *)
(***************************************************************************)
EXTENDS Captcha, TLAPS

(* The claims the worker has in hand. *)
Held == batch \cup job

(* The states of the two handlers. *)
IssueState == [at : {"idle", "restrict", "send", "set", "enqueue"},
               msg : Nat, expires : Nat]

ClickState == [at : {"idle", "get", "cancel", "delete", "restore", "edit"},
               msg : Nat, pending : BOOLEAN]

StoreType == tasks \in [Keys -> Task] /\ nextId \in Nat \ {0} /\ now \in Nat

HandlerType == issue \in [Keys -> IssueState] /\ click \in [Keys -> ClickState]

TelegramType ==
  /\ member \in [Keys -> {"out", "free", "restricted", "banned"}]
  /\ prompts \subseteq [user : Keys, msg : Nat]
  /\ nextMsg \in Nat \ {0}
  /\ mem \in [Keys -> Nat]
  /\ toDelete \subseteq Nat

WorkerType ==
  /\ phase \in {"down", "starting", "up"}
  /\ batch \subseteq Claim /\ job \subseteq Claim
  /\ step \in {"idle", "check", "load", "drop", "unprompt", "ban", "notice",
               "complete", "fail"}

BoundType ==
  /\ joins \in Nat /\ presses \in Nat /\ crashes \in Nat /\ faults \in Nat
  /\ withdrawn \subseteq Nat /\ contested \subseteq Nat /\ overtaken \subseteq Keys

TypeOK == StoreType /\ HandlerType /\ TelegramType /\ WorkerType /\ BoundType

(* An id is that of one row, and of no row before the sequence reached it. *)
RowIds ==
  /\ \A k \in Keys : Present(k) => tasks[k].id < nextId
  /\ \A j, k \in Keys : Present(j) /\ Present(k) /\ tasks[j].id = tasks[k].id => j = k

(* A claim is about the row of its key or about no row any more. *)
ClaimIds ==
  \A c \in Held : c.id < nextId /\ \A k \in Keys : HasId(k, c.id) => k = c.key

(* One claim per key, in the batch or being executed, and only while up. *)
HeldOnce ==
  /\ \A c, d \in Held : c.key = d.key => c = d
  /\ \A c, d \in job : c = d
  /\ batch \cap job = {}
  /\ phase # "up" => Held = {}

(* A message (or 0) that the join handler, the row or a claim of k is about. *)
RefOf(k, m) ==
  \/ issue[k].msg = m
  \/ tasks[k].payload.ref = m
  \/ \E c \in Held : c.key = k /\ c.payload.ref = m

(* Messages that anything refers to were sent. *)
RefsBelow ==
  /\ \A k \in Keys : \A m \in Nat : RefOf(k, m) => m < nextMsg
  /\ \A m \in withdrawn : m < nextMsg
  /\ \A c \in Held : c.payload.ref # 0
  /\ \A k \in Keys : Present(k) => tasks[k].payload.ref # 0

(* A message is about one user. *)
RefsOwned ==
  \A j, k \in Keys : \A m \in Nat \ {0} : RefOf(j, m) /\ RefOf(k, m) => j = k

(* A prompt on its way into the table was never there, nor withdrawn. *)
IssueFresh ==
  \A k \in Keys :
    IF issue[k].at \in {"set", "enqueue"}
    THEN /\ issue[k].msg # 0
         /\ issue[k].msg \notin withdrawn
         /\ issue[k].msg # tasks[k].payload.ref
         /\ \A c \in Held : c.key = k => c.payload.ref # issue[k].msg
    ELSE issue[k].msg = 0

(* A claim is the running row it was made of, or the row was enqueued over;  *)
(* and its prompt is on record only as running.                             *)
ClaimRow ==
  \A c \in Held : \A k \in {c.key} :
    /\ HasId(k, c.id) => \/ tasks[k].status = "running" /\ tasks[k].payload = c.payload
                         \/ tasks[k].payload.ref \in contested
    /\ tasks[k].payload.ref = c.payload.ref => tasks[k].status = "running"

(* What is withdrawn is neither owed nor claimed, unless it was contested.   *)
WithdrawnRefs ==
  /\ \A k \in Keys : Outstanding(k) /\ tasks[k].payload.ref \in withdrawn
                      => tasks[k].payload.ref \in contested
  /\ \A c \in Held : c.payload.ref \in withdrawn => c.payload.ref \in contested

(* Between remembering a prompt and enqueueing it, no other is remembered. *)
Enqueued == \A k \in Keys : issue[k].at = "enqueue" => mem[k] \in {0, issue[k].msg}

(* Past its look at the memory, an expiry has nothing there any more. *)
PastLook ==
  \A c \in job : step \notin {"check", "load", "drop"} => mem[c.key] # c.payload.ref

(* And nothing newer is there either, but by overtaking the expiry. *)
NotHasty ==
  \A c \in job :
    /\ step = "load" => mem[c.key] \in {0, c.payload.ref} \/ c.key \in overtaken
    /\ step \in {"unprompt", "ban"} => mem[c.key] = 0 \/ c.key \in overtaken

(* MemoryBacked, other than while a handler is between the memory and the    *)
(* table: where the button's or the join's next step puts it right.          *)
Backed ==
  \A k \in Keys :
    /\ faults = 0 /\ mem[k] # 0 /\ mem[k] \notin contested
    /\ click[k].at # "delete" /\ issue[k].at # "enqueue"
    => Outstanding(k) /\ tasks[k].payload.ref = mem[k]

(* Restricted, with no press of the button about to end it. *)
Restrained(k) ==
  Undisturbed /\ member[k] = "restricted" /\ click[k].at \notin {"delete", "restore"}

(* A restrained user whose captcha is forgotten is about to be banned.       *)
Forgotten ==
  \A k \in Keys :
    Restrained(k) /\ issue[k].at \in {"idle", "enqueue"} /\ mem[k] = 0 =>
      step \in {"unprompt", "ban"} /\ \E c \in job : c.key = k

(* NoLimbo, while a press or a join is half done too. *)
Ending ==
  \A k \in Keys :
    Restrained(k) /\ issue[k].at = "idle" =>
      Outstanding(k) \/ (mem[k] \in contested /\ \A c \in Held : c.key # k)

Single == Undisturbed /\ joins <= 1

Early == joins = 0 \/ \E k \in Keys : issue[k].at # "idle"

(* With a single join: until its prompt is enqueued there is no row and no  *)
(* claim, ...                                                               *)
OneJoin ==
  Single =>
    /\ \A j, k \in Keys : issue[j].at # "idle" /\ issue[k].at # "idle" => j = k
    /\ joins = 0 => \A k \in Keys : issue[k].at = "idle"
    /\ Early => Held = {} /\ \A k \in Keys : ~Present(k)

NoneSent == joins = 0 \/ \E k \in Keys : issue[k].at \in {"restrict", "send"}

(* ... until it is sent no message, so that it is the first one, ... *)
FirstMsg == Single /\ NoneSent => prompts = {} /\ nextMsg = 1

(* ... and the only prompt anything is about; ... *)
OneMsg ==
  Single =>
    /\ \A k \in Keys : mem[k] \in {0, 1} /\ issue[k].msg \in {0, 1}
    /\ \A k \in Keys : Present(k) => tasks[k].payload.ref = 1
    /\ \A c \in Held : c.payload.ref = 1
    /\ \A k \in Keys : click[k].at # "idle" => click[k].msg = 1
    /\ \A p \in prompts : p.msg = 1

(* ... an expiry past deleting it finds no prompt in the chat, ... *)
Unprompted ==
  Single =>
    \A c \in job : step \in {"ban", "notice", "complete", "fail"} =>
      \A p \in prompts : p.user # c.key

(* ... and a prompt in the chat has something that will remove it. *)
Prompted ==
  Single =>
    \A p \in prompts :
      \/ p.msg \in toDelete \/ issue[p.user].at # "idle"
      \/ click[p.user].at \in {"delete", "restore", "edit"}
      \/ Outstanding(p.user)

----------------------------------------------------------------------------
(* A retry is put off by a number of ticks. *)
LEMMA RetryAfterType ==
  ASSUME NEW a \in Nat
  PROVE  RetryAfter(a) \in Nat
<1>1. RetryUnit \in Nat /\ RetryCap \in Nat
  BY StoreAssumption
<1>2. a * a \in Nat
  OBVIOUS
<1>3. a * a * RetryUnit \in Nat
  BY <1>1, <1>2
<1> QED
  BY <1>1, <1>3 DEF RetryAfter

(* A row takes its new fields. *)
LEMMA RowUpdates ==
  ASSUME NEW t \in Task, NEW s \in Status, NEW n \in Nat, NEW m \in Nat
  PROVE  /\ [t EXCEPT !.status = s, !.updatedAt = n] \in Task
         /\ [t EXCEPT !.status = s, !.updatedAt = n, !.runAt = m] \in Task
         /\ [t EXCEPT !.status = s, !.runAt = m, !.updatedAt = n] \in Task
         /\ [t EXCEPT !.status = s, !.attempts = t.attempts + 1, !.updatedAt = n] \in Task
<1>1. [t EXCEPT !.status = s, !.updatedAt = n] \in Task
  BY DEF Task
<1>2. [t EXCEPT !.status = s, !.updatedAt = n, !.runAt = m] \in Task
  BY DEF Task
<1>3. [t EXCEPT !.status = s, !.runAt = m, !.updatedAt = n] \in Task
  BY DEF Task
<1>4. \A a \in Nat : [t EXCEPT !.status = s, !.attempts = a, !.updatedAt = n] \in Task
  BY DEF Task
<1>5. t.attempts + 1 \in Nat
  BY DEF Task
<1> QED
  BY <1>1, <1>2, <1>3, <1>4, <1>5

(* Every step preserves the types, one group of variables at a time. *)
LEMMA StoreTypeStep ==
  ASSUME TypeOK, [Next]_vars
  PROVE  StoreType'
<1>0. tasks \in [Keys -> Task] /\ nextId \in Nat \ {0} /\ now \in Nat
  BY DEF TypeOK, StoreType
<1>1. ASSUME NEW k \in Keys, IssueEnqueue(k) PROVE StoreType'
  <2>1. issue[k].msg \in Nat /\ issue[k].expires \in Nat
    BY DEF TypeOK, HandlerType, IssueState
  <2>2. tasks[k].id \in Nat
    BY <1>0 DEF Task
  <2> QED
    BY <1>0, <1>1, <2>1, <2>2 DEF IssueEnqueue, EnqueueTask, StoreType, Task, Payload, Status, table
<1>2. ASSUME NEW k \in Keys, ClickCancel(k) PROVE StoreType'
  <2>1. [tasks[k] EXCEPT !.status = "cancelled", !.updatedAt = now] \in Task
    BY <1>0, RowUpdates DEF Status
  <2>2. tasks' = tasks \/ tasks' = [tasks EXCEPT ![k] = [tasks[k] EXCEPT !.status = "cancelled", !.updatedAt = now]]
    BY <1>0, <1>2 DEF ClickCancel, CancelTaskByDedupKey, table, Task
  <2> QED
    BY <1>0, <1>2, <2>1, <2>2 DEF ClickCancel, CancelTaskByDedupKey, StoreType, table
<1>3. ASSUME Recover PROVE StoreType'
  <2>1. \A k \in Keys : [tasks[k] EXCEPT !.status = "pending", !.runAt = now, !.updatedAt = now] \in Task
    BY <1>0, RowUpdates DEF Status
  <2> QED
    BY <1>0, <1>3, <2>1 DEF Recover, RecoverRunningTasks, StoreType, table
<1>4. ASSUME ClaimBatch PROVE StoreType'
  <2>1. \A k \in Keys : [tasks[k] EXCEPT !.status = "running", !.attempts = @ + 1, !.updatedAt = now] \in Task
    BY <1>0, RowUpdates DEF Status
  <2> QED
    BY <1>0, <1>4, <2>1 DEF ClaimBatch, ClaimDueTasks, StoreType
<1>5. ASSUME NEW c \in job, Settle(c) PROVE StoreType'
  <2>1. /\ \A k \in Keys : [tasks[k] EXCEPT !.status = "done", !.updatedAt = now] \in Task
        /\ \A k \in Keys : [tasks[k] EXCEPT !.status = "failed", !.updatedAt = now] \in Task
    BY <1>0, RowUpdates DEF Status
  <2>2. c.attempts \in Nat
    BY DEF TypeOK, WorkerType, Claim
  <2>3. now + RetryAfter(c.attempts) \in Nat
    BY <1>0, <2>2, RetryAfterType
  <2>4. \A k \in Keys : [tasks[k] EXCEPT !.status = "pending", !.updatedAt = now,
                                         !.runAt = now + RetryAfter(c.attempts)] \in Task
    BY <1>0, <2>3, RowUpdates DEF Status
  <2> QED
    BY ZenonT(40), <1>0, <1>5, <2>1, <2>4 DEF Settle, CompleteTask, FailTask, StoreType, table
<1>6. ASSUME Cleanup PROVE StoreType'
  <2>1. NoTask \in Task
    BY DEF NoTask, Task, Payload, Status
  <2> QED
    BY <1>0, <1>6, <2>1 DEF Cleanup, CleanupFinishedTasks, StoreType
<1>7. ASSUME Tick PROVE StoreType'
  BY <1>0, <1>7 DEF Tick, StoreType, table
<1>8. CASE /\ ~Tick /\ ~Cleanup /\ ~ClaimBatch /\ ~Recover /\ ~ \E c \in job : Settle(c)
           /\ ~ \E k \in Keys : ClickCancel(k) \/ IssueEnqueue(k)
  <2>1. UNCHANGED <<tasks, nextId, now>>
    BY <1>8 DEF Next, IssueStep, ClickStep, ExpireStep, Join, Leave, Press, IssueRestrict, IssueSend,
         IssueSet, ClickGet, ClickDelete, ClickRestore, ClickEdit, Execute, ExpireCheck, ExpireLoad,
         ExpireDrop, ExpireUnprompt, ExpireBan, ExpireNotice, Crash, Restart, vars, table
  <2> QED
    BY <1>0, <2>1 DEF StoreType
<1> QED
  BY <1>1, <1>2, <1>3, <1>4, <1>5, <1>6, <1>7, <1>8

(* Each handler stays in its own states. *)
LEMMA HandlerTypeStep ==
  ASSUME TypeOK, [Next]_vars
  PROVE  HandlerType'
<1>0. issue \in [Keys -> IssueState] /\ click \in [Keys -> ClickState]
  BY DEF TypeOK, HandlerType
<1>1. \A s \in IssueState : \A a \in {"restrict", "send", "set", "enqueue"} :
        [s EXCEPT !.at = a] \in IssueState
  BY DEF IssueState
<1>2. \A s \in IssueState : \A n \in Nat :
        /\ [s EXCEPT !.at = "set", !.msg = n] \in IssueState
        /\ [s EXCEPT !.at = "enqueue", !.expires = n] \in IssueState
  BY DEF IssueState
<1>3. \A s \in ClickState : \A a \in {"delete", "restore", "edit"} :
        [s EXCEPT !.at = a] \in ClickState
  BY DEF ClickState
<1>4. \A s \in ClickState : \A n \in Nat : [s EXCEPT !.at = "get", !.msg = n] \in ClickState
  BY DEF ClickState
<1>5. \A s \in ClickState : \A b \in BOOLEAN : [s EXCEPT !.at = "cancel", !.pending = b] \in ClickState
  BY DEF ClickState
<1>6. IdleIssue \in IssueState /\ IdleClick \in ClickState
  BY DEF IdleIssue, IdleClick, IssueState, ClickState
<1>7. ASSUME \/ Cleanup \/ ClaimBatch \/ Recover \/ Tick \/ Restart \/ ExpireStep \/ Execute
             \/ UNCHANGED vars \/ \E k \in Keys : Leave(k)
      PROVE  UNCHANGED <<issue, click>>
  BY <1>7 DEF Cleanup, ClaimBatch, Recover, Tick, Restart, ExpireStep, Execute, vars, handlers, Leave,
       ExpireCheck, ExpireLoad, ExpireDrop, ExpireUnprompt, ExpireBan, ExpireNotice, Settle
<1>8. ASSUME Crash PROVE HandlerType'
  BY <1>6, <1>8 DEF Crash, HandlerType
<1>9. ASSUME NEW k \in Keys, NEW s \in IssueState, issue' = [issue EXCEPT ![k] = s], UNCHANGED click
      PROVE  HandlerType'
  BY <1>0, <1>9 DEF HandlerType
<1>10. ASSUME NEW k \in Keys, NEW s \in ClickState, click' = [click EXCEPT ![k] = s], UNCHANGED issue
      PROVE  HandlerType'
  BY <1>0, <1>10 DEF HandlerType
<1>11. ASSUME NEW k \in Keys, Join(k) \/ IssueStep(k)
       PROVE  UNCHANGED click /\ \E s \in IssueState : issue' = [issue EXCEPT ![k] = s]
  <2>0. issue[k] \in IssueState
    BY <1>0
  <2>1. CASE Join(k)
    BY <1>0, <1>1, <2>0, <2>1 DEF Join
  <2>2. CASE IssueRestrict(k)
    BY <1>0, <1>1, <2>0, <2>2 DEF IssueRestrict
  <2>3. CASE IssueSend(k)
    <3>1. nextMsg \in Nat
      BY DEF TypeOK, TelegramType
    <3>2. CASE issue' = [issue EXCEPT ![k].at = "set", ![k].msg = nextMsg]
      <4>1. issue' = [issue EXCEPT ![k] = [issue[k] EXCEPT !.at = "set", !.msg = nextMsg]]
        BY <1>0, <3>2
      <4> QED
        BY <1>2, <2>0, <2>3, <3>1, <4>1 DEF IssueSend
    <3>3. CASE issue' = [issue EXCEPT ![k] = IdleIssue]
      BY <1>6, <2>3, <3>3 DEF IssueSend
    <3> QED
      BY <2>3, <3>2, <3>3 DEF IssueSend
  <2>4. CASE IssueSet(k)
    <3>1. now + TTL \in Nat
      BY CaptchaAssumption DEF TypeOK, StoreType
    <3>2. issue' = [issue EXCEPT ![k] = [issue[k] EXCEPT !.at = "enqueue", !.expires = now + TTL]]
      BY <1>0, <2>4 DEF IssueSet
    <3> QED
      BY <1>2, <2>0, <2>4, <3>1, <3>2 DEF IssueSet
  <2>5. CASE IssueEnqueue(k)
    BY <1>6, <2>5 DEF IssueEnqueue
  <2> QED
    BY <1>11, <2>1, <2>2, <2>3, <2>4, <2>5 DEF IssueStep
<1>12. ASSUME NEW k \in Keys, Press(k) \/ ClickStep(k)
       PROVE  UNCHANGED issue /\ \E s \in ClickState : click' = [click EXCEPT ![k] = s]
  <2>0. click[k] \in ClickState
    BY <1>0
  <2>1. CASE Press(k)
    <3>1. PICK p \in prompts : click' = [click EXCEPT ![k].at = "get", ![k].msg = p.msg]
      BY <2>1 DEF Press
    <3>2. p.msg \in Nat
      BY DEF TypeOK, TelegramType
    <3>3. click' = [click EXCEPT ![k] = [click[k] EXCEPT !.at = "get", !.msg = p.msg]]
      BY <1>0, <3>1
    <3> QED
      BY <1>4, <2>0, <2>1, <3>2, <3>3 DEF Press
  <2>2. CASE ClickGet(k)
    <3>1. PICK b \in BOOLEAN : b = (mem[k] # 0)
      OBVIOUS
    <3>2. click' = [click EXCEPT ![k] = [click[k] EXCEPT !.at = "cancel", !.pending = b]]
      BY <1>0, <2>2, <3>1 DEF ClickGet
    <3> QED
      BY <1>5, <2>0, <2>2, <3>1, <3>2 DEF ClickGet
  <2>3. CASE ClickCancel(k)
    BY <1>3, <1>6, <2>0, <2>3 DEF ClickCancel
  <2>4. CASE ClickDelete(k)
    BY <1>0, <1>3, <2>0, <2>4 DEF ClickDelete
  <2>5. CASE ClickRestore(k)
    BY <1>0, <1>3, <2>0, <2>5 DEF ClickRestore
  <2>6. CASE ClickEdit(k)
    BY <1>6, <2>6 DEF ClickEdit
  <2> QED
    BY <1>12, <2>1, <2>2, <2>3, <2>4, <2>5, <2>6 DEF ClickStep
<1> QED
  BY <1>0, <1>7, <1>8, <1>9, <1>10, <1>11, <1>12 DEF Next, HandlerType

(* The chat, its members and the memory. *)
LEMMA TelegramTypeStep ==
  ASSUME TypeOK, [Next]_vars
  PROVE  TelegramType'
<1>1. \A k \in Keys : issue[k].msg \in Nat /\ click[k].msg \in Nat
  BY DEF TypeOK, HandlerType, IssueState, ClickState
<1>2. \A c \in job : c.key \in Keys /\ c.payload.ref \in Nat
  BY DEF TypeOK, WorkerType, Claim, Payload
<1> USE DEF TypeOK, TelegramType
<1>3. CASE Crash
  BY <1>3 DEF Crash, telegram
<1>4. CASE \E k \in Keys : Join(k) \/ Leave(k) \/ Press(k)
  BY <1>4 DEF Join, Leave, Press, telegram
<1>5. CASE \E k \in Keys : IssueStep(k)
  BY <1>1, <1>5 DEF IssueStep, IssueRestrict, IssueSend, IssueSet, IssueEnqueue, telegram
<1>6. CASE \E k \in Keys : ClickStep(k)
  <2>1. PICK k \in Keys : ClickStep(k)
    BY <1>6
  <2>2. CASE ClickEdit(k)
    BY <1>1, <2>2 DEF ClickEdit
  <2>3. CASE ClickGet(k) \/ ClickCancel(k)
    BY <2>3 DEF ClickGet, ClickCancel, telegram
  <2>4. CASE ClickDelete(k)
    BY <2>4 DEF ClickDelete, telegram
  <2>5. CASE ClickRestore(k)
    BY <2>5 DEF ClickRestore
  <2> QED
    BY <2>1, <2>2, <2>3, <2>4, <2>5 DEF ClickStep
<1>7. CASE ExpireStep
  <2>1. PICK c \in job : \/ ExpireCheck(c) \/ ExpireLoad(c) \/ ExpireDrop(c) \/ ExpireUnprompt(c)
                        \/ ExpireBan(c) \/ ExpireNotice(c) \/ Settle(c)
    BY <1>7 DEF ExpireStep
  <2>2. CASE ExpireCheck(c) \/ ExpireLoad(c) \/ Settle(c)
    BY <2>2 DEF ExpireCheck, ExpireLoad, Settle, telegram
  <2>3. CASE ExpireDrop(c)
    BY <1>2, <2>3 DEF ExpireDrop, telegram
  <2>4. CASE ExpireUnprompt(c)
    BY <2>4 DEF ExpireUnprompt
  <2>5. CASE ExpireBan(c)
    BY <1>2, <2>5 DEF ExpireBan
  <2>6. CASE ExpireNotice(c)
    <3>1. nextMsg' \in {nextMsg, nextMsg + 1} /\ toDelete' \subseteq toDelete \cup {nextMsg}
      BY <2>6 DEF ExpireNotice
    <3>2. UNCHANGED <<member, prompts, mem>>
      BY <2>6 DEF ExpireNotice
    <3> QED
      BY <3>1, <3>2
  <2> QED
    BY <2>1, <2>2, <2>3, <2>4, <2>5, <2>6
<1>8. CASE \/ Recover \/ ClaimBatch \/ Execute \/ Cleanup \/ Restart \/ Tick \/ UNCHANGED vars
  BY <1>8 DEF Recover, ClaimBatch, Execute, Cleanup, Restart, Tick, vars, telegram
<1> QED
  BY <1>3, <1>4, <1>5, <1>6, <1>7, <1>8 DEF Next

(* The worker and its claims. *)
LEMMA WorkerTypeStep ==
  ASSUME TypeOK, [Next]_vars
  PROVE  WorkerType'
<1> USE DEF TypeOK, WorkerType
<1>1. CASE ClaimBatch
  <2>1. ASSUME NEW k \in DueBatch
        PROVE  [key |-> k, id |-> tasks[k].id, payload |-> tasks[k].payload,
                attempts |-> tasks[k].attempts + 1] \in Claim
    <3>1. tasks[k] \in Task /\ k \in Keys
      BY DEF DueBatch, Due, StoreType
    <3> QED
      BY <3>1 DEF Task, Claim
  <2> QED
    BY <1>1, <2>1 DEF ClaimBatch, Claimed
<1>2. CASE \E k \in Keys : Join(k) \/ Leave(k) \/ Press(k) \/ IssueStep(k)
  BY <1>2 DEF Join, Leave, Press, IssueStep, IssueRestrict, IssueSend, IssueSet, IssueEnqueue, worker
<1>3. CASE \E k \in Keys : ClickStep(k)
  BY <1>3 DEF ClickStep, ClickGet, ClickCancel, ClickDelete, ClickRestore, ClickEdit, worker
<1>4. CASE ExpireStep
  BY <1>4 DEF ExpireStep, ExpireCheck, ExpireLoad, ExpireDrop, ExpireUnprompt, ExpireBan,
       ExpireNotice, Settle
<1>5. CASE \/ Recover \/ Execute \/ Cleanup \/ Restart \/ Tick \/ UNCHANGED vars \/ Crash
  BY <1>5 DEF Recover, Execute, Cleanup, Restart, Tick, vars, worker, Crash
<1> QED
  BY <1>1, <1>2, <1>3, <1>4, <1>5 DEF Next

(* The bounds and the history. *)
LEMMA BoundTypeStep ==
  ASSUME TypeOK, [Next]_vars
  PROVE  BoundType'
<1>1. \A k \in Keys : issue[k].msg \in Nat /\ tasks[k].payload.ref \in Nat
  BY DEF TypeOK, HandlerType, IssueState, StoreType, Task, Payload
<1> USE DEF TypeOK, BoundType, bounds, history, Works, Fails
<1>2. CASE \E k \in Keys : Join(k) \/ Leave(k) \/ Press(k)
  BY <1>2 DEF Join, Leave, Press
<1>3. CASE \E k \in Keys : IssueStep(k)
  <2>1. PICK k \in Keys : IssueStep(k)
    BY <1>3
  <2>2. CASE IssueRestrict(k)
    BY <2>2 DEF IssueRestrict
  <2>3. CASE IssueSend(k)
    BY <2>3 DEF IssueSend
  <2>4. CASE IssueSet(k)
    BY <2>4 DEF IssueSet
  <2>5. CASE IssueEnqueue(k)
    BY <1>1, <2>5 DEF IssueEnqueue
  <2> QED
    BY <2>1, <2>2, <2>3, <2>4, <2>5 DEF IssueStep
<1>4. CASE \E k \in Keys : ClickStep(k)
  <2>1. PICK k \in Keys : ClickStep(k)
    BY <1>4
  <2>2. CASE ClickCancel(k)
    <3>1. withdrawn' \subseteq Nat
      BY <1>1, <2>2 DEF ClickCancel
    <3> QED
      BY <2>2, <3>1 DEF ClickCancel
  <2>3. CASE ClickGet(k) \/ ClickDelete(k)
    BY <2>3 DEF ClickGet, ClickDelete
  <2>4. CASE ClickRestore(k)
    BY <2>4 DEF ClickRestore
  <2>5. CASE ClickEdit(k)
    BY <2>5 DEF ClickEdit
  <2> QED
    BY <2>1, <2>2, <2>3, <2>4, <2>5 DEF ClickStep
<1>5. CASE ExpireStep
  <2>1. PICK c \in job : \/ ExpireCheck(c) \/ ExpireLoad(c) \/ ExpireDrop(c) \/ ExpireUnprompt(c)
                        \/ ExpireBan(c) \/ ExpireNotice(c) \/ Settle(c)
    BY <1>5 DEF ExpireStep
  <2>2. CASE ExpireCheck(c) \/ ExpireLoad(c) \/ ExpireDrop(c)
    BY <2>2 DEF ExpireCheck, ExpireLoad, ExpireDrop
  <2>3. CASE Settle(c)
    BY <2>3 DEF Settle
  <2>4. CASE ExpireUnprompt(c)
    BY <2>4 DEF ExpireUnprompt
  <2>5. CASE ExpireBan(c)
    BY <2>5 DEF ExpireBan
  <2>6. CASE ExpireNotice(c)
    BY <2>6 DEF ExpireNotice
  <2> QED
    BY <2>1, <2>2, <2>3, <2>4, <2>5, <2>6
<1>6. CASE ClaimBatch \/ Recover \/ Crash
  <2>1. CASE ClaimBatch
    BY <2>1 DEF ClaimBatch
  <2>2. CASE Recover
    BY <2>2 DEF Recover
  <2>3. CASE Crash
    BY <2>3 DEF Crash
  <2> QED
    BY <1>6, <2>1, <2>2, <2>3
<1>7. CASE \/ Execute \/ Cleanup \/ Restart \/ Tick \/ UNCHANGED vars
  BY <1>7 DEF Execute, Cleanup, Restart, Tick, vars
<1> QED
  BY <1>2, <1>3, <1>4, <1>5, <1>6, <1>7 DEF Next

----------------------------------------------------------------------------
(* What a step does to a row: an upsert renews it, ... *)
Renewed(k) ==
  /\ IssueEnqueue(k) /\ issue[k].at = "enqueue" /\ issue'[k] = IdleIssue
  /\ nextId' = nextId + 1
  /\ \A j \in Keys \ {k} : tasks'[j] = tasks[j]
  /\ tasks'[k].id = IF Present(k) THEN tasks[k].id ELSE nextId
  /\ tasks'[k].payload.ref = issue[k].msg
  /\ tasks'[k].status = "pending"

(* ... or its status moves and what it is about stays: ... *)
Moved(k, from, to) ==
  /\ tasks[k].status \in from /\ tasks'[k].status \in to
  /\ tasks'[k].id = tasks[k].id /\ tasks'[k].payload = tasks[k].payload

(* ... a press cancels it, ... *)
Cancelled(k) ==
  /\ ClickCancel(k) /\ click'[k].at = "delete"
  /\ Moved(k, {"pending"}, {"cancelled"})
  /\ \A j \in Keys \ {k} : tasks'[j] = tasks[j]

(* ... or the worker settles the claim it holds of it. *)
Settled(k) ==
  \E c \in job : /\ Settle(c) /\ HasId(k, c.id)
                 /\ Moved(k, Status, {"done", "failed", "pending"})

RowKept(k) == tasks'[k] = tasks[k]

(* These, a claim, a recovery and the cleanup are all that happens to a row. *)
LEMMA RowStep ==
  ASSUME TypeOK, [Next]_vars, NEW k \in Keys
  PROVE  \/ RowKept(k)
         \/ Renewed(k)
         \/ Cancelled(k)
         \/ ClaimBatch /\ k \in DueBatch /\ Moved(k, {"pending"}, {"running"})
         \/ Recover /\ Moved(k, {"running"}, {"pending"})
         \/ Settled(k)
         \/ Cleanup /\ tasks[k].status \in {"done", "cancelled"} /\ tasks'[k] = NoTask
<1>0. tasks \in [Keys -> Task] /\ tasks[k] \in Task
  BY DEF TypeOK, StoreType
<1>1. CASE \E j \in Keys : IssueEnqueue(j)
  <2>1. PICK j \in Keys : IssueEnqueue(j)
    BY <1>1
  <2>2. CASE UNCHANGED tasks
    BY <2>2 DEF RowKept
  <2>3. CASE EnqueueTask(j, [ref |-> issue[j].msg, at |-> issue[j].expires], issue[j].expires)
    <3>1. PICK t : t = [id |-> IF Present(j) THEN tasks[j].id ELSE nextId,
                        payload |-> [ref |-> issue[j].msg, at |-> issue[j].expires],
                        runAt |-> issue[j].expires,
                        status |-> "pending", attempts |-> 0, updatedAt |-> now]
      OBVIOUS
    <3>2. tasks' = [tasks EXCEPT ![j] = t] /\ nextId' = nextId + 1
      BY <2>3, <3>1 DEF EnqueueTask
    <3>3. /\ t.id = IF Present(j) THEN tasks[j].id ELSE nextId
          /\ t.payload.ref = issue[j].msg /\ t.status = "pending"
      BY <3>1
    <3>4. CASE j = k
      <4>1. issue[k].at = "enqueue" /\ issue'[k] = IdleIssue
        BY <2>1, <3>4 DEF IssueEnqueue, TypeOK, HandlerType
      <4> QED
        BY <1>0, <2>1, <3>2, <3>3, <3>4, <4>1 DEF Renewed
    <3>5. CASE j # k
      BY <1>0, <3>2, <3>5 DEF RowKept
    <3> QED
      BY <3>4, <3>5
  <2> QED
    BY <2>1, <2>2, <2>3 DEF IssueEnqueue, table
<1>2. CASE \E j \in Keys : ClickCancel(j)
  <2>1. PICK j \in Keys : ClickCancel(j)
    BY <1>2
  <2>2. CASE UNCHANGED tasks
    BY <2>2 DEF RowKept
  <2>3. CASE tasks[j].status = "pending" /\
             tasks' = [tasks EXCEPT ![j].status = "cancelled", ![j].updatedAt = now]
    <3>1. \A i \in Keys \ {j} : tasks'[i] = tasks[i]
      BY <1>0, <2>3
    <3>2. tasks[j] \in Task
      BY <1>0
    <3>3. /\ tasks'[j].id = tasks[j].id /\ tasks'[j].payload = tasks[j].payload
          /\ tasks'[j].status = "cancelled"
      BY <1>0, <2>3, <3>2 DEF Task
    <3>4. click'[j].at = "delete"
      <4>1. tasks' # tasks
        BY <2>3, <3>3
      <4>2. click[j] \in ClickState /\ click \in [Keys -> ClickState]
        BY DEF TypeOK, HandlerType
      <4> QED
        BY <2>1, <2>3, <4>1, <4>2 DEF ClickCancel, Cancellable, table, ClickState
    <3> QED
      BY <2>1, <2>3, <3>1, <3>3, <3>4 DEF Cancelled, RowKept, Moved
  <2> QED
    BY <2>1, <2>2, <2>3 DEF ClickCancel, CancelTaskByDedupKey, Cancellable, table
<1>3. CASE Recover
  BY ZenonT(40), <1>0, <1>3 DEF Recover, RecoverRunningTasks, RowKept, Moved, Task, table
<1>4. CASE ClaimBatch
  <2>1. CASE k \in DueBatch
    <3>1. tasks'[k] = [tasks[k] EXCEPT !.status = "running", !.attempts = @ + 1, !.updatedAt = now]
      BY <1>4, <2>1 DEF ClaimBatch, ClaimDueTasks
    <3>2. tasks[k].status = "pending"
      BY <2>1 DEF DueBatch, Due
    <3> QED
      BY <1>0, <1>4, <2>1, <3>1, <3>2 DEF Moved, Task
  <2>2. CASE k \notin DueBatch
    BY <1>4, <2>2 DEF ClaimBatch, ClaimDueTasks, RowKept
  <2> QED
    BY <2>1, <2>2
<1>5. ASSUME NEW c \in job, Settle(c) PROVE RowKept(k) \/ Settled(k)
  <2>1. CASE ~HasId(k, c.id)
    <3>1. CASE CompleteTask(c.id)
      BY <2>1, <3>1 DEF CompleteTask, RowKept
    <3>2. CASE FailTask(c.id, c.attempts)
      BY <2>1, <3>2 DEF FailTask, RowKept
    <3>3. CASE UNCHANGED table
      BY <3>3 DEF table, RowKept
    <3> QED
      BY <1>5, <3>1, <3>2, <3>3 DEF Settle
  <2>2. CASE HasId(k, c.id)
    <3>1. tasks[k].status \in Status
      BY <1>0, <2>2 DEF HasId, Present, Task
    <3>2. CASE tasks'[k] = [tasks[k] EXCEPT !.status = "done", !.updatedAt = now]
      BY <1>0, <1>5, <2>2, <3>1, <3>2 DEF Settled, Moved, Task
    <3>3. CASE tasks'[k] = [tasks[k] EXCEPT !.status = "failed", !.updatedAt = now]
      BY <1>0, <1>5, <2>2, <3>1, <3>3 DEF Settled, Moved, Task
    <3>4. CASE tasks'[k] = [tasks[k] EXCEPT !.status = "pending", !.updatedAt = now,
                                           !.runAt = now + RetryAfter(c.attempts)]
      BY <1>0, <1>5, <2>2, <3>1, <3>4 DEF Settled, Moved, Task
    <3>5. CASE CompleteTask(c.id)
      BY <2>2, <3>2, <3>5 DEF CompleteTask
    <3>6. CASE FailTask(c.id, c.attempts)
      BY <2>2, <3>3, <3>4, <3>6 DEF FailTask
    <3>7. CASE UNCHANGED table
      BY <3>7 DEF table, RowKept
    <3> QED
      BY <1>5, <3>5, <3>6, <3>7 DEF Settle
  <2> QED
    BY <2>1, <2>2
<1>6. CASE Cleanup
  BY <1>6 DEF Cleanup, CleanupFinishedTasks, Stale, RowKept
<1>7. CASE /\ ~Cleanup /\ ~ClaimBatch /\ ~Recover /\ ~ \E c \in job : Settle(c)
           /\ ~ \E j \in Keys : ClickCancel(j) \/ IssueEnqueue(j)
  BY <1>7 DEF Next, IssueStep, ClickStep, ExpireStep, Join, Leave, Press, IssueRestrict, IssueSend,
       IssueSet, ClickGet, ClickDelete, ClickRestore, ClickEdit, Execute, ExpireCheck, ExpireLoad,
       ExpireDrop, ExpireUnprompt, ExpireBan, ExpireNotice, Crash, Restart, Tick, vars, table, RowKept
<1> QED
  BY <1>1, <1>2, <1>3, <1>4, <1>5, <1>6, <1>7

(* The sequence goes up, by one. *)
LEMMA NextIdStep ==
  ASSUME [Next]_vars
  PROVE  nextId' = nextId \/ nextId' = nextId + 1
<1>1. CASE \E j \in Keys : IssueEnqueue(j)
  BY <1>1 DEF IssueEnqueue, EnqueueTask, table
<1>2. CASE \E j \in Keys : ClickCancel(j)
  BY <1>2 DEF ClickCancel, CancelTaskByDedupKey, table
<1>3. CASE Recover \/ ClaimBatch \/ Cleanup \/ \E c \in job : Settle(c)
  BY <1>3 DEF Recover, RecoverRunningTasks, ClaimBatch, ClaimDueTasks, Cleanup, CleanupFinishedTasks,
       Settle, CompleteTask, FailTask, table
<1>4. CASE /\ ~Cleanup /\ ~ClaimBatch /\ ~Recover /\ ~ \E c \in job : Settle(c)
           /\ ~ \E j \in Keys : ClickCancel(j) \/ IssueEnqueue(j)
  BY <1>4 DEF Next, IssueStep, ClickStep, ExpireStep, Join, Leave, Press, IssueRestrict, IssueSend,
       IssueSet, ClickGet, ClickDelete, ClickRestore, ClickEdit, Execute, ExpireCheck, ExpireLoad,
       ExpireDrop, ExpireUnprompt, ExpireBan, ExpireNotice, Crash, Restart, Tick, vars, table
<1> QED
  BY <1>1, <1>2, <1>3, <1>4

(* What a step does to the claims in hand. *)
HeldKept == batch' = batch /\ job' = job

Released(c) == c \in job /\ Settle(c) /\ job' = {} /\ batch' = batch

Started(c) == /\ Execute /\ c \in batch /\ job = {}
              /\ batch' = batch \ {c} /\ job' = {c} /\ step' = "check"

(* They change by a claim, a start, a settlement or a crash. *)
LEMMA HeldStep ==
  ASSUME [Next]_vars
  PROVE  \/ HeldKept
         \/ ClaimBatch /\ batch = {} /\ job = {} /\ job' = {} /\ batch' = Claimed
         \/ \E c \in batch : Started(c)
         \/ \E c \in job : Released(c)
         \/ Crash /\ batch' = {} /\ job' = {}
<1>1. CASE ClaimBatch \/ Execute \/ Crash \/ \E c \in job : Settle(c)
  BY <1>1 DEF ClaimBatch, Execute, Crash, Settle, Started, Released
<1>2. CASE ~ClaimBatch /\ ~Execute /\ ~Crash /\ ~ \E c \in job : Settle(c)
  BY ZenonT(40), <1>2 DEF Next, IssueStep, ClickStep, ExpireStep, Join, Leave, Press, IssueRestrict, IssueSend,
       IssueSet, IssueEnqueue, ClickGet, ClickCancel, ClickDelete, ClickRestore, ClickEdit, Recover,
       ExpireCheck, ExpireLoad, ExpireDrop, ExpireUnprompt, ExpireBan, ExpireNotice, Cleanup, Restart,
       Tick, vars, worker, HeldKept
<1> QED
  BY <1>1, <1>2

----------------------------------------------------------------------------
(* What ClaimBatch does, row by row and claim by claim. *)
LEMMA ClaimRows ==
  ASSUME TypeOK, ClaimBatch
  PROVE  /\ \A k \in Keys : /\ tasks'[k].id = tasks[k].id
                            /\ tasks'[k].payload = tasks[k].payload
                            /\ k \notin DueBatch => tasks'[k] = tasks[k]
         /\ \A k \in DueBatch : /\ k \in Keys /\ tasks[k].status = "pending"
                                /\ tasks'[k].status = "running"
         /\ \A c \in Claimed : /\ c.key \in DueBatch /\ c.id = tasks[c.key].id
                               /\ c.payload = tasks[c.key].payload
         /\ \A c, d \in Claimed : c.key = d.key => c = d
         /\ \A k \in DueBatch : \E c \in Claimed : c.key = k
<1>0. \A k \in DueBatch : k \in Keys /\ tasks[k].status = "pending"
  BY DEF DueBatch, Due
<1>1. ASSUME NEW k \in Keys
      PROVE  /\ tasks'[k].id = tasks[k].id /\ tasks'[k].payload = tasks[k].payload
             /\ k \notin DueBatch => tasks'[k] = tasks[k]
             /\ k \in DueBatch => tasks'[k].status = "running"
  <2>1. tasks[k] \in Task
    BY DEF TypeOK, StoreType
  <2> QED
    BY <2>1 DEF ClaimBatch, ClaimDueTasks, Task
<1>2. \A c \in Claimed : /\ c.key \in DueBatch /\ c.id = tasks[c.key].id
                         /\ c.payload = tasks[c.key].payload
  BY DEF Claimed
<1>3. \A c, d \in Claimed : c.key = d.key => c = d
  BY DEF Claimed
<1>4. \A k \in DueBatch : \E c \in Claimed : c.key = k
  <2> SUFFICES ASSUME NEW k \in DueBatch PROVE \E c \in Claimed : c.key = k
    OBVIOUS
  <2>1. PICK c : c = [key |-> k, id |-> tasks[k].id, payload |-> tasks[k].payload,
                      attempts |-> tasks[k].attempts + 1]
    OBVIOUS
  <2>2. c \in Claimed
    BY <2>1 DEF Claimed
  <2> QED
    BY <2>1, <2>2
<1> QED
  BY <1>0, <1>1, <1>2, <1>3, <1>4

(* Rows and claims: ids. *)
LEMMA RowIdsStep ==
  ASSUME TypeOK, RowIds, [Next]_vars
  PROVE  RowIds'
<1>0. /\ nextId \in Nat
      /\ \A k \in Keys : tasks[k].id \in Nat
  BY DEF TypeOK, StoreType, Task
<1>1. nextId' = nextId \/ nextId' = nextId + 1
  BY NextIdStep
<1>2. ASSUME NEW k \in Keys, ~Renewed(k), tasks'[k].status # "absent"
      PROVE  Present(k) /\ tasks'[k].id = tasks[k].id
  BY <1>2, RowStep DEF RowKept, Cancelled, Settled, Moved, Present, NoTask, Status
<1>3. ASSUME NEW k \in Keys, tasks'[k].status # "absent" PROVE tasks'[k].id < nextId'
  BY <1>0, <1>1, <1>2, <1>3 DEF RowIds, Renewed
<1>4. ASSUME NEW j \in Keys, NEW k \in Keys, Renewed(k), tasks'[j].status # "absent",
             tasks'[j].id = tasks'[k].id
      PROVE  j = k
  BY <1>0, <1>4 DEF RowIds, Renewed, Present
<1>5. ASSUME NEW j \in Keys, NEW k \in Keys, tasks'[j].status # "absent",
             tasks'[k].status # "absent", tasks'[j].id = tasks'[k].id
      PROVE  j = k
  BY <1>2, <1>4, <1>5 DEF RowIds
<1> QED
  BY <1>3, <1>5 DEF RowIds, Present

(* A batch is claimed only with nothing in hand. *)
LEMMA HeldOnceStep ==
  ASSUME TypeOK, HeldOnce, [Next]_vars
  PROVE  HeldOnce'
<1>1. CASE HeldKept
  <2>1. phase' # "up" => phase # "up" \/ Crash
    BY DEF Next, IssueStep, ClickStep, ExpireStep, Join, Leave, Press, IssueRestrict, IssueSend,
       IssueSet, IssueEnqueue, ClickGet, ClickCancel, ClickDelete, ClickRestore, ClickEdit, Recover,
       ExpireCheck, ExpireLoad, ExpireDrop, ExpireUnprompt, ExpireBan, ExpireNotice, Settle, Cleanup,
       Restart, Tick, vars, Execute, ClaimBatch
  <2>2. Crash => batch' = {} /\ job' = {}
    BY DEF Crash
  <2> QED
    BY <1>1, <2>1, <2>2 DEF HeldKept, HeldOnce, Held
<1>2. CASE ClaimBatch /\ job' = {} /\ batch' = Claimed
  BY <1>2, ClaimRows DEF HeldOnce, Held, ClaimBatch
<1>3. ASSUME NEW c \in batch, Started(c) PROVE HeldOnce'
  BY <1>3 DEF Started, HeldOnce, Held, Execute
<1>4. ASSUME NEW c \in job, Released(c) PROVE HeldOnce'
  BY <1>4 DEF Released, HeldOnce, Held, Settle
<1>5. CASE batch' = {} /\ job' = {}
  BY <1>5 DEF HeldOnce, Held
<1> QED
  BY <1>1, <1>2, <1>3, <1>4, <1>5, HeldStep

(* What is in hand after a step was before, or is claimed in it. *)
LEMMA HeldBefore ==
  ASSUME [Next]_vars
  PROVE  (ClaimBatch /\ Held = {} /\ Held' = Claimed) \/ Held' \subseteq Held
  BY HeldStep DEF HeldKept, Started, Released, Held

(* A key enqueued anew after its row was cleaned up has a new id. *)
LEMMA ClaimIdsStep ==
  ASSUME TypeOK, RowIds, ClaimIds, [Next]_vars
  PROVE  ClaimIds'
<1>0. /\ nextId \in Nat
      /\ \A k \in Keys : tasks[k].id \in Nat
  BY DEF TypeOK, StoreType, Task
<1>1. nextId' = nextId \/ nextId' = nextId + 1
  BY NextIdStep
<1>2. CASE ClaimBatch /\ Held' = Claimed
  <2>0. \A k \in Keys : tasks'[k].status # "absent" => tasks[k].status # "absent"
    BY <1>2, ClaimRows
  <2>1. ASSUME NEW c \in Claimed
        PROVE  /\ c.key \in Keys /\ c.id = tasks[c.key].id
               /\ tasks[c.key].status # "absent" /\ c.id < nextId
    BY <1>2, ClaimRows DEF RowIds, Present
  <2>2. nextId' = nextId
    BY <1>2 DEF ClaimBatch, ClaimDueTasks
  <2>3. ASSUME NEW c \in Claimed, NEW k \in Keys, tasks'[k].status # "absent", tasks'[k].id = c.id
        PROVE  k = c.key
    BY <1>2, <2>0, <2>1, <2>3, ClaimRows DEF RowIds, Present
  <2> QED
    BY <1>2, <2>1, <2>2, <2>3 DEF ClaimIds, HasId, Present
<1>3. CASE Held' \subseteq Held
  <2>1. ASSUME NEW c \in Held PROVE c.id < nextId'
    <3>1. c.id \in Nat
      BY DEF Held, TypeOK, WorkerType, Claim
    <3> QED
      BY <1>0, <1>1, <3>1 DEF ClaimIds
  <2>2. ASSUME NEW c \in Held, NEW k \in Keys, tasks'[k].status # "absent", tasks'[k].id = c.id
        PROVE  k = c.key
    <3>0. c.id < nextId /\ c.id \in Nat
      BY DEF ClaimIds, Held, TypeOK, WorkerType, Claim
    <3>1. Renewed(k) => Present(k) /\ tasks'[k].id = tasks[k].id
      BY <1>0, <2>2, <3>0 DEF Renewed
    <3>2. Present(k) /\ tasks'[k].id = tasks[k].id
      BY <2>2, <3>1, RowStep DEF RowKept, Cancelled, Settled, Moved, Present, NoTask, Status
    <3> QED
      BY <2>2, <3>2 DEF ClaimIds, HasId
  <2> QED
    BY <1>3, <2>1, <2>2 DEF ClaimIds, HasId, Present
<1> QED
  BY <1>2, <1>3, HeldBefore

----------------------------------------------------------------------------
(* What a step does to a join handler. *)
LEMMA IssueMoves ==
  ASSUME TypeOK, [Next]_vars, NEW k \in Keys
  PROVE  \/ issue'[k] = issue[k]
         \/ /\ issue'[k] = IdleIssue
            /\ Crash \/ IssueEnqueue(k) \/ (IssueSend(k) /\ Fails)
         \/ /\ IssueSend(k) /\ issue[k].at = "send" /\ issue'[k].at = "set"
            /\ issue'[k].msg = nextMsg /\ nextMsg' = nextMsg + 1
            /\ \A j \in Keys \ {k} : issue'[j] = issue[j]
         \/ /\ IssueSet(k) /\ issue[k].at = "set" /\ issue'[k].at = "enqueue"
            /\ issue'[k].msg = issue[k].msg
         \/ /\ Join(k) \/ IssueRestrict(k)
            /\ issue[k].at \in {"idle", "restrict"} /\ issue'[k].at \in {"restrict", "send"}
            /\ issue'[k].msg = issue[k].msg
<1>0. issue \in [Keys -> IssueState] /\ issue[k] \in IssueState
  BY DEF TypeOK, HandlerType
<1>1. CASE \E j \in Keys : Join(j) \/ IssueRestrict(j)
  <2>1. PICK j \in Keys : Join(j) \/ IssueRestrict(j)
    BY <1>1
  <2>2. CASE j # k
    BY <1>0, <2>1, <2>2 DEF Join, IssueRestrict
  <2>3. CASE j = k /\ Join(k)
    BY <1>0, <2>3 DEF Join, IssueState, IdleIssue
  <2>4. CASE j = k /\ IssueRestrict(k)
    BY <1>0, <2>4 DEF IssueRestrict, IssueState
  <2> QED
    BY <2>1, <2>2, <2>3, <2>4
<1>2. CASE \E j \in Keys : IssueSend(j)
  <2>1. PICK j \in Keys : IssueSend(j)
    BY <1>2
  <2>2. CASE j # k
    BY <1>0, <2>1, <2>2 DEF IssueSend
  <2>3. CASE j = k /\ issue' = [issue EXCEPT ![k].at = "set", ![k].msg = nextMsg]
    BY <1>0, <2>1, <2>3 DEF IssueSend, IssueState
  <2>4. CASE j = k /\ issue' = [issue EXCEPT ![k] = IdleIssue] /\ Fails
    BY <1>0, <2>1, <2>4
  <2> QED
    BY <2>1, <2>2, <2>3, <2>4 DEF IssueSend
<1>3. CASE \E j \in Keys : IssueSet(j)
  <2>1. PICK j \in Keys : IssueSet(j)
    BY <1>3
  <2>2. CASE j # k
    BY <1>0, <2>1, <2>2 DEF IssueSet
  <2>3. CASE j = k
    BY <1>0, <2>1, <2>3 DEF IssueSet, IssueState
  <2> QED
    BY <2>2, <2>3
<1>4. CASE \E j \in Keys : IssueEnqueue(j)
  BY <1>0, <1>4 DEF IssueEnqueue
<1>5. CASE Crash
  BY <1>5 DEF Crash
<1>6. CASE /\ ~Crash
           /\ ~ \E j \in Keys : \/ Join(j) \/ IssueRestrict(j) \/ IssueSend(j)
                               \/ IssueSet(j) \/ IssueEnqueue(j)
  BY <1>6 DEF Next, IssueStep, ClickStep, ExpireStep, Leave, Press, ClickGet, ClickCancel, ClickDelete,
       ClickRestore, ClickEdit, Recover, ClaimBatch, Execute, ExpireCheck, ExpireLoad, ExpireDrop,
       ExpireUnprompt, ExpireBan, ExpireNotice, Settle, Cleanup, Restart, Tick, vars, handlers
<1> QED
  BY <1>1, <1>2, <1>3, <1>4, <1>5, <1>6

(* Message ids go up. *)
LEMMA NextMsgStep ==
  ASSUME TypeOK, [Next]_vars
  PROVE  nextMsg' = nextMsg \/ nextMsg' = nextMsg + 1
<1>1. CASE \E k \in Keys : IssueSend(k)
  BY <1>1 DEF IssueSend
<1>2. CASE \E c \in job : ExpireNotice(c)
  BY <1>2 DEF ExpireNotice
<1>3. CASE ~ (\E k \in Keys : IssueSend(k)) /\ ~ \E c \in job : ExpireNotice(c)
  BY <1>3 DEF Next, IssueStep, ClickStep, ExpireStep, Join, Leave, Press, IssueRestrict,
       IssueSet, IssueEnqueue, ClickGet, ClickCancel, ClickDelete, ClickRestore, ClickEdit, Recover,
       ClaimBatch, Execute, ExpireCheck, ExpireLoad, ExpireDrop, ExpireUnprompt, ExpireBan, Settle,
       Cleanup, Crash, Restart, Tick, vars, telegram
<1> QED
  BY <1>1, <1>2, <1>3

(* A message that refers to a user did before, or was sent in this step. *)
LEMMA RefBefore ==
  ASSUME TypeOK, [Next]_vars, NEW k \in Keys, NEW m \in Nat \ {0}, RefOf(k, m)'
  PROVE  RefOf(k, m) \/ /\ m = nextMsg /\ nextMsg' = nextMsg + 1 /\ issue'[k].msg = m
                        /\ \A j \in Keys \ {k} : issue'[j] = issue[j]
<1>1. CASE issue'[k].msg = m
  BY <1>1, IssueMoves DEF IdleIssue, RefOf
<1>2. CASE tasks'[k].payload.ref = m
  BY <1>2, RowStep DEF RowKept, Renewed, Cancelled, Settled, Moved, NoTask, RefOf
<1>3. ASSUME NEW c \in Held', c.key = k, c.payload.ref = m PROVE RefOf(k, m)
  <2>1. CASE c \in Held
    BY <1>3, <2>1 DEF RefOf
  <2>2. CASE ClaimBatch /\ c \in Claimed
    BY <1>3, <2>2, ClaimRows DEF RefOf
  <2> QED
    BY <1>3, <2>1, <2>2, HeldBefore
<1> QED
  BY <1>1, <1>2, <1>3 DEF RefOf

(* Only a press of the button withdraws a prompt, that of a pending row. *)
LEMMA WithdrawnStep ==
  ASSUME [Next]_vars
  PROVE  \/ withdrawn' = withdrawn
         \/ \E k \in Keys : /\ ClickCancel(k) /\ tasks[k].status = "pending"
                            /\ withdrawn' = withdrawn \cup {tasks[k].payload.ref}
                            /\ tasks' = [tasks EXCEPT ![k].status = "cancelled",
                                                      ![k].updatedAt = now]
<1>1. CASE \E k \in Keys : ClickCancel(k)
  BY <1>1 DEF ClickCancel, Cancellable, CancelTaskByDedupKey
<1>2. CASE ~ \E k \in Keys : ClickCancel(k)
  BY <1>2 DEF Next, IssueStep, ClickStep, ExpireStep, Join, Leave, Press, IssueRestrict, IssueSend,
       IssueSet, IssueEnqueue, ClickGet, ClickDelete, ClickRestore, ClickEdit, Recover,
       ClaimBatch, Execute, ExpireCheck, ExpireLoad, ExpireDrop, ExpireUnprompt, ExpireBan,
       ExpireNotice, Settle, Cleanup, Crash, Restart, Tick, vars, history
<1> QED
  BY <1>1, <1>2

(* A prompt enqueued over a claimed row is contested from then on. *)
LEMMA ContestedStep ==
  ASSUME TypeOK, [Next]_vars
  PROVE  /\ contested \subseteq contested'
         /\ \A k \in Keys : Renewed(k) /\ HeldRow(k) => issue[k].msg \in contested'
<1>1. ASSUME NEW k \in Keys, IssueEnqueue(k)
      PROVE  /\ contested \subseteq contested'
             /\ nextId' # nextId /\ HeldRow(k) => issue[k].msg \in contested'
  BY <1>1 DEF IssueEnqueue, table
<1>2. CASE ~ \E k \in Keys : IssueEnqueue(k)
  BY <1>2 DEF Next, IssueStep, ClickStep, ExpireStep, Join, Leave, Press, IssueRestrict, IssueSend,
       IssueSet, ClickGet, ClickCancel, ClickDelete, ClickRestore, ClickEdit, Recover,
       ClaimBatch, Execute, ExpireCheck, ExpireLoad, ExpireDrop, ExpireUnprompt, ExpireBan,
       ExpireNotice, Settle, Cleanup, Crash, Restart, Tick, vars, history, Renewed
<1>3. ASSUME NEW k \in Keys, Renewed(k), HeldRow(k) PROVE issue[k].msg \in contested'
  <2>1. nextId' # nextId /\ IssueEnqueue(k)
    BY <1>3 DEF Renewed, TypeOK, StoreType
  <2> QED
    BY <1>1, <1>3, <2>1
<1> QED
  BY <1>1, <1>2, <1>3

(* Messages: sent, ... *)
LEMMA RefsBelowStep ==
  ASSUME TypeOK, RefsBelow, IssueFresh, [Next]_vars
  PROVE  RefsBelow'
<1>0. nextMsg \in Nat \ {0} /\ (nextMsg' = nextMsg \/ nextMsg' = nextMsg + 1)
  BY NextMsgStep DEF TypeOK, TelegramType
<1>1. ASSUME NEW k \in Keys, NEW m \in Nat, RefOf(k, m)' PROVE m < nextMsg'
  <2>1. CASE m = 0
    BY <1>0, <2>1
  <2>2. CASE m # 0
    BY <1>0, <1>1, <2>2, RefBefore DEF RefsBelow
  <2> QED
    BY <2>1, <2>2
<1>2. \A k \in Keys : tasks[k].payload.ref \in Nat /\ tasks[k].payload.ref < nextMsg
  BY DEF TypeOK, StoreType, Task, Payload, RefsBelow, RefOf
<1>3. ASSUME NEW m \in withdrawn' PROVE m < nextMsg'
  <2>1. m \in Nat /\ m < nextMsg
    BY <1>2, WithdrawnStep DEF RefsBelow, TypeOK, BoundType
  <2> QED
    BY <1>0, <2>1
<1>4. ASSUME NEW c \in Held' PROVE c.payload.ref # 0
  <2>1. CASE c \in Held
    BY <2>1 DEF RefsBelow
  <2>2. CASE ClaimBatch /\ c \in Claimed
    BY <2>2, ClaimRows DEF RefsBelow, Present
  <2> QED
    BY <2>1, <2>2, HeldBefore
<1>5. ASSUME NEW k \in Keys, tasks'[k].status # "absent" PROVE tasks'[k].payload.ref # 0
  <2>1. CASE Renewed(k)
    BY <2>1 DEF Renewed, IssueFresh
  <2>2. CASE ~Renewed(k)
    BY <1>5, <2>2, RowStep DEF RowKept, Cancelled, Settled, Moved, NoTask, Present, RefsBelow, Status
  <2> QED
    BY <2>1, <2>2
<1> QED
  BY <1>1, <1>3, <1>4, <1>5 DEF RefsBelow, Present

(* ... of one user, ... *)
LEMMA RefsOwnedStep ==
  ASSUME TypeOK, RefsBelow, RefsOwned, [Next]_vars
  PROVE  RefsOwned'
<1> SUFFICES ASSUME NEW j \in Keys, NEW k \in Keys, NEW m \in Nat \ {0}, RefOf(j, m)', RefOf(k, m)'
             PROVE  j = k
  BY DEF RefsOwned
<1>1. \A i \in Keys : ~RefOf(i, nextMsg) /\ issue[i].msg # nextMsg
  BY DEF RefsBelow, RefOf, TypeOK, TelegramType
<1>2. CASE RefOf(j, m) /\ RefOf(k, m)
  BY <1>2 DEF RefsOwned
<1>3. CASE ~RefOf(j, m)
  <2>1. m = nextMsg /\ \A i \in Keys \ {j} : issue'[i] = issue[i]
    BY <1>3, RefBefore
  <2>2. issue'[k].msg = nextMsg
    BY <1>1, <2>1, RefBefore
  <2> QED
    BY <1>1, <2>1, <2>2
<1>4. CASE ~RefOf(k, m)
  <2>1. m = nextMsg /\ \A i \in Keys \ {k} : issue'[i] = issue[i]
    BY <1>4, RefBefore
  <2>2. issue'[j].msg = nextMsg
    BY <1>1, <2>1, RefBefore
  <2> QED
    BY <1>1, <2>1, <2>2
<1> QED
  BY <1>2, <1>3, <1>4

(* ... and new when they are enqueued. *)
LEMMA IssueFreshStep ==
  ASSUME TypeOK, RefsBelow, RefsOwned, IssueFresh, [Next]_vars
  PROVE  IssueFresh'
<1> SUFFICES ASSUME NEW k \in Keys
             PROVE  IF issue'[k].at \in {"set", "enqueue"}
                    THEN /\ issue'[k].msg # 0
                         /\ issue'[k].msg \notin withdrawn'
                         /\ issue'[k].msg # tasks'[k].payload.ref
                         /\ \A c \in Held' : c.key = k => c.payload.ref # issue'[k].msg
                    ELSE issue'[k].msg = 0
  BY DEF IssueFresh
<1>0. /\ nextMsg \in Nat \ {0}
      /\ issue[k].msg \in Nat
      /\ \A j \in Keys : tasks[j].payload.ref \in Nat
  BY DEF TypeOK, TelegramType, HandlerType, IssueState, StoreType, Task, Payload
<1>1. CASE /\ issue[k].at \in {"set", "enqueue"} /\ issue'[k].at \in {"set", "enqueue"}
           /\ issue'[k].msg = issue[k].msg
  <2>1. issue[k].msg \notin withdrawn'
    <3>1. issue[k].msg \notin withdrawn /\ issue[k].msg # 0 /\ issue[k].msg # tasks[k].payload.ref
      BY <1>1 DEF IssueFresh
    <3>2. ASSUME NEW j \in Keys PROVE tasks[j].payload.ref # issue[k].msg
      BY <1>0, <3>1 DEF RefsOwned, RefOf
    <3>3. \/ withdrawn' = withdrawn
          \/ \E j \in Keys : withdrawn' = withdrawn \cup {tasks[j].payload.ref}
      BY WithdrawnStep
    <3> QED
      BY <3>1, <3>2, <3>3
  <2>2. tasks'[k].payload.ref # issue[k].msg
    <3>1. ~Renewed(k)
      BY <1>1 DEF Renewed, IdleIssue
    <3> QED
      BY <1>1, <3>1, RowStep DEF IssueFresh, RowKept, Cancelled, Settled, Moved, NoTask
  <2>3. ASSUME NEW c \in Held', c.key = k PROVE c.payload.ref # issue[k].msg
    <3>1. CASE c \in Held
      BY <1>1, <2>3, <3>1 DEF IssueFresh
    <3>2. CASE ClaimBatch /\ c \in Claimed
      BY <1>1, <2>3, <3>2, ClaimRows DEF IssueFresh
    <3> QED
      BY <3>1, <3>2, HeldBefore
  <2> QED
    BY <1>1, <2>1, <2>2, <2>3 DEF IssueFresh
<1>2. CASE issue'[k].at = "set" /\ issue'[k].msg = nextMsg
  <2>1. \A j \in Keys : tasks[j].payload.ref < nextMsg
    BY <1>0 DEF RefsBelow, RefOf
  <2>2. nextMsg \notin withdrawn'
    <3>1. \A m \in withdrawn : m \in Nat /\ m < nextMsg
      BY DEF RefsBelow, TypeOK, BoundType
    <3>2. \/ withdrawn' = withdrawn
          \/ \E j \in Keys : withdrawn' = withdrawn \cup {tasks[j].payload.ref}
      BY WithdrawnStep
    <3> QED
      BY <1>0, <2>1, <3>1, <3>2
  <2>3. tasks'[k].payload.ref # nextMsg
    <3>1. issue[k].msg < nextMsg
      BY <1>0 DEF RefsBelow, RefOf
    <3> QED
      BY <1>0, <2>1, <3>1, RowStep DEF RowKept, Renewed, Cancelled, Settled, Moved, NoTask
  <2>4. ASSUME NEW c \in Held' PROVE c.payload.ref # nextMsg
    <3>1. CASE c \in Held
      <4>1. c.payload.ref \in Nat /\ c.key \in Keys
        BY <3>1 DEF Held, TypeOK, WorkerType, Claim, Payload
      <4> QED
        BY <1>0, <3>1, <4>1 DEF RefsBelow, RefOf
    <3>2. CASE ClaimBatch /\ c \in Claimed
      BY <1>0, <2>1, <3>2, ClaimRows
    <3> QED
      BY <3>1, <3>2, HeldBefore
  <2> QED
    BY <1>0, <1>2, <2>2, <2>3, <2>4
<1>3. CASE issue'[k] = IdleIssue
  BY <1>3 DEF IdleIssue
<1>4. CASE /\ issue[k].at \notin {"set", "enqueue"} /\ issue'[k].at \notin {"set", "enqueue"}
           /\ issue'[k].msg = issue[k].msg
  BY <1>4 DEF IssueFresh
<1> QED
  BY <1>1, <1>2, <1>3, <1>4, IssueMoves

(* A claim and its row part only by an enqueue over it, which contests it. *)
LEMMA ClaimRowStep ==
  ASSUME TypeOK, RowIds, ClaimIds, HeldOnce, RefsBelow, IssueFresh, ClaimRow, [Next]_vars
  PROVE  ClaimRow'
<1>0. contested \subseteq contested'
  BY ContestedStep
<1>1. ASSUME NEW c \in Claimed, ClaimBatch
      PROVE  tasks'[c.key].status = "running" /\ tasks'[c.key].payload = c.payload
  BY <1>1, ClaimRows
<1>2. ASSUME NEW c \in Held, c \in Held', NEW k \in Keys, k = c.key
      PROVE  /\ tasks'[k].status # "absent" /\ tasks'[k].id = c.id =>
                  \/ tasks'[k].status = "running" /\ tasks'[k].payload = c.payload
                  \/ tasks'[k].payload.ref \in contested'
             /\ tasks'[k].payload.ref = c.payload.ref => tasks'[k].status = "running"
  <2>0. /\ tasks[k].status # "absent" /\ tasks[k].id = c.id =>
             \/ tasks[k].status = "running" /\ tasks[k].payload = c.payload
             \/ tasks[k].payload.ref \in contested
        /\ tasks[k].payload.ref = c.payload.ref => tasks[k].status = "running"
        /\ c.payload.ref # 0
    BY <1>2 DEF ClaimRow, HasId, Present, RefsBelow
  <2>1. CASE RowKept(k)
    BY <1>0, <2>0, <2>1 DEF RowKept
  <2>2. CASE Renewed(k)
    <3>1. c.id \in Nat /\ c.id < nextId /\ nextId \in Nat
      BY DEF Held, TypeOK, WorkerType, StoreType, Claim, ClaimIds
    <3>2. ASSUME tasks'[k].id = c.id PROVE tasks'[k].payload.ref \in contested'
      <4>1. Present(k) /\ tasks[k].id = c.id
        BY <2>2, <3>1, <3>2 DEF Renewed
      <4>2. HeldRow(k)
        BY <1>2, <4>1 DEF HeldRow, Held
      <4> QED
        BY <2>2, <4>2, ContestedStep DEF Renewed
    <3>3. tasks'[k].payload.ref # c.payload.ref
      BY <1>2, <2>2 DEF Renewed, IssueFresh
    <3> QED
      BY <3>2, <3>3
  <2>3. CASE Cancelled(k)
    BY <1>0, <2>0, <2>3 DEF Cancelled, Moved
  <2>4. CASE ClaimBatch
    BY <1>2, <2>4 DEF ClaimBatch, Held
  <2>5. CASE Recover
    BY <1>2, <2>5 DEF Recover, HeldOnce
  <2>6. CASE Settled(k)
    <3>1. PICK d \in job : Settle(d) /\ HasId(k, d.id)
      BY <2>6 DEF Settled
    <3>2. d = c
      BY <1>2, <3>1 DEF ClaimIds, HeldOnce, Held
    <3>3. job' = {} /\ batch' = batch
      BY <3>1 DEF Settle
    <3> QED
      BY <1>2, <3>1, <3>2, <3>3 DEF HeldOnce, Held
  <2>7. CASE Cleanup /\ tasks'[k] = NoTask
    BY <2>0, <2>7 DEF NoTask
  <2> QED
    BY <2>1, <2>2, <2>3, <2>4, <2>5, <2>6, <2>7, RowStep
<1>3. \A c \in Held' : c.key \in Keys
  BY WorkerTypeStep DEF Held, WorkerType, Claim
<1> QED
  BY <1>1, <1>2, <1>3, HeldBefore DEF ClaimRow, HasId, Present

(* Withdrawn stays withdrawn: nothing claims or renews the prompt. *)
LEMMA WithdrawnRefsStep ==
  ASSUME TypeOK, ClaimIds, HeldOnce, RefsBelow, RefsOwned, IssueFresh, ClaimRow, WithdrawnRefs, [Next]_vars
  PROVE  WithdrawnRefs'
<1>0. contested \subseteq contested'
  BY ContestedStep
<1>1. ASSUME withdrawn' = withdrawn, NEW k \in Keys, tasks'[k].status \in {"pending", "running"},
             tasks'[k].payload.ref \in withdrawn
      PROVE  tasks'[k].payload.ref \in contested'
  <2>1. CASE Renewed(k)
    BY <1>1, <2>1 DEF Renewed, IssueFresh
  <2>2. CASE Settled(k)
    <3>1. PICK d \in job : HasId(k, d.id) /\ tasks'[k].payload = tasks[k].payload
      BY <2>2 DEF Settled, Moved
    <3>2. k = d.key /\ d \in Held
      BY <3>1 DEF ClaimIds, Held
    <3> QED
      BY <1>0, <1>1, <3>1, <3>2 DEF ClaimRow, WithdrawnRefs, Outstanding
  <2>3. CASE ~Renewed(k) /\ ~Settled(k)
    BY <1>0, <1>1, <2>3, RowStep DEF RowKept, Cancelled, Moved, NoTask, WithdrawnRefs, Outstanding
  <2> QED
    BY <2>1, <2>2, <2>3
<1>2. ASSUME NEW c \in Claimed, ClaimBatch, c.payload.ref \in withdrawn'
      PROVE  c.payload.ref \in contested'
  BY <1>0, <1>2, ClaimRows DEF ClaimBatch, history, WithdrawnRefs, Outstanding
<1>3. ASSUME withdrawn' = withdrawn, NEW c \in Held, c.payload.ref \in withdrawn
      PROVE  c.payload.ref \in contested'
  BY <1>0, <1>3 DEF WithdrawnRefs
<1>4. ASSUME NEW j \in Keys, tasks[j].status = "pending",
             withdrawn' = withdrawn \cup {tasks[j].payload.ref},
             tasks' = [tasks EXCEPT ![j].status = "cancelled", ![j].updatedAt = now]
      PROVE  /\ \A k \in Keys : tasks'[k].status \in {"pending", "running"}
                                  /\ tasks'[k].payload.ref \in withdrawn'
                                => tasks'[k].payload.ref \in contested'
             /\ \A c \in Held : c.payload.ref \in withdrawn' => c.payload.ref \in contested'
  <2>0. tasks \in [Keys -> Task] /\ tasks[j] \in Task
    BY DEF TypeOK, StoreType
  <2>1. tasks[j].payload.ref \in Nat \ {0} /\ RefOf(j, tasks[j].payload.ref)
    BY <1>4, <2>0 DEF RefsBelow, Present, RefOf, Task, Payload
  <2>2. tasks'[j].status = "cancelled" /\ \A k \in Keys \ {j} : tasks'[k] = tasks[k]
    BY <1>4, <2>0 DEF Task
  <2>3. \A k \in Keys \ {j} : tasks[k].payload.ref # tasks[j].payload.ref
    BY <2>1 DEF RefsOwned, RefOf
  <2>4. ASSUME NEW c \in Held PROVE c.payload.ref # tasks[j].payload.ref
    <3>1. c.key \in Keys
      BY DEF Held, TypeOK, WorkerType, Claim
    <3>2. c.payload.ref = tasks[j].payload.ref => c.key = j
      BY <2>1, <3>1 DEF RefsOwned, RefOf
    <3> QED
      BY <1>4, <3>2 DEF ClaimRow
  <2>5. ASSUME NEW k \in Keys, tasks'[k].status \in {"pending", "running"},
               tasks'[k].payload.ref \in withdrawn'
        PROVE  tasks'[k].payload.ref \in contested'
    <3>1. k # j
      BY <2>2, <2>5
    <3>2. tasks'[k] = tasks[k] /\ tasks[k].payload.ref # tasks[j].payload.ref
      BY <2>2, <2>3, <3>1
    <3>3. tasks[k].payload.ref \in withdrawn
      BY <1>4, <2>5, <3>2
    <3> QED
      BY <1>0, <2>5, <3>2, <3>3 DEF WithdrawnRefs, Outstanding
  <2>6. ASSUME NEW c \in Held, c.payload.ref \in withdrawn' PROVE c.payload.ref \in contested'
    BY <1>0, <1>4, <2>4, <2>6 DEF WithdrawnRefs
  <2> QED
    BY <2>5, <2>6
<1>5. CASE withdrawn' = withdrawn
  BY <1>1, <1>2, <1>3, <1>5, HeldBefore DEF WithdrawnRefs, Outstanding
<1>6. CASE withdrawn' # withdrawn
  BY <1>2, <1>4, <1>6, HeldBefore, WithdrawnStep DEF WithdrawnRefs, Outstanding
<1> QED
  BY <1>5, <1>6

----------------------------------------------------------------------------
(* What a step does to the memory of a captcha, ... *)
LEMMA MemMoves ==
  ASSUME TypeOK, [Next]_vars, NEW k \in Keys
  PROVE  \/ mem'[k] = mem[k]
         \/ Crash /\ mem'[k] = 0
         \/ ClickDelete(k) /\ mem'[k] = 0
         \/ mem'[k] = 0 /\ \E c \in job : ExpireDrop(c) /\ c.key = k
         \/ IssueSet(k) /\ mem'[k] = issue[k].msg
<1>0. mem \in [Keys -> Nat]
  BY DEF TypeOK, TelegramType
<1>1. CASE Crash
  BY <1>1 DEF Crash
<1>2. CASE \E j \in Keys : ClickDelete(j)
  BY <1>0, <1>2 DEF ClickDelete
<1>3. CASE \E c \in job : ExpireDrop(c)
  BY <1>0, <1>3 DEF ExpireDrop
<1>4. CASE \E j \in Keys : IssueSet(j)
  BY <1>0, <1>4 DEF IssueSet
<1>5. CASE /\ ~Crash /\ ~ \E j \in Keys : ClickDelete(j) \/ IssueSet(j)
           /\ ~ \E c \in job : ExpireDrop(c)
  BY <1>5 DEF Next, IssueStep, ClickStep, ExpireStep, Join, Leave, Press, IssueRestrict, IssueSend,
       IssueEnqueue, ClickGet, ClickCancel, ClickRestore, ClickEdit, Recover, ClaimBatch, Execute,
       ExpireCheck, ExpireLoad, ExpireUnprompt, ExpireBan, ExpireNotice, Settle, Cleanup, Restart,
       Tick, vars
<1> QED
  BY <1>1, <1>2, <1>3, <1>4, <1>5

(* ... to the button's handler, ... *)
LEMMA ClickMoves ==
  ASSUME TypeOK, [Next]_vars, NEW k \in Keys
  PROVE  click'[k] = click[k] \/ Crash \/ Press(k) \/ ClickStep(k)
<1>0. click \in [Keys -> ClickState]
  BY DEF TypeOK, HandlerType
<1>1. CASE \E j \in Keys : ClickStep(j)
  BY <1>0, <1>1 DEF ClickStep, ClickGet, ClickCancel, ClickDelete, ClickRestore, ClickEdit
<1>2. CASE \E j \in Keys : Press(j)
  BY <1>0, <1>2 DEF Press
<1>3. CASE ~ \E j \in Keys : ClickStep(j) \/ Press(j)
  BY <1>3 DEF Next, IssueStep, ExpireStep, Join, Leave, IssueRestrict, IssueSend, IssueSet,
       IssueEnqueue, Recover, ClaimBatch, Execute, ExpireCheck, ExpireLoad, ExpireDrop,
       ExpireUnprompt, ExpireBan, ExpireNotice, Settle, Cleanup, Restart, Tick, vars, handlers
<1> QED
  BY <1>1, <1>2, <1>3

(* ... to a member, ... *)
LEMMA MemberMoves ==
  ASSUME TypeOK, [Next]_vars, NEW k \in Keys
  PROVE  \/ member'[k] = member[k]
         \/ member'[k] \in {"free", "out"}
         \/ IssueRestrict(k)
         \/ member'[k] = "banned" /\ \E c \in job : ExpireBan(c) /\ c.key = k
<1>0. member \in [Keys -> {"out", "free", "restricted", "banned"}]
  BY DEF TypeOK, TelegramType
<1>1. CASE \E j \in Keys : Join(j) \/ Leave(j) \/ IssueRestrict(j) \/ ClickRestore(j)
  BY <1>0, <1>1 DEF Join, Leave, IssueRestrict, ClickRestore
<1>2. CASE \E c \in job : ExpireBan(c)
  BY <1>0, <1>2 DEF ExpireBan
<1>3. CASE /\ ~ \E j \in Keys : Join(j) \/ Leave(j) \/ IssueRestrict(j) \/ ClickRestore(j)
           /\ ~ \E c \in job : ExpireBan(c)
  BY <1>3 DEF Next, IssueStep, ClickStep, ExpireStep, Press, IssueSend, IssueSet,
       IssueEnqueue, ClickGet, ClickCancel, ClickDelete, ClickEdit, Recover, ClaimBatch, Execute,
       ExpireCheck, ExpireLoad, ExpireDrop, ExpireUnprompt, ExpireNotice, Settle, Cleanup, Crash,
       Restart, Tick, vars, telegram
<1> QED
  BY <1>1, <1>2, <1>3

(* ... and to the claim being executed. *)
Expiring(c) ==
  \/ ExpireCheck(c) \/ ExpireLoad(c) \/ ExpireDrop(c) \/ ExpireUnprompt(c)
  \/ ExpireBan(c) \/ ExpireNotice(c)

(* It is started, goes on, or takes one step of the expiry. *)
LEMMA JobMoves ==
  ASSUME HeldOnce, [Next]_vars, NEW c \in job'
  PROVE  \/ step' = "check"
         \/ c \in job /\ job' = job /\ step' = step
         \/ c \in job /\ job' = job /\ Expiring(c)
<1>1. CASE Execute
  BY <1>1 DEF Execute
<1>2. CASE ExpireStep
  <2>1. PICK d \in job : Expiring(d) \/ Settle(d)
    BY <1>2 DEF ExpireStep, Expiring
  <2>2. CASE Settle(d)
    BY <2>2 DEF Settle
  <2>3. CASE Expiring(d)
    <3>1. job' = job
      BY <2>3 DEF Expiring, ExpireCheck, ExpireLoad, ExpireDrop, ExpireUnprompt, ExpireBan, ExpireNotice
    <3> QED
      BY <2>3, <3>1 DEF HeldOnce
  <2> QED
    BY <2>1, <2>2, <2>3
<1>3. CASE Crash \/ ClaimBatch
  BY <1>3 DEF Crash, ClaimBatch
<1>4. CASE ~Execute /\ ~ExpireStep /\ ~Crash /\ ~ClaimBatch
  BY ZenonT(40), <1>4 DEF Next, IssueStep, ClickStep, Join, Leave, Press, IssueRestrict, IssueSend, IssueSet,
       IssueEnqueue, ClickGet, ClickCancel, ClickDelete, ClickRestore, ClickEdit, Recover,
       Cleanup, Restart, Tick, vars, worker
<1> QED
  BY <1>1, <1>2, <1>3, <1>4

(* A step after which no call has failed, or no crash happened, was neither. *)
LEMMA Calm ==
  ASSUME TypeOK, [Next]_vars
  PROVE  /\ faults' = 0 => faults = 0 /\ ~Fails
         /\ crashes' = 0 => crashes = 0 /\ ~Crash
<1>0. faults \in Nat /\ crashes \in Nat
  BY DEF TypeOK, BoundType
<1>1. Fails => faults' = faults + 1
  BY DEF Fails
<1>2. Crash => crashes' = crashes + 1
  BY DEF Crash
<1>3. faults' = faults \/ Fails
  BY DEF Next, IssueStep, ClickStep, ExpireStep, Join, Leave, Press, IssueRestrict, IssueSend,
       IssueSet, IssueEnqueue, ClickGet, ClickCancel, ClickDelete, ClickRestore, ClickEdit, Recover,
       ClaimBatch, Execute, ExpireCheck, ExpireLoad, ExpireDrop, ExpireUnprompt, ExpireBan,
       ExpireNotice, Settle, Cleanup, Crash, Restart, Tick, vars, Works, bounds
<1>4. crashes' = crashes \/ Crash
  BY ZenonT(40) DEF Next, IssueStep, ClickStep, ExpireStep, Join, Leave, Press, IssueRestrict, IssueSend,
       IssueSet, IssueEnqueue, ClickGet, ClickCancel, ClickDelete, ClickRestore, ClickEdit, Recover,
       ClaimBatch, Execute, ExpireCheck, ExpireLoad, ExpireDrop, ExpireUnprompt, ExpireBan,
       ExpireNotice, Settle, Cleanup, Restart, Tick, vars, Works, Fails, bounds
<1>5. faults' = 0 => ~Fails
  BY <1>0, <1>1
<1>6. crashes' = 0 => ~Crash
  BY <1>0, <1>2
<1> QED
  BY <1>3, <1>4, <1>5, <1>6

----------------------------------------------------------------------------
(* The memory of a prompt that is being enqueued. *)
LEMMA EnqueuedStep ==
  ASSUME TypeOK, Enqueued, [Next]_vars
  PROVE  Enqueued'
<1> SUFFICES ASSUME NEW k \in Keys, issue'[k].at = "enqueue"
             PROVE  mem'[k] \in {0, issue'[k].msg}
  BY DEF Enqueued
<1>1. CASE IssueSet(k)
  <2>1. mem'[k] = issue[k].msg /\ issue[k].at = "set"
    BY <1>1 DEF IssueSet, TypeOK, TelegramType
  <2> QED
    BY <2>1, IssueMoves DEF IdleIssue
<1>2. CASE ~IssueSet(k)
  BY <1>2, IssueMoves, MemMoves DEF Enqueued, IdleIssue
<1> QED
  BY <1>1, <1>2

(* An expiry finds its own prompt in memory before its check or not at all. *)
LEMMA PastLookStep ==
  ASSUME TypeOK, HeldOnce, RefsBelow, IssueFresh, PastLook, [Next]_vars
  PROVE  PastLook'
<1> SUFFICES ASSUME NEW c \in job', step' \notin {"check", "load", "drop"}
             PROVE  mem'[c.key] # c.payload.ref
  BY DEF PastLook
<1>1. c \in job
  BY JobMoves
<1>2. c.key \in Keys /\ c.payload.ref # 0 /\ c \in Held
  BY <1>1 DEF TypeOK, WorkerType, Claim, RefsBelow, Held
<1>3. CASE step' = step
  BY <1>1, <1>2, <1>3, MemMoves DEF PastLook, IssueSet, IssueFresh
<1>4. CASE ExpireCheck(c) \/ ExpireLoad(c)
  BY <1>1, <1>2, <1>4 DEF ExpireCheck, ExpireLoad
<1>5. CASE ExpireDrop(c)
  BY <1>2, <1>5 DEF ExpireDrop, TypeOK, TelegramType
<1>6. CASE ExpireUnprompt(c) \/ ExpireBan(c) \/ ExpireNotice(c)
  BY <1>1, <1>6 DEF ExpireUnprompt, ExpireBan, ExpireNotice, At, PastLook
<1> QED
  BY <1>3, <1>4, <1>5, <1>6, JobMoves DEF Expiring

(* A newer prompt is seen at the check, or overtakes the expiry. *)
LEMMA NotHastyStep ==
  ASSUME TypeOK, HeldOnce, NotHasty, [Next]_vars
  PROVE  NotHasty'
<1> SUFFICES ASSUME NEW c \in job'
             PROVE  /\ step' = "load" => mem'[c.key] \in {0, c.payload.ref} \/ c.key \in overtaken'
                    /\ step' \in {"unprompt", "ban"} => mem'[c.key] = 0 \/ c.key \in overtaken'
  BY DEF NotHasty
<1>0. overtaken \subseteq overtaken'
  BY DEF Next, IssueStep, ClickStep, ExpireStep, Join, Leave, Press, IssueRestrict, IssueSend,
       IssueSet, IssueEnqueue, ClickGet, ClickCancel, ClickDelete, ClickRestore, ClickEdit, Recover,
       ClaimBatch, Execute, ExpireCheck, ExpireLoad, ExpireDrop, ExpireUnprompt, ExpireBan,
       ExpireNotice, Settle, Cleanup, Crash, Restart, Tick, vars, history
<1>1. CASE step' = "check"
  BY <1>1
<1>2. CASE c \in job /\ step' = step /\ step # "check"
  <2>1. c.key \in Keys
    BY <1>2 DEF TypeOK, WorkerType, Claim
  <2>2. CASE IssueSet(c.key)
    BY <1>2, <2>1, <2>2 DEF IssueSet, PastCheck
  <2>3. CASE ~IssueSet(c.key)
    BY <1>0, <1>2, <2>1, <2>3, MemMoves DEF NotHasty
  <2> QED
    BY <2>2, <2>3
<1>3. CASE c \in job /\ (ExpireCheck(c) \/ ExpireLoad(c))
  BY <1>0, <1>3 DEF ExpireCheck, ExpireLoad, At, NotHasty
<1>4. CASE c \in job /\ ExpireDrop(c)
  BY <1>4 DEF ExpireDrop, TypeOK, TelegramType, WorkerType, Claim
<1>5. CASE c \in job /\ (ExpireUnprompt(c) \/ ExpireBan(c) \/ ExpireNotice(c))
  BY <1>0, <1>5 DEF ExpireUnprompt, ExpireBan, ExpireNotice, At, NotHasty
<1> QED
  BY <1>1, <1>2, <1>3, <1>4, <1>5, JobMoves DEF Expiring

(* A settled row was about another prompt than the one in memory. *)
LEMMA SettledElse ==
  ASSUME ClaimIds, ClaimRow, PastLook, NEW k \in Keys, Settled(k)
  PROVE  tasks[k].payload.ref # mem[k] \/ mem[k] \in contested
<1>1. PICK d \in job : Settle(d) /\ HasId(k, d.id)
  BY DEF Settled
<1>2. k = d.key /\ d \in Held
  BY <1>1 DEF ClaimIds, Held
<1>3. mem[k] # d.payload.ref
  BY <1>1, <1>2 DEF Settle, PastLook
<1> QED
  BY <1>1, <1>2, <1>3 DEF ClaimRow

(* What a press or the worker takes from the table is gone from memory. *)
LEMMA BackedStep ==
  ASSUME TypeOK, ClaimIds, ClaimRow, Enqueued, PastLook, Backed, [Next]_vars
  PROVE  Backed'
<1> SUFFICES ASSUME NEW k \in Keys, faults' = 0, mem'[k] # 0, mem'[k] \notin contested',
                    click'[k].at # "delete", issue'[k].at # "enqueue"
             PROVE  tasks'[k].status \in {"pending", "running"} /\ tasks'[k].payload.ref = mem'[k]
  BY DEF Backed, Outstanding
<1>0. faults = 0 /\ ~Fails
  BY Calm
<1>1. mem'[k] = mem[k]
  <2>1. ~IssueSet(k)
    BY DEF IssueSet, TypeOK, HandlerType, IssueState
  <2> QED
    BY <2>1, MemMoves
<1>2. mem[k] # 0 /\ mem[k] \notin contested
  BY <1>1, ContestedStep
<1>3. ~Crash /\ ~ClickDelete(k)
  BY <1>1, <1>2 DEF Crash, ClickDelete, TypeOK, TelegramType
<1>4. click[k].at # "delete"
  <2>1. CASE Press(k)
    BY <2>1 DEF Press, IdleClick
  <2>2. CASE ClickStep(k)
    BY <1>3, <2>2 DEF ClickStep, ClickGet, ClickCancel, ClickRestore, ClickEdit
  <2> QED
    BY <1>3, <2>1, <2>2, ClickMoves
<1>5. CASE issue[k].at = "enqueue"
  <2>1. IssueEnqueue(k)
    <3>1. issue'[k] # issue[k]
      BY <1>5
    <3> QED
      BY <1>0, <1>3, <1>5, <3>1, IssueMoves
  <2>2. EnqueueTask(k, [ref |-> issue[k].msg, at |-> issue[k].expires], issue[k].expires)
    BY <1>0, <2>1 DEF IssueEnqueue
  <2>3. tasks'[k].status = "pending" /\ tasks'[k].payload.ref = issue[k].msg
    BY <2>2 DEF EnqueueTask, TypeOK, StoreType
  <2> QED
    BY <1>1, <1>2, <1>5, <2>3 DEF Enqueued
<1>6. CASE issue[k].at # "enqueue"
  <2>1. tasks[k].status \in {"pending", "running"} /\ tasks[k].payload.ref = mem[k]
    BY <1>0, <1>2, <1>4, <1>6 DEF Backed, Outstanding
  <2>2. ~Settled(k) /\ ~Renewed(k) /\ ~Cancelled(k)
    BY <1>2, <1>6, <2>1, SettledElse DEF Renewed, Cancelled
  <2> QED
    BY <1>1, <2>1, <2>2, RowStep DEF RowKept, Moved
<1> QED
  BY <1>5, <1>6

(* A user restrained after a step with the join handler idle or done with   *)
(* remembering was so before it.                                            *)
LEMMA RestrainedBefore ==
  ASSUME TypeOK, [Next]_vars, NEW k \in Keys, Restrained(k)',
         issue'[k].at \in {"idle", "enqueue"}
  PROVE  Restrained(k) /\ ~Fails /\ ~Crash /\ ~ClickDelete(k)
<1>1. ~Fails /\ ~Crash /\ Undisturbed
  BY Calm DEF Restrained, Undisturbed
<1>2. member'[k] = "restricted" /\ click'[k].at \notin {"delete", "restore"}
  BY DEF Restrained
<1>3. member[k] = "restricted"
  <2>1. ~IssueRestrict(k)
    BY DEF IssueRestrict, TypeOK, HandlerType, IssueState
  <2> QED
    BY <1>2, <2>1, MemberMoves
<1>4. ~ClickDelete(k)
  BY <1>2 DEF ClickDelete, TypeOK, HandlerType, ClickState
<1>5. click[k].at \notin {"delete", "restore"}
  <2>1. CASE click'[k] = click[k]
    BY <1>2, <2>1
  <2>2. CASE Press(k)
    BY <2>2 DEF Press, IdleClick
  <2>3. CASE ClickRestore(k)
    BY <1>1, <1>2, <1>3, <2>3 DEF ClickRestore, TypeOK, TelegramType
  <2>4. CASE ClickGet(k) \/ ClickCancel(k) \/ ClickEdit(k)
    BY <2>4 DEF ClickGet, ClickCancel, ClickEdit
  <2> QED
    BY <1>1, <1>4, <2>1, <2>2, <2>3, <2>4, ClickMoves DEF ClickStep
<1> QED
  BY <1>1, <1>3, <1>4, <1>5 DEF Restrained

(* The worker that dropped a captcha goes on to the ban. *)
LEMMA ForgottenStep ==
  ASSUME TypeOK, HeldOnce, IssueFresh, Forgotten, [Next]_vars
  PROVE  Forgotten'
<1> SUFFICES ASSUME NEW k \in Keys, Restrained(k)', issue'[k].at \in {"idle", "enqueue"}, mem'[k] = 0
             PROVE  step' \in {"unprompt", "ban"} /\ \E c \in job' : c.key = k
  BY DEF Forgotten, Restrained, Undisturbed
<1>1. Restrained(k) /\ ~Fails /\ ~Crash /\ ~ClickDelete(k)
  BY RestrainedBefore
<1>2. ~IssueSet(k)
  BY DEF IssueSet, IssueFresh, TypeOK, TelegramType
<1>3. CASE \E c \in job : ExpireDrop(c) /\ c.key = k
  BY <1>3 DEF ExpireDrop
<1>4. CASE mem'[k] = mem[k]
  <2>1. issue[k].at \in {"idle", "enqueue"}
    <3>1. ~IssueSend(k) \/ issue'[k] # IdleIssue \/ issue[k].at = "enqueue"
      BY <1>1 DEF IssueSend, TypeOK, HandlerType, IdleIssue, IssueState
    <3> QED
      BY <1>1, <1>2, <3>1, IssueMoves DEF IssueEnqueue
  <2>2. PICK c \in job : c.key = k /\ step \in {"unprompt", "ban"}
    BY <1>1, <1>4, <2>1 DEF Forgotten
  <2>3. ~ClaimBatch /\ ~Execute /\ ~ \E d \in job : Settle(d)
    BY <2>2 DEF ClaimBatch, Execute, Settle
  <2>4. job' = job
    BY <1>1, <2>3, HeldStep DEF HeldKept, Started, Released
  <2>5. c \in job'
    BY <2>4
  <2>6. step' # "check" \/ step' = step
    BY <1>1, <2>2, <2>3 DEF Next, IssueStep, ClickStep, ExpireStep, Join, Leave, Press, IssueRestrict,
       IssueSend, IssueSet, IssueEnqueue, ClickGet, ClickCancel, ClickDelete, ClickRestore, ClickEdit,
       Recover, ExpireCheck, ExpireLoad, ExpireDrop, ExpireUnprompt, ExpireBan, ExpireNotice, Cleanup,
       Restart, Tick, vars, worker
  <2>7. CASE step' = step
    BY <2>2, <2>5, <2>7
  <2>8. CASE Expiring(c)
    <3>1. CASE ExpireUnprompt(c)
      BY <1>1, <2>2, <2>5, <3>1 DEF ExpireUnprompt
    <3>2. CASE ExpireBan(c)
      <4>1. member'[k] = "banned"
        BY <1>1, <2>2, <3>2 DEF ExpireBan, TypeOK, TelegramType
      <4> QED
        BY <4>1 DEF Restrained
    <3>3. CASE ExpireCheck(c) \/ ExpireLoad(c) \/ ExpireDrop(c) \/ ExpireNotice(c)
      BY <2>2, <3>3 DEF ExpireCheck, ExpireLoad, ExpireDrop, ExpireNotice, At
    <3> QED
      BY <2>8, <3>1, <3>2, <3>3 DEF Expiring
  <2> QED
    BY <2>2, <2>5, <2>6, <2>7, <2>8, JobMoves
<1> QED
  BY <1>1, <1>2, <1>3, <1>4, MemMoves

(* A row that is settled was about an older prompt, or its user is banned. *)
LEMMA EndingStep ==
  ASSUME TypeOK, ClaimIds, HeldOnce, ClaimRow, PastLook, Backed, Forgotten, Ending, [Next]_vars
  PROVE  Ending'
<1> SUFFICES ASSUME NEW k \in Keys, Restrained(k)', issue'[k].at = "idle"
             PROVE  \/ tasks'[k].status \in {"pending", "running"}
                    \/ mem'[k] \in contested' /\ \A c \in Held' : c.key # k
  BY DEF Ending, Outstanding, Restrained, Undisturbed
<1>1. Restrained(k) /\ ~Fails /\ ~Crash /\ ~ClickDelete(k)
  BY RestrainedBefore
<1>2. ~Cancelled(k)
  BY DEF Cancelled, Restrained
<1>3. CASE IssueEnqueue(k)
  <2>1. EnqueueTask(k, [ref |-> issue[k].msg, at |-> issue[k].expires], issue[k].expires)
    BY <1>1, <1>3 DEF IssueEnqueue
  <2> QED
    BY <2>1 DEF EnqueueTask, TypeOK, StoreType
<1>4. CASE ~IssueEnqueue(k)
  <2>1. issue[k].at = "idle" /\ ~Renewed(k)
    BY <1>1, <1>4, IssueMoves DEF IdleIssue, Renewed
  <2>2. ~IssueSet(k)
    BY <2>1 DEF IssueSet
  <2>3. CASE Outstanding(k) /\ ~Settled(k)
    BY <1>2, <2>1, <2>3, RowStep DEF Outstanding, RowKept, Moved
  <2>4. CASE Outstanding(k) /\ Settled(k)
    <3>1. PICK d \in job : Settle(d) /\ HasId(k, d.id)
      BY <2>4 DEF Settled
    <3>2. mem[k] # 0
      BY <1>1, <2>1, <3>1 DEF Forgotten, Settle
    <3>3. mem[k] \in contested
      BY <1>1, <2>1, <2>4, <3>2, SettledElse DEF Backed, Restrained, Undisturbed
    <3>4. mem'[k] = mem[k] /\ job' = {} /\ batch' = batch
      BY <3>1 DEF Settle
    <3>5. k = d.key
      BY <3>1 DEF ClaimIds, Held
    <3>6. \A c \in batch : c.key # k
      BY <3>5 DEF HeldOnce, Held
    <3> QED
      BY <3>3, <3>4, <3>6, ContestedStep DEF Held
  <2>5. CASE ~Outstanding(k)
    <3>1. mem[k] \in contested /\ \A c \in Held : c.key # k
      BY <1>1, <2>1, <2>5 DEF Ending
    <3>2. mem'[k] = mem[k]
      BY <1>1, <2>2, <3>1, MemMoves DEF Held
    <3>3. CASE Held' \subseteq Held
      BY <3>1, <3>2, <3>3, ContestedStep
    <3>4. CASE ClaimBatch /\ Held' = Claimed
      BY <2>5, <3>1, <3>2, <3>4, ClaimRows, ContestedStep DEF Outstanding
    <3> QED
      BY <3>3, <3>4, HeldBefore
  <2> QED
    BY <2>3, <2>4, <2>5
<1> QED
  BY <1>3, <1>4

----------------------------------------------------------------------------
(* The one prompt of an undisturbed run with a single join. *)
(* It was undisturbed, with no more joins, before the step too. *)
LEMMA SingleBefore ==
  ASSUME TypeOK, [Next]_vars, Single'
  PROVE  /\ Single /\ ~Fails /\ ~Crash
         /\ joins' = 0 => joins = 0
         /\ (\E k \in Keys : Join(k)) => joins = 0
<1>0. joins \in Nat
  BY DEF TypeOK, BoundType
<1>1. ~Fails /\ ~Crash /\ Undisturbed
  BY Calm DEF Single, Undisturbed
<1>2. CASE \E k \in Keys : Join(k)
  BY <1>0, <1>1, <1>2 DEF Join, Single
<1>3. CASE ~ \E k \in Keys : Join(k)
  <2>1. joins' = joins
    BY <1>1, <1>3 DEF Next, IssueStep, ClickStep, ExpireStep, Leave, Press, IssueRestrict, IssueSend,
       IssueSet, IssueEnqueue, ClickGet, ClickCancel, ClickDelete, ClickRestore, ClickEdit, Recover,
       ClaimBatch, Execute, ExpireCheck, ExpireLoad, ExpireDrop, ExpireUnprompt, ExpireBan,
       ExpireNotice, Settle, Cleanup, Restart, Tick, vars, Works, bounds
  <2> QED
    BY <1>1, <1>3, <2>1 DEF Single
<1> QED
  BY <1>2, <1>3

(* The join was under way, or had yet to come, before the step too. *)
LEMMA EarlyBefore ==
  ASSUME TypeOK, OneJoin, [Next]_vars, Single', Early'
  PROVE  Early
<1>1. CASE joins' = 0
  BY <1>1, SingleBefore DEF Early
<1>2. ASSUME NEW k \in Keys, issue'[k].at # "idle" PROVE Early
  <2>1. issue[k].at # "idle" \/ Join(k)
    BY <1>2, IssueMoves DEF IdleIssue, IssueRestrict
  <2> QED
    BY <2>1, SingleBefore DEF Early
<1> QED
  BY <1>1, <1>2 DEF Early

(* The join ends by enqueueing the only row. *)
LEMMA OneJoinStep ==
  ASSUME TypeOK, OneJoin, [Next]_vars, Single'
  PROVE  OneJoin'
<1>0. /\ Single /\ ~Fails /\ ~Crash
      /\ joins' = 0 => joins = 0
      /\ \A k \in Keys : Join(k) => joins = 0
  BY SingleBefore
<1>1. ASSUME NEW k \in Keys, issue'[k].at # "idle" PROVE issue[k].at # "idle" \/ Join(k)
  BY <1>1, IssueMoves DEF IdleIssue, IssueRestrict
<1>2. ASSUME NEW j \in Keys, NEW k \in Keys, issue'[j].at # "idle", issue'[k].at # "idle"
      PROVE  j = k
  <2>1. CASE joins = 0
    <3>1. Join(j) /\ Join(k)
      BY <1>0, <1>1, <1>2, <2>1 DEF OneJoin
    <3> QED
      BY <1>0, <1>2, <2>1, <3>1 DEF Join, OneJoin, TypeOK, HandlerType
  <2>2. CASE joins # 0
    BY <1>0, <1>1, <1>2, <2>2 DEF OneJoin
  <2> QED
    BY <2>1, <2>2
<1>3. ASSUME joins' = 0, NEW k \in Keys PROVE issue'[k].at = "idle"
  <2>1. ~ Join(k)
    BY <1>3 DEF Join, TypeOK, BoundType
  <2> QED
    BY <1>0, <1>1, <1>3, <2>1 DEF OneJoin
<1>4. ASSUME Early' PROVE Held' = {} /\ \A k \in Keys : tasks'[k].status = "absent"
  <2>1. Held = {} /\ \A k \in Keys : tasks[k].status = "absent"
    BY <1>0, <1>4, EarlyBefore DEF OneJoin, Present
  <2>2. ~ClaimBatch
    BY <2>1 DEF ClaimBatch, Due
  <2>3. ASSUME NEW k \in Keys PROVE ~Renewed(k)
    <3>1. SUFFICES ASSUME Renewed(k) PROVE FALSE
      OBVIOUS
    <3>2. joins # 0 /\ issue[k].at # "idle" /\ issue'[k].at = "idle"
      BY <1>0, <3>1 DEF Renewed, OneJoin, IdleIssue
    <3>3. joins' # 0
      BY <1>0, <3>2
    <3>4. PICK j \in Keys : issue'[j].at # "idle"
      BY <1>4, <3>3 DEF Early
    <3>5. issue[j].at # "idle"
      BY <1>0, <1>1, <3>2, <3>4
    <3> QED
      BY <1>0, <3>2, <3>4, <3>5 DEF OneJoin
  <2>4. ASSUME NEW k \in Keys PROVE tasks'[k].status = "absent"
    BY <2>1, <2>3, RowStep DEF RowKept, Cancelled, Settled, Moved, NoTask, Status
  <2> QED
    BY <2>1, <2>2, <2>4, HeldBefore
<1> QED
  BY <1>2, <1>3, <1>4 DEF OneJoin, Present

(* Nothing but the join sends a message before its prompt. *)
LEMMA FirstMsgStep ==
  ASSUME TypeOK, OneJoin, FirstMsg, [Next]_vars, Single'
  PROVE  FirstMsg'
<1>0. /\ Single /\ ~Fails /\ ~Crash
      /\ joins' = 0 => joins = 0
      /\ \A k \in Keys : Join(k) => joins = 0
  BY SingleBefore
<1> SUFFICES ASSUME NoneSent' PROVE prompts' = {} /\ nextMsg' = 1
  BY DEF FirstMsg
<1>1. NoneSent
  BY <1>0, IssueMoves DEF NoneSent, IdleIssue, IssueRestrict
<1>2. prompts = {} /\ nextMsg = 1 /\ Held = {}
  BY <1>0, <1>1 DEF FirstMsg, OneJoin, NoneSent, Early
<1>3. ASSUME NEW j \in Keys, IssueSend(j) PROVE FALSE
  <2>1. issue[j].at = "send" /\ joins # 0
    BY <1>0, <1>3 DEF IssueSend, OneJoin
  <2>2. PICK k \in Keys : issue'[k].at \in {"restrict", "send"}
    BY <1>0, <2>1 DEF NoneSent
  <2>3. issue[k].at # "idle"
    BY <1>0, <2>1, <2>2, IssueMoves DEF IdleIssue, IssueRestrict
  <2>4. j = k
    BY <1>0, <2>1, <2>3 DEF OneJoin
  <2>5. issue'[j].at = "set"
    BY <1>0, <1>3 DEF IssueSend, TypeOK, HandlerType, IssueState
  <2> QED
    BY <2>2, <2>4, <2>5
<1>4. ~ExpireStep
  BY <1>2 DEF ExpireStep, Held
<1>5. prompts' \subseteq prompts /\ nextMsg' = nextMsg
  BY <1>3, <1>4 DEF Next, IssueStep, ClickStep, Join, Leave, Press, IssueRestrict, IssueSet, IssueEnqueue,
     ClickGet, ClickCancel, ClickDelete, ClickRestore, ClickEdit, Recover, ClaimBatch, Execute, Cleanup,
     Crash, Restart, Tick, vars, telegram
<1> QED
  BY <1>2, <1>5

(* A new prompt is that of the join. *)
LEMMA PromptsStep ==
  ASSUME TypeOK, OneJoin, FirstMsg, [Next]_vars, Single', NEW p \in prompts', p \notin prompts
  PROVE  /\ p.msg = 1 /\ p.user \in Keys
         /\ issue[p.user].at = "send" /\ issue'[p.user].at = "set" /\ Held = {}
<1>1. PICK k \in Keys : IssueSend(k)
  BY DEF Next, IssueStep, ClickStep, ExpireStep, Join, Leave, Press, IssueRestrict, IssueSet,
     IssueEnqueue, ClickGet, ClickCancel, ClickDelete, ClickRestore, ClickEdit, Recover, ClaimBatch,
     Execute, ExpireCheck, ExpireLoad, ExpireDrop, ExpireUnprompt, ExpireBan, ExpireNotice, Settle,
     Cleanup, Crash, Restart, Tick, vars, telegram
<1>2. Single /\ ~Fails
  BY SingleBefore
<1>3. issue[k].at = "send"
  BY <1>1 DEF IssueSend
<1>4. nextMsg = 1 /\ Held = {}
  BY <1>2, <1>3 DEF FirstMsg, NoneSent, OneJoin, Early
<1>5. p = [user |-> k, msg |-> nextMsg] /\ issue' = [issue EXCEPT ![k].at = "set", ![k].msg = nextMsg]
  BY <1>1, <1>2 DEF IssueSend
<1>6. p.user = k /\ p.msg = nextMsg
  BY <1>5
<1>7. issue'[k].at = "set"
  BY <1>5 DEF TypeOK, HandlerType, IssueState
<1> QED
  BY <1>3, <1>4, <1>6, <1>7

(* Everything refers to it. *)
LEMMA OneMsgStep ==
  ASSUME TypeOK, OneJoin, FirstMsg, IssueFresh, OneMsg, [Next]_vars, Single'
  PROVE  OneMsg'
<1>0. Single /\ ~Fails /\ ~Crash
  BY SingleBefore
<1>1. ASSUME NEW k \in Keys PROVE mem'[k] \in {0, 1} /\ issue'[k].msg \in {0, 1}
  <2>1. mem'[k] \in {0, 1}
    BY <1>0, MemMoves DEF OneMsg
  <2>2. IssueSend(k) => nextMsg = 1
    BY <1>0 DEF IssueSend, FirstMsg, NoneSent
  <2>3. issue'[k].msg \in {0, 1}
    BY <1>0, <2>2, IssueMoves DEF OneMsg, IdleIssue
  <2> QED
    BY <2>1, <2>3
<1>2. ASSUME NEW k \in Keys, tasks'[k].status # "absent" PROVE tasks'[k].payload.ref = 1
  <2>1. Renewed(k) => issue[k].msg = 1
    BY <1>0 DEF Renewed, IssueFresh, OneMsg
  <2> QED
    BY <1>0, <1>2, <2>1, RowStep DEF RowKept, Renewed, Cancelled, Settled, Moved, NoTask, OneMsg,
       Present, Status
<1>3. ASSUME NEW c \in Held' PROVE c.payload.ref = 1
  <2>1. CASE c \in Held
    BY <1>0, <2>1 DEF OneMsg
  <2>2. CASE ClaimBatch /\ c \in Claimed
    BY <1>0, <2>2, ClaimRows DEF OneMsg, Present
  <2> QED
    BY <2>1, <2>2, HeldBefore
<1>4. ASSUME NEW k \in Keys, click'[k].at # "idle" PROVE click'[k].msg = 1
  <2>0. click \in [Keys -> ClickState] /\ click[k] \in ClickState
    BY DEF TypeOK, HandlerType
  <2>1. CASE click'[k] = click[k]
    BY <1>0, <1>4, <2>1 DEF OneMsg
  <2>2. CASE Press(k)
    <3>1. PICK p \in prompts : click' = [click EXCEPT ![k].at = "get", ![k].msg = p.msg]
      BY <2>2 DEF Press
    <3>2. p.msg = 1
      BY <1>0 DEF OneMsg
    <3> QED
      BY <2>0, <3>1, <3>2 DEF ClickState
  <2>3. CASE ClickStep(k)
    <3>1. click[k].at # "idle"
      BY <2>3 DEF ClickStep, ClickGet, ClickCancel, ClickDelete, ClickRestore, ClickEdit
    <3>2. click[k].msg = 1
      BY <1>0, <3>1 DEF OneMsg
    <3>3. CASE ClickGet(k)
      <4>1. PICK b \in BOOLEAN : b = (mem[k] # 0)
        OBVIOUS
      <4>2. click' = [click EXCEPT ![k] = [click[k] EXCEPT !.at = "cancel", !.pending = b]]
        BY <2>0, <3>3, <4>1 DEF ClickGet
      <4>3. click'[k].msg = click[k].msg
        BY <2>0, <4>2 DEF ClickState
      <4> QED
        BY <3>2, <4>3
    <3>4. CASE ClickCancel(k)
      <4>1. click'[k] = IdleClick \/ click'[k] = [click[k] EXCEPT !.at = "delete"]
        BY <2>0, <3>4 DEF ClickCancel
      <4>2. [click[k] EXCEPT !.at = "delete"].msg = click[k].msg
        BY <2>0 DEF ClickState
      <4>3. click'[k] # IdleClick
        BY <1>4 DEF IdleClick
      <4>4. click'[k].msg = click[k].msg
        BY <4>1, <4>2, <4>3
      <4> QED
        BY <3>2, <4>4
    <3>5. CASE ClickDelete(k) \/ ClickRestore(k)
      BY <2>0, <3>2, <3>5 DEF ClickDelete, ClickRestore, ClickState
    <3>6. CASE ClickEdit(k)
      BY <1>4, <2>0, <3>6 DEF ClickEdit, IdleClick
    <3> QED
      BY <2>3, <3>3, <3>4, <3>5, <3>6 DEF ClickStep
  <2> QED
    BY <1>0, <2>1, <2>2, <2>3, ClickMoves
<1>5. ASSUME NEW p \in prompts' PROVE p.msg = 1
  BY <1>0, PromptsStep DEF OneMsg
<1> QED
  BY <1>1, <1>2, <1>3, <1>4, <1>5 DEF OneMsg, Present

(* The expiry deletes it before it bans. *)
LEMMA UnpromptedStep ==
  ASSUME TypeOK, HeldOnce, OneJoin, FirstMsg, OneMsg, Unprompted, [Next]_vars, Single'
  PROVE  Unprompted'
<1>0. Single /\ ~Fails
  BY SingleBefore
<1> SUFFICES ASSUME NEW c \in job', step' \in {"ban", "notice", "complete", "fail"},
                    NEW p \in prompts', p.user = c.key
             PROVE  FALSE
  BY DEF Unprompted
<1>1. c \in job /\ c \in Held
  BY JobMoves DEF Held
<1>2. p \in prompts
  BY <1>1, PromptsStep
<1>3. c.payload.ref = 1 /\ p.msg = 1 /\ mem[c.key] \in {0, 1}
  BY <1>0, <1>1, <1>2 DEF OneMsg, TypeOK, WorkerType, Claim
<1>4. CASE step' = step
  BY <1>0, <1>1, <1>2, <1>4 DEF Unprompted
<1>5. CASE ExpireCheck(c)
  BY <1>3, <1>5 DEF ExpireCheck
<1>6. CASE ExpireLoad(c) \/ ExpireDrop(c)
  BY <1>6 DEF ExpireLoad, ExpireDrop
<1>7. CASE ExpireUnprompt(c)
  <2>1. p = [user |-> c.key, msg |-> c.payload.ref]
    BY <1>2, <1>3 DEF TypeOK, TelegramType
  <2> QED
    BY <1>0, <1>7, <2>1 DEF ExpireUnprompt
<1>8. CASE ExpireBan(c) \/ ExpireNotice(c)
  BY <1>0, <1>1, <1>2, <1>8 DEF ExpireBan, ExpireNotice, At, Unprompted
<1> QED
  BY <1>4, <1>5, <1>6, <1>7, <1>8, JobMoves DEF Expiring

(* The press that cancels the expiry removes it itself. *)
LEMMA PromptedStep ==
  ASSUME TypeOK, ClaimIds, OneJoin, FirstMsg, OneMsg, Unprompted, Prompted, [Next]_vars, Single'
  PROVE  Prompted'
<1>0. Single /\ ~Fails /\ ~Crash
  BY SingleBefore
<1> SUFFICES ASSUME NEW p \in prompts'
             PROVE  \/ p.msg \in toDelete' \/ issue'[p.user].at # "idle"
                    \/ click'[p.user].at \in {"delete", "restore", "edit"}
                    \/ tasks'[p.user].status \in {"pending", "running"}
  BY DEF Prompted, Outstanding
<1>1. CASE p \notin prompts
  BY <1>1, PromptsStep
<1>2. CASE p \in prompts /\ p.msg \in toDelete
  <2>1. toDelete \subseteq toDelete'
    BY DEF Next, IssueStep, ClickStep, ExpireStep, Join, Leave, Press, IssueRestrict, IssueSend,
       IssueSet, IssueEnqueue, ClickGet, ClickCancel, ClickDelete, ClickRestore, ClickEdit, Recover,
       ClaimBatch, Execute, ExpireCheck, ExpireLoad, ExpireDrop, ExpireUnprompt, ExpireBan,
       ExpireNotice, Settle, Cleanup, Crash, Restart, Tick, vars
  <2> QED
    BY <1>2, <2>1
<1>3. CASE p \in prompts /\ issue[p.user].at # "idle"
  <2>1. p.user \in Keys
    BY <1>3 DEF TypeOK, TelegramType
  <2>2. CASE IssueEnqueue(p.user)
    <3>1. EnqueueTask(p.user, [ref |-> issue[p.user].msg, at |-> issue[p.user].expires],
                      issue[p.user].expires)
      BY <1>0, <2>2 DEF IssueEnqueue
    <3> QED
      BY <2>1, <3>1 DEF EnqueueTask, TypeOK, StoreType
  <2>3. CASE ~IssueEnqueue(p.user)
    BY <1>0, <1>3, <2>1, <2>3, IssueMoves
  <2> QED
    BY <2>2, <2>3
<1>4. CASE p \in prompts /\ click[p.user].at \in {"delete", "restore", "edit"}
  <2>0. p.user \in Keys /\ p = [user |-> p.user, msg |-> p.msg] /\ click \in [Keys -> ClickState]
    BY <1>4 DEF TypeOK, TelegramType, HandlerType
  <2>1. p.msg = 1 /\ click[p.user].msg = 1
    BY <1>0, <1>4, <2>0 DEF OneMsg
  <2>2. CASE ClickEdit(p.user)
    BY <1>0, <2>0, <2>1, <2>2 DEF ClickEdit
  <2>3. CASE ClickDelete(p.user) \/ ClickRestore(p.user)
    BY <2>0, <2>3 DEF ClickDelete, ClickRestore, ClickState
  <2>4. CASE ClickGet(p.user) \/ ClickCancel(p.user)
    BY <1>4, <2>4 DEF ClickGet, ClickCancel
  <2>5. CASE Press(p.user)
    BY <1>4, <2>5 DEF Press, IdleClick
  <2>6. CASE click'[p.user] = click[p.user]
    BY <1>4, <2>6
  <2> QED
    BY <1>0, <2>0, <2>2, <2>3, <2>4, <2>5, <2>6, ClickMoves DEF ClickStep
<1>5. CASE p \in prompts /\ Outstanding(p.user)
  <2>0. p.user \in Keys
    BY <1>5 DEF TypeOK, TelegramType
  <2>1. ~Settled(p.user)
    <3> SUFFICES ASSUME Settled(p.user) PROVE FALSE
      OBVIOUS
    <3>1. PICK d \in job : Settle(d) /\ HasId(p.user, d.id)
      BY DEF Settled
    <3>2. p.user = d.key
      BY <2>0, <3>1 DEF ClaimIds, Held
    <3>3. step \in {"complete", "fail"}
      BY <3>1 DEF Settle
    <3> QED
      BY <1>0, <1>5, <3>2, <3>3 DEF Unprompted
  <2> QED
    BY <1>5, <2>0, <2>1, RowStep DEF Outstanding, RowKept, Renewed, Cancelled, Moved
<1> QED
  BY <1>0, <1>1, <1>2, <1>3, <1>4, <1>5 DEF Prompted

----------------------------------------------------------------------------
(* The inductive invariant. *)
IInv ==
  /\ TypeOK
  /\ RowIds /\ ClaimIds /\ HeldOnce
  /\ RefsBelow /\ RefsOwned /\ IssueFresh /\ ClaimRow /\ WithdrawnRefs
  /\ Enqueued /\ PastLook /\ NotHasty /\ Backed
  /\ Forgotten /\ Ending
  /\ OneJoin /\ FirstMsg /\ OneMsg /\ Unprompted /\ Prompted

(* It holds at first, ... *)
LEMMA IInvInit == Init => IInv
<1> SUFFICES ASSUME Init PROVE IInv
  OBVIOUS
<1> USE DEF Init, StoreInit
<1>1. TypeOK
  BY DEF TypeOK, StoreType, HandlerType, TelegramType, WorkerType, BoundType, NoTask, Task, Payload,
     Status, IdleIssue, IdleClick, IssueState, ClickState
<1>2. RowIds /\ ClaimIds /\ HeldOnce /\ ClaimRow /\ WithdrawnRefs
  BY DEF RowIds, ClaimIds, HeldOnce, ClaimRow, WithdrawnRefs, Held, Present, NoTask, Outstanding
<1>3. RefsBelow /\ RefsOwned /\ IssueFresh
  BY DEF RefsBelow, RefsOwned, IssueFresh, RefOf, Held, Present, NoTask, IdleIssue
<1>4. Enqueued /\ PastLook /\ NotHasty /\ Backed /\ Forgotten /\ Ending
  BY DEF Enqueued, PastLook, NotHasty, Backed, Forgotten, Ending, Restrained, IdleIssue
<1>5. OneJoin /\ FirstMsg /\ OneMsg /\ Unprompted /\ Prompted
  BY DEF OneJoin, FirstMsg, OneMsg, Unprompted, Prompted, Held, Present, NoTask, IdleIssue, IdleClick
<1> QED
  BY <1>1, <1>2, <1>3, <1>4, <1>5 DEF IInv

(* ... is preserved by every step, ... *)
LEMMA IInvStep == IInv /\ [Next]_vars => IInv'
<1> SUFFICES ASSUME IInv, [Next]_vars PROVE IInv'
  OBVIOUS
<1> USE DEF IInv
<1>1. TypeOK'
  BY StoreTypeStep, HandlerTypeStep, TelegramTypeStep, WorkerTypeStep, BoundTypeStep DEF TypeOK
<1>2. RowIds' /\ ClaimIds' /\ HeldOnce'
  BY RowIdsStep, ClaimIdsStep, HeldOnceStep
<1>3. RefsBelow' /\ RefsOwned' /\ IssueFresh' /\ ClaimRow' /\ WithdrawnRefs'
  BY RefsBelowStep, RefsOwnedStep, IssueFreshStep, ClaimRowStep, WithdrawnRefsStep
<1>4. Enqueued' /\ PastLook' /\ NotHasty' /\ Backed'
  BY EnqueuedStep, PastLookStep, NotHastyStep, BackedStep
<1>5. Forgotten' /\ Ending'
  BY ForgottenStep, EndingStep
<1>6. OneJoin' /\ FirstMsg' /\ OneMsg' /\ Unprompted' /\ Prompted'
  <2>1. CASE Single'
    BY <2>1, OneJoinStep, FirstMsgStep, OneMsgStep, UnpromptedStep, PromptedStep
  <2>2. CASE ~Single'
    BY <2>2 DEF OneJoin, FirstMsg, OneMsg, Unprompted, Prompted
  <2> QED
    BY <2>1, <2>2
<1> QED
  BY <1>1, <1>2, <1>3, <1>4, <1>5, <1>6

(* ... and so holds throughout. *)
LEMMA Inductive == Spec => []IInv
  BY IInvInit, IInvStep, PTL DEF Spec

(* The table, the store of captchas, the handlers and what Telegram has keep *)
(* their types, whatever joins, presses, failures and restarts meet.         *)
THEOREM TypeCorrect == Spec => []TypeOK
<1>1. IInv => TypeOK
  BY DEF IInv
<1> QED
  BY <1>1, Inductive, PTL

(* As long as no call failed, a captcha in memory that no handler is busy    *)
(* with has its expiry task in the table: CaptchaStore and scheduled_tasks   *)
(* agree although nothing locks both.                                       *)
THEOREM MemoryIsBacked == Spec => []MemoryBacked
<1>1. IInv => MemoryBacked
  BY DEF IInv, Backed, MemoryBacked, NoHandler, IdleIssue, IdleClick
<1> QED
  BY <1>1, Inductive, PTL

(* As long as nothing failed, a restricted user no handler is busy with has  *)
(* an expiry task that is pending or running (or a contested prompt).        *)
THEOREM NobodyInLimbo == Spec => []NoLimbo
<1>1. IInv => NoLimbo
  BY DEF IInv, Ending, NoLimbo, Restrained, NoHandler, IdleIssue, IdleClick
<1> QED
  BY <1>1, Inductive, PTL

(* The prompt of a user who joined once leaves the chat with its captcha.    *)
THEOREM PromptsAreTidied == Spec => []PromptsTidied
<1>1. IInv => PromptsTidied
  BY DEF IInv, Prompted, PromptsTidied, Single, NoHandler, IdleIssue, IdleClick
<1> QED
  BY <1>1, Inductive, PTL

(* A prompt whose expiry a press cancelled bans nobody afterwards, unless    *)
(* it was enqueued over a row the worker held.                              *)
THEOREM CancelledAreNotBanned == Spec => CancelledNotBanned
<1>1. IInv => \A c \in job : c.payload.ref \in withdrawn => c.payload.ref \in contested
  BY DEF IInv, WithdrawnRefs, Held
<1>2. IInv /\ [Next]_vars =>
        [\A k \in Keys : member[k] # "banned" /\ member'[k] = "banned" =>
           \A c \in job : c.payload.ref \in withdrawn => c.payload.ref \in contested]_vars
  BY <1>1
<1> QED
  BY <1>2, Inductive, PTL DEF Spec, CancelledNotBanned

(* Nobody is banned while a prompt of theirs is waited for, but by the       *)
(* expiry of an older one that was past its check.                          *)
THEOREM NoBanIsHasty == Spec => NoHastyBan
<1>1. IInv /\ [Next]_vars =>
        [\A k \in Keys : member[k] # "banned" /\ member'[k] = "banned" =>
           mem[k] = 0 \/ k \in overtaken]_vars
  <2> SUFFICES ASSUME IInv, [Next]_vars, NEW k \in Keys, member[k] # "banned", member'[k] = "banned"
               PROVE  mem[k] = 0 \/ k \in overtaken
    OBVIOUS
  <2>1. CASE \E c \in job : ExpireBan(c) /\ c.key = k
    BY <2>1 DEF IInv, NotHasty, ExpireBan, At
  <2>2. CASE IssueRestrict(k)
    BY <2>2 DEF IInv, TypeOK, TelegramType, IssueRestrict
  <2> QED
    BY <2>1, <2>2, MemberMoves DEF IInv
<1> QED
  BY <1>1, Inductive, PTL DEF Spec, NoHastyBan
=============================================================================
