---------------------------- MODULE StrikesProofs ----------------------------
(***************************************************************************)
(* The safety of Strikes, for any number of update workers, strikes,       *)
(* pardons, crashes and failing calls, and any length of a mute.           *)
(***************************************************************************)
EXTENDS Strikes, FiniteSetTheorems, TLAPS

(* The constants. *)
LEMMA Constants == Keys = {User} /\ MuteTime \in Nat /\ MuteTime >= 1
BY StrikesAssumption

(* What a worker does is a function of the worker. *)
Shape == handler = [h \in Workers |-> handler[h]]

(* A worker goes on, and the others stay where they are. *)
LEMMA Goes ==
  ASSUME Shape, NEW h \in Workers, NEW s, handler' = [handler EXCEPT ![h] = s]
  PROVE  Shape' /\ handler'[h] = s /\ \A g \in Workers \ {h} : handler'[g] = handler[g]
BY DEF Shape

----------------------------------------------------------------------------
(* A third strike is being answered: the row is to be deleted. *)
Answering == Someone("ban") \/ resets > 0

CountTypes == Shape /\ count \in Nat /\ since \in Nat /\ resets \in Nat /\ faults \in Nat

CountInv == CountTypes /\ CountIsHonest

(* The property, by what is known of a ban on its way. *)
LEMMA CountCases ==
  /\ late => CountIsHonest
  /\ Answering /\ since = 0 /\ since <= 2 + faults => CountIsHonest
  /\ ~Answering /\ count = since /\ since <= 2 + faults => CountIsHonest
  /\ CountIsHonest /\ ~late /\ Answering => since = 0 /\ since <= 2 + faults
  /\ CountIsHonest /\ ~late /\ ~Answering => count = since /\ since <= 2 + faults
BY Zenon DEF CountIsHonest, Answering

(* At the start there is no row. *)
LEMMA CountInit == Init => CountInv
BY DEF Init, CountInv, CountTypes, Shape, CountIsHonest, Someone, At, Idle

(* Arithmetic, for the steps whose calls may fail. *)
LEMMA MoreFaults ==
  ASSUME NEW s \in Nat, NEW f \in Nat, NEW g \in Nat, s <= 2 + f, g >= f
  PROVE  s <= 2 + g
OBVIOUS

LEMMA NoStrikes == \A f \in Nat : 0 <= 2 + f
OBVIOUS

(* Steps that have nothing to do with the count. *)
LEMMA CountElsewhere ==
  /\ CountInv /\ Shape' /\ UNCHANGED <<count, since, resets, late>>
  /\ faults' \in Nat /\ faults' >= faults
  /\ Someone("ban")' <=> Someone("ban")
  => CountInv'
<1>1. SUFFICES ASSUME CountInv, Shape', UNCHANGED <<count, since, resets, late>>,
                      faults' \in Nat, faults' >= faults, Someone("ban")' <=> Someone("ban")
               PROVE  CountInv'
    OBVIOUS
<1>2. CountTypes /\ CountIsHonest
    BY <1>1 DEF CountInv
<1>3. CountTypes'
    BY <1>1, <1>2 DEF CountTypes
<1>4. since \in Nat /\ faults \in Nat /\ faults' \in Nat /\ faults' >= faults
    BY <1>1, <1>2 DEF CountTypes
<1>5. since <= 2 + faults => since <= 2 + faults'
    BY <1>4, MoreFaults
<1>6. CountIsHonest'
    BY <1>1, <1>2, <1>5, Zenon DEF CountIsHonest
<1> QED BY <1>3, <1>6 DEF CountInv

(* A strike that meets no ban and no reset is counted by all of them; it is *)
(* answered by a ban when it is the third, and one that fails may count.    *)
LEMMA CountStrike ==
  ASSUME CountInv, NEW h \in Workers, Strike(h)
  PROVE  CountInv'
<1>1. CountTypes /\ resets' = resets /\ At(h, "idle")
    BY DEF CountInv, Strike
<1>2. ~late' => ~late /\ ~Someone("ban") /\ ~(resets > 0)
    BY Zenon DEF Strike
<1>3. CASE /\ count' = count + 1
           /\ handler' = [handler EXCEPT ![h] = [at |-> Answer(count + 1), until |-> 0]]
           /\ since' = IF Answer(count + 1) = "ban" THEN 0 ELSE since + 1
           /\ UNCHANGED faults
  <2>1. /\ Shape' /\ handler'[h].at = Answer(count + 1)
        /\ \A g \in Workers \ {h} : handler'[g] = handler[g]
    <3>1. PICK s : s = [at |-> Answer(count + 1), until |-> 0]
        OBVIOUS
    <3>2. handler' = [handler EXCEPT ![h] = s] /\ Shape
        BY <1>1, <1>3, <3>1, Zenon DEF CountTypes
    <3>3. Shape' /\ handler'[h] = s /\ \A g \in Workers \ {h} : handler'[g] = handler[g]
        BY <3>2, Goes
    <3>4. s.at = Answer(count + 1)
        BY <3>1
    <3> QED BY <3>3, <3>4
  <2>2. CountTypes'
      BY <1>1, <1>3, <2>1 DEF CountTypes
  <2>3. /\ count + 1 = 1 => Answer(count + 1) = "idle"
        /\ count + 1 = 2 => Answer(count + 1) = "mute"
        /\ count + 1 # 1 /\ count + 1 # 2 => Answer(count + 1) = "ban"
      BY <1>1 DEF Answer, CountTypes
  <2>4. ASSUME ~late'
        PROVE  /\ IF Answering' THEN since' = 0 ELSE count' = since'
               /\ since' <= 2 + faults'
    <3>1. count = since /\ ~Someone("ban") /\ resets = 0
        BY <1>1, <1>2, <2>4 DEF CountInv, CountTypes, CountIsHonest
    <3>2. CASE count + 1 # 1 /\ count + 1 # 2
      <4>1. since' = 0
          BY <1>3, <2>3, <3>2
      <4>2. Answering'
          BY <2>1, <2>3, <3>2 DEF Answering, Someone, At
      <4>0. faults' \in Nat
          BY <2>2 DEF CountTypes
      <4>3. since' <= 2 + faults'
          BY <4>0, <4>1, NoStrikes, Zenon
      <4> QED BY <4>1, <4>2, <4>3, Zenon
    <3>3. CASE count + 1 = 1 \/ count + 1 = 2
      <4>1. Answer(count + 1) # "ban"
          BY <2>3, <3>3
      <4>2. since' = since + 1 /\ since' <= 2
          BY <1>1, <1>3, <3>1, <3>3, <4>1 DEF CountTypes
      <4>3. ~Answering'
          BY <1>1, <2>1, <3>1, <4>1 DEF Answering, Someone, At
      <4> QED BY <1>1, <1>3, <2>2, <3>1, <4>2, <4>3 DEF CountTypes
    <3> QED BY <3>2, <3>3
  <2>5. CountIsHonest'
      BY <2>4 DEF CountIsHonest, Answering
  <2> QED BY <2>2, <2>5 DEF CountInv
<1>4. CASE /\ faults' = faults + 1 /\ UNCHANGED handler
           /\ \/ count' = count + 1 /\ since' = since + 1
              \/ UNCHANGED <<count, since>>
  <2>1. CountTypes'
      BY <1>1, <1>4 DEF CountTypes, Shape
  <2>2. ASSUME ~late'
        PROVE  /\ IF Answering' THEN since' = 0 ELSE count' = since'
               /\ since' <= 2 + faults'
    <3>1. count = since /\ ~Someone("ban") /\ resets = 0 /\ since <= 2 + faults
        BY <1>1, <1>2, <2>2 DEF CountInv, CountTypes, CountIsHonest
    <3>2. ~Answering'
        BY <1>1, <1>4, <3>1 DEF Answering, Someone, At
    <3> QED BY <1>1, <1>4, <3>1, <3>2 DEF CountTypes
  <2>3. CountIsHonest'
      BY <2>2 DEF CountIsHonest, Answering
  <2> QED BY <2>1, <2>3 DEF CountInv
<1> QED BY <1>3, <1>4 DEF Strike

(* A ban becomes a reset. *)
LEMMA CountBan ==
  ASSUME CountInv, NEW h \in Workers, Ban(h)
  PROVE  CountInv'
<1>1. /\ CountTypes /\ At(h, "ban") /\ resets' = resets + 1
      /\ UNCHANGED <<count, since, late>> /\ handler' = [handler EXCEPT ![h] = Idle]
      /\ faults' \in Nat /\ faults' >= faults
    BY DEF CountInv, CountTypes, Ban, Works, Fails, bounds
<1>2. Shape'
    BY <1>1, Goes DEF CountTypes
<1>3. Someone("ban") /\ resets' > 0
    BY <1>1 DEF Someone, CountTypes
<1>4. CASE late
    BY <1>1, <1>2, <1>4 DEF CountInv, CountTypes, CountIsHonest
<1>5. CASE ~late
  <2>1. since = 0 /\ since <= 2 + faults
      BY <1>3, <1>5, Zenon DEF CountInv, CountIsHonest
  <2>2. since \in Nat /\ faults \in Nat
      BY <1>1 DEF CountTypes
  <2>3. since <= 2 + faults'
      BY <1>1, <2>1, <2>2, MoreFaults
  <2>4. CountIsHonest'
      BY <1>1, <1>3, <2>1, <2>3, Zenon DEF CountIsHonest
  <2>5. CountTypes'
      BY <1>1, <1>2 DEF CountTypes
  <2> QED BY <2>4, <2>5 DEF CountInv
<1> QED BY <1>4, <1>5

(* A reset that succeeds leaves no row, and nothing is counted since. *)
LEMMA CountReset ==
  ASSUME CountInv, Reset
  PROVE  CountInv'
<1>1. /\ CountTypes /\ resets > 0 /\ resets' = resets - 1
      /\ UNCHANGED <<since, handler>>
    BY DEF CountInv, Reset
<1>2. CASE count' = 0 /\ Works /\ UNCHANGED late
  <2>1. CountTypes'
      BY <1>1, <1>2 DEF CountTypes, Works, bounds, Shape
  <2>2. late \/ (since = 0 /\ since <= 2 + faults)
      BY <1>1 DEF CountInv, CountTypes, CountIsHonest
  <2>3. late' = late /\ faults' = faults /\ count' = 0
      BY <1>2 DEF Works, bounds
  <2>4. late \/ (since' = 0 /\ count' = 0 /\ since' <= 2 + faults')
      BY <1>1, <2>2, <2>3
  <2> QED BY <2>1, <2>3, <2>4 DEF CountInv, CountIsHonest
<1>3. CASE Fails /\ late' = TRUE /\ UNCHANGED count
  <2>1. CountTypes'
      BY <1>1, <1>3 DEF CountTypes, Fails, Shape
  <2>2. CountIsHonest'
      BY <1>3, Zenon DEF CountIsHonest
  <2> QED BY <2>1, <2>2 DEF CountInv
<1> QED BY <1>2, <1>3 DEF Reset

(* A process that dies before its reset leaves the row: late. *)
LEMMA CountCrash ==
  ASSUME CountInv, Crash
  PROVE  CountInv'
<1>1. /\ CountTypes /\ resets' = 0 /\ UNCHANGED <<count, since, faults>>
      /\ handler' = [h \in Workers |-> Idle]
    BY DEF CountInv, Crash
<1>2. ~late' => ~late /\ ~Someone("ban") /\ ~(resets > 0)
    BY Zenon DEF Crash
<1>3. CountTypes'
    BY <1>1 DEF CountTypes, Shape
<1>4. ASSUME ~late' PROVE count' = since' /\ since' <= 2 + faults'
    BY <1>1, <1>2, <1>4 DEF CountInv, CountIsHonest
<1>5. ~Someone("ban")' /\ ~(resets' > 0)
    BY <1>1 DEF Someone, At, Idle
<1> QED BY <1>3, <1>4, <1>5 DEF CountInv, CountIsHonest

(* Every step keeps the invariant. *)
LEMMA CountStep == CountInv /\ [Next]_vars => CountInv'
<1> SUFFICES ASSUME CountInv, [Next]_vars PROVE CountInv'
    OBVIOUS
<1>1. CountTypes /\ Shape
    BY DEF CountInv, CountTypes
<1>2. ASSUME NEW h \in Workers, Mute(h) \/ Enqueue(h) PROVE CountInv'
  <2>1. /\ UNCHANGED <<count, since, resets, late>> /\ faults' \in Nat /\ faults' >= faults
      BY <1>1, <1>2 DEF Mute, Enqueue, Works, Fails, bounds, CountTypes
  <2>2. \E s : /\ handler' = [handler EXCEPT ![h] = s] /\ s.at # "ban"
               /\ ~At(h, "ban")
      BY <1>2 DEF Mute, Enqueue, At, Idle
  <2>3. Shape' /\ (Someone("ban")' <=> Someone("ban"))
      BY ZenonT(40), <1>1, <2>2, Goes DEF Someone, At
  <2> QED BY <2>1, <2>3, CountElsewhere
<1>3. CASE \/ ReportBan \/ Pardon \/ MuteExpires \/ Recover \/ ClaimUnmute \/ Lift \/ Settle
           \/ Cleanup \/ Restart \/ Tick \/ UNCHANGED vars
  <2>1. UNCHANGED <<count, since, resets, late, handler>>
      BY <1>3 DEF ReportBan, Pardon, MuteExpires, Recover, ClaimUnmute, Lift, Settle, Cleanup,
                  Restart, Tick, vars, history
  <2>2. faults' \in Nat /\ faults' >= faults
      BY <1>1, <1>3 DEF ReportBan, Pardon, MuteExpires, Recover, ClaimUnmute, Lift, Settle,
                        Cleanup, Restart, Tick, vars, Works, Fails, bounds, CountTypes
  <2>3. Shape' /\ (Someone("ban")' <=> Someone("ban"))
      BY <1>1, <2>1 DEF Shape, Someone, At
  <2> QED BY <2>1, <2>2, <2>3, CountElsewhere
<1> QED BY <1>2, <1>3, CountStrike, CountBan, CountReset, CountCrash DEF Next, HandlerStep

(* The third strike is the one that is answered by a ban. *)
THEOREM TheCountIsHonest == Spec => []CountIsHonest
<1>1. CountInv => CountIsHonest
    BY DEF CountInv
<1> QED BY <1>1, CountInit, CountStep, PTL DEF Spec

----------------------------------------------------------------------------
(* The types.  Counters keep to their bounds, the task worker has one task  *)
(* in hand just while it is at a step, and a process that is down has       *)
(* nothing under way.                                                       *)
StoreType == tasks \in [Keys -> Task] /\ nextId \in Nat \ {0} /\ now \in Nat
HandlerType == handler \in [Workers -> [at : {"idle", "mute", "enqueue", "ban"}, until : Nat]]
TelegramType == member \in {"free", "muted", "banned"} /\ until \in Nat
JobType ==
  /\ job \in SUBSET Claim /\ \A c, d \in job : c = d
  /\ step \in {"idle", "lift", "complete", "fail"} /\ (step = "idle" <=> job = {})
BoundType ==
  /\ strikes \in 0 .. MaxStrikes /\ pardons \in 0 .. MaxPardons
  /\ crashes \in 0 .. MaxCrashes /\ faults \in 0 .. MaxFaults
CountType ==
  /\ count \in 0 .. strikes /\ since \in 0 .. strikes /\ resets \in Nat
  /\ late \in BOOLEAN /\ crossed \in BOOLEAN
PhaseType ==
  /\ phase \in {"down", "starting", "up"}
  /\ phase = "down" => job = {} /\ resets = 0 /\ \A h \in Workers : At(h, "idle")

TypeOK ==
  /\ StoreType /\ HandlerType /\ TelegramType /\ JobType
  /\ BoundType /\ CountType /\ PhaseType

LEMMA TypesInit == Init => TypeOK
<1> SUFFICES ASSUME Init PROVE TypeOK
    OBVIOUS
<1>1. StoreType
    BY DEF Init, StoreInit, StoreType, NoTask, Task, Status, Payload
<1>2. HandlerType /\ TelegramType /\ JobType
    BY DEF Init, Idle, HandlerType, TelegramType, JobType
<1>3. BoundType
    BY StrikesAssumption DEF Init, BoundType
<1>4. CountType
  <2>1. late = FALSE /\ crossed = FALSE
      BY Zenon DEF Init
  <2>2. late \in BOOLEAN /\ crossed \in BOOLEAN
      BY <2>1
  <2> QED BY <2>2 DEF Init, CountType
<1>5. PhaseType
    BY DEF Init, PhaseType
<1> QED BY <1>1, <1>2, <1>3, <1>4, <1>5 DEF TypeOK

(* A retry is put off by a number of ticks. *)
LEMMA RetryTypes == \A n \in Nat : RetryAfter(n) \in Nat
<1> SUFFICES ASSUME NEW n \in Nat PROVE RetryAfter(n) \in Nat
    OBVIOUS
<1>1. PICK u \in Nat : u = RetryUnit
    BY StoreAssumption
<1>2. PICK m \in Nat : m = n * n
    BY SMT
<1>3. m * u \in Nat
    BY SMT
<1> QED BY <1>1, <1>2, <1>3, StoreAssumption DEF RetryAfter

(* A row keeps its type, whichever columns a statement sets. *)
LEMMA ColumnTypes ==
  ASSUME NEW t \in Task, NEW s \in Status, NEW a \in Nat, NEW r \in Nat, NEW v \in Nat
  PROVE  /\ [t EXCEPT !.status = s, !.updatedAt = v] \in Task
         /\ [t EXCEPT !.status = s, !.attempts = a, !.updatedAt = v] \in Task
         /\ [t EXCEPT !.status = s, !.updatedAt = v, !.runAt = r] \in Task
         /\ [t EXCEPT !.status = s, !.runAt = r, !.updatedAt = v] \in Task
BY DEF Task

(* So does the table. *)
TableType == tasks \in [Keys -> Task] /\ nextId \in Nat \ {0}

LEMMA StatementTypes ==
  ASSUME StoreType
  PROVE  /\ ClaimDueTasks => TableType'
         /\ RecoverRunningTasks => TableType'
         /\ CleanupFinishedTasks => TableType'
         /\ \A id : CompleteTask(id) => TableType'
         /\ \A id : \A n \in Nat : FailTask(id, n) => TableType'
         /\ \A payload \in Payload : \A t \in Nat : EnqueueTask(User, payload, t) => TableType'
<1>1. /\ Keys = {User} /\ now \in Nat /\ tasks \in [Keys -> Task] /\ nextId \in Nat \ {0}
      /\ "running" \in Status /\ "pending" \in Status /\ "done" \in Status /\ "failed" \in Status
    BY Constants DEF StoreType, Status
<1>2. ASSUME ClaimDueTasks PROVE TableType'
  <2>1. ASSUME NEW k \in Keys
        PROVE  [tasks[k] EXCEPT !.status = "running", !.attempts = @ + 1, !.updatedAt = now] \in Task
    <3>1. tasks[k] \in Task /\ tasks[k].attempts + 1 \in Nat
        BY <1>1 DEF Task
    <3> QED BY <1>1, <3>1, ColumnTypes
  <2> QED BY <1>1, <1>2, <2>1 DEF ClaimDueTasks, TableType
<1>3. ASSUME RecoverRunningTasks PROVE TableType'
  <2>1. ASSUME NEW k \in Keys
        PROVE  [tasks[k] EXCEPT !.status = "pending", !.runAt = now, !.updatedAt = now] \in Task
      BY <1>1, ColumnTypes
  <2> QED BY <1>1, <1>3, <2>1 DEF RecoverRunningTasks, TableType
<1>4. ASSUME CleanupFinishedTasks PROVE TableType'
    BY <1>1, <1>4 DEF CleanupFinishedTasks, TableType, NoTask, Task, Payload
<1>5. ASSUME NEW id, CompleteTask(id) PROVE TableType'
  <2>1. ASSUME NEW k \in Keys
        PROVE  [tasks[k] EXCEPT !.status = "done", !.updatedAt = now] \in Task
      BY <1>1, ColumnTypes
  <2> QED BY <1>1, <1>5, <2>1 DEF CompleteTask, TableType
<1>6. ASSUME NEW id, NEW n \in Nat, FailTask(id, n) PROVE TableType'
  <2>1. ASSUME NEW k \in Keys
        PROVE  /\ [tasks[k] EXCEPT !.status = "failed", !.updatedAt = now] \in Task
               /\ [tasks[k] EXCEPT !.status = "pending", !.updatedAt = now,
                                   !.runAt = now + RetryAfter(n)] \in Task
    <3>1. tasks[k] \in Task /\ now + RetryAfter(n) \in Nat
        BY <1>1, RetryTypes
    <3> QED BY <1>1, <3>1, ColumnTypes
  <2> QED BY <1>1, <1>6, <2>1 DEF FailTask, TableType
<1>7. ASSUME NEW payload \in Payload, NEW t \in Nat, EnqueueTask(User, payload, t) PROVE TableType'
    BY <1>1, <1>7 DEF EnqueueTask, TableType, Task, Status
<1> QED BY <1>2, <1>3, <1>4, <1>5, <1>6, <1>7

(* The one row, when due, is a batch of one claim. *)
LEMMA ClaimTypes ==
  ASSUME StoreType, Due # {}
  PROVE  /\ Claimed \in SUBSET Claim /\ Claimed # {}
         /\ \A c, d \in Claimed : c = d
<1>1. Keys = {User} /\ tasks[User] \in Task
    BY Constants DEF StoreType
<1>2. User \in Due /\ Due \subseteq {User}
    BY <1>1 DEF Due
<1>3. {j \in Due : Before(j, User)} = {}
  <2>1. tasks[User].runAt \in Nat /\ tasks[User].id \in Nat
      BY <1>1 DEF Task
  <2>2. ~Before(User, User)
      BY <2>1 DEF Before
  <2> QED BY <1>2, <2>2
<1>4. Cardinality({j \in Due : Before(j, User)}) = 0
    BY <1>3, FS_EmptySet
<1>5. User \in DueBatch
    BY <1>2, <1>4, StoreAssumption DEF DueBatch
<1>6. DueBatch \subseteq {User}
    BY <1>2 DEF DueBatch
<1>7. PICK c : c = [key |-> User, id |-> tasks[User].id, payload |-> tasks[User].payload,
                   attempts |-> tasks[User].attempts + 1]
    OBVIOUS
<1>8. Claimed = {c}
    BY <1>5, <1>6, <1>7 DEF Claimed
<1>9. c \in Claim
  <2>1. /\ tasks[User].id \in Nat /\ tasks[User].payload \in Payload
        /\ tasks[User].attempts + 1 \in Nat \ {0}
      BY <1>1 DEF Task
  <2> QED BY <1>1, <1>7, <2>1 DEF Claim
<1> QED BY <1>8, <1>9

(* A handler goes on to its next call. *)
Calls(h) ==
  \E a \in {"idle", "mute", "enqueue", "ban"} : \E n \in Nat :
    handler' = [handler EXCEPT ![h] = [at |-> a, until |-> n]]

LEMMA HandlerTypes ==
  ASSUME HandlerType, NEW h \in Workers, handler' = handler \/ Calls(h)
  PROVE  HandlerType'
<1>1. ASSUME NEW a \in {"idle", "mute", "enqueue", "ban"}, NEW n \in Nat,
             handler' = [handler EXCEPT ![h] = [at |-> a, until |-> n]]
      PROVE  HandlerType'
  <2>1. [at |-> a, until |-> n] \in [at : {"idle", "mute", "enqueue", "ban"}, until : Nat]
      OBVIOUS
  <2> QED BY <1>1, <2>1 DEF HandlerType
<1>2. CASE handler' = handler
    BY <1>2 DEF HandlerType
<1> QED BY <1>1, <1>2 DEF Calls

(* What the steps do to the bounds. *)
LEMMA BoundTypes ==
  ASSUME BoundType
  PROVE  /\ Works => BoundType'
         /\ Fails => BoundType'
<1>1. Works => BoundType'
    BY DEF Works, bounds, BoundType
<1>2. Fails => BoundType'
    BY StrikesAssumption DEF Fails, BoundType
<1> QED BY <1>1, <1>2

(* A strike is counted, or its handler is told that it was not. *)
LEMMA StrikeTypes ==
  ASSUME TypeOK, NEW h \in Workers, Strike(h)
  PROVE  TypeOK'
<1>1. /\ StoreType /\ HandlerType /\ TelegramType /\ JobType /\ BoundType /\ CountType /\ PhaseType
      /\ MaxStrikes \in Nat /\ MaxFaults \in Nat
    BY StrikesAssumption DEF TypeOK
<1>2. StoreType' /\ TelegramType' /\ JobType'
    BY <1>1 DEF Strike, StoreType, TelegramType, JobType, At, table, telegram, worker
<1>3. HandlerType'
  <2>1. handler' = handler
        \/ handler' = [handler EXCEPT ![h] = [at |-> Answer(count + 1), until |-> 0]]
      BY DEF Strike
  <2>2. Answer(count + 1) \in {"idle", "mute", "enqueue", "ban"} /\ 0 \in Nat
      BY DEF Answer
  <2>3. handler' = handler \/ Calls(h)
      BY <2>1, <2>2, Zenon DEF Calls
  <2> QED BY <1>1, <2>3, HandlerTypes
<1>4. BoundType'
    BY <1>1 DEF Strike, BoundType
<1>5. CountType'
  <2>1. /\ strikes' = strikes + 1 /\ strikes \in Nat
        /\ count' = count + 1 \/ count' = count
        /\ since' = 0 \/ since' = since + 1 \/ since' = since
        /\ resets' = resets
      BY <1>1 DEF Strike, BoundType
  <2>2. /\ count' \in 0 .. strikes' /\ since' \in 0 .. strikes' /\ resets' \in Nat
      BY <1>1, <2>1 DEF CountType
  <2>3. late' \in BOOLEAN /\ crossed' \in BOOLEAN
    <3>1. late' = (late \/ Someone("ban") \/ resets > 0) /\ crossed' = crossed
        BY Zenon DEF Strike
    <3>2. (late \/ Someone("ban") \/ resets > 0) \in BOOLEAN
        OBVIOUS
    <3> QED BY <1>1, <3>1, <3>2, Zenon DEF CountType
  <2> QED BY <2>2, <2>3 DEF CountType
<1>6. PhaseType'
    BY <1>1 DEF Strike, PhaseType
<1> QED BY <1>2, <1>3, <1>4, <1>5, <1>6 DEF TypeOK

(* The calls that follow. *)
LEMMA AnswerTypes ==
  ASSUME TypeOK, NEW h \in Workers, Mute(h) \/ Enqueue(h) \/ Ban(h)
  PROVE  TypeOK'
<1>1. /\ StoreType /\ HandlerType /\ TelegramType /\ JobType /\ BoundType /\ CountType /\ PhaseType
      /\ MuteTime \in Nat /\ now \in Nat /\ now + MuteTime \in Nat
      /\ handler[h].until \in Nat
    BY Constants DEF TypeOK, StoreType, HandlerType
<1>2. UNCHANGED <<now, phase, count, worker, since, late, strikes, pardons, crashes>>
  <2>1. UNCHANGED <<now, phase, count, worker, since, late>>
      BY DEF Mute, Enqueue, Ban
  <2>2. Works \/ Fails
      BY DEF Mute, Enqueue, Ban
  <2> QED BY <2>1, <2>2 DEF Works, Fails, bounds
<1>3. StoreType'
  <2>1. UNCHANGED table
        \/ EnqueueTask(User, [ref |-> nextId, at |-> handler[h].until], handler[h].until)
      BY DEF Mute, Enqueue, Ban
  <2>2. [ref |-> nextId, at |-> handler[h].until] \in Payload
      BY <1>1 DEF Payload, StoreType
  <2>3. TableType'
      BY <1>1, <2>1, <2>2, StatementTypes DEF StoreType, TableType, table
  <2> QED BY <1>1, <1>2, <2>3 DEF StoreType, TableType
<1>4. HandlerType'
  <2>1. \/ handler' = [handler EXCEPT ![h] = [at |-> "enqueue", until |-> now + MuteTime]]
        \/ handler' = [handler EXCEPT ![h] = [at |-> "idle", until |-> 0]]
      BY Zenon DEF Mute, Enqueue, Ban, Idle
  <2>2. Calls(h)
      BY <1>1, <2>1, Zenon DEF Calls
  <2> QED BY <1>1, <2>2, HandlerTypes
<1>5. TelegramType'
    BY <1>1 DEF Mute, Enqueue, Ban, Banned, telegram, TelegramType
<1>6. JobType'
    BY <1>1, <1>2 DEF JobType, worker
<1>7. BoundType'
    BY <1>1, BoundTypes DEF Mute, Enqueue, Ban
<1>8. CountType'
  <2>1. resets' = resets \/ resets' = resets + 1
      BY DEF Mute, Enqueue, Ban
  <2>2. /\ count' \in 0 .. strikes' /\ since' \in 0 .. strikes' /\ resets' \in Nat
        /\ late' \in BOOLEAN
      BY <1>1, <1>2, <2>1 DEF CountType
  <2>3. crossed' \in BOOLEAN
    <3>1. \/ crossed' = crossed \/ crossed' = (crossed \/ Someone("enqueue"))
          \/ crossed' = (crossed \/ job # {})
        BY Zenon DEF Mute, Enqueue, Ban
    <3>2. crossed \in BOOLEAN
        BY <1>1 DEF CountType
    <3> QED BY <3>1, <3>2, Zenon
  <2> QED BY <2>2, <2>3 DEF CountType
<1>9. PhaseType'
  <2>1. ~At(h, "idle")
      BY DEF Mute, Enqueue, Ban, At
  <2> QED BY <1>1, <1>2, <2>1 DEF PhaseType
<1> QED BY <1>3, <1>4, <1>5, <1>6, <1>7, <1>8, <1>9 DEF TypeOK

(* The task worker. *)
LEMMA WorkerTypes ==
  ASSUME TypeOK, Recover \/ ClaimUnmute \/ Lift \/ Settle \/ Cleanup
  PROVE  TypeOK'
<1>1. /\ StoreType /\ HandlerType /\ TelegramType /\ JobType /\ BoundType /\ CountType /\ PhaseType
      /\ job \in SUBSET Claim
    BY DEF TypeOK, JobType
<1>2. UNCHANGED <<now, handler, until, count, resets, since, late, crossed>>
    BY DEF Recover, ClaimUnmute, Lift, Settle, Cleanup, telegram, history
<1>3. (Works \/ Fails) /\ UNCHANGED strikes
    BY DEF Recover, ClaimUnmute, Lift, Settle, Cleanup, Works, Fails, bounds
<1>4. StoreType'
  <2>1. \/ UNCHANGED table \/ RecoverRunningTasks \/ ClaimDueTasks \/ CleanupFinishedTasks
        \/ \E c \in job : CompleteTask(c.id) \/ FailTask(c.id, c.attempts)
      BY DEF Recover, ClaimUnmute, Lift, Settle, Cleanup
  <2>2. \A c \in job : c.attempts \in Nat
      BY <1>1 DEF Claim
  <2>3. UNCHANGED table => TableType'
      BY <1>1 DEF StoreType, TableType, table
  <2>4. TableType'
      BY <1>1, <2>1, <2>2, <2>3, StatementTypes
  <2> QED BY <1>1, <1>2, <2>4 DEF StoreType, TableType
<1>5. HandlerType' /\ BoundType' /\ CountType'
    BY <1>1, <1>2, <1>3, BoundTypes DEF HandlerType, CountType
<1>6. TelegramType'
    BY <1>1 DEF Recover, ClaimUnmute, Lift, Settle, Cleanup, telegram, TelegramType
<1>7. JobType' /\ PhaseType'
  <2>1. CASE Recover
      BY <1>1, <1>2, <2>1 DEF Recover, worker, JobType, PhaseType, At
  <2>2. CASE ClaimUnmute
    <3>1. job' = Claimed /\ step' = "lift" /\ phase' = phase /\ phase = "up" /\ Due # {}
        BY <2>2 DEF ClaimUnmute
    <3>2. Claimed \in SUBSET Claim /\ Claimed # {} /\ \A c, d \in Claimed : c = d
        BY <1>1, <3>1, ClaimTypes
    <3>3. JobType'
        BY <3>1, <3>2 DEF JobType
    <3> QED BY <1>1, <3>1, <3>3 DEF PhaseType
  <2>3. CASE Lift
    <3>1. step' \in {"complete", "fail"} /\ job' = job /\ phase' = phase /\ step = "lift"
        BY <2>3 DEF Lift
    <3> QED BY <1>1, <1>2, <3>1 DEF JobType, PhaseType, At
  <2>4. CASE Settle
    <3>1. step' = "idle" /\ job' = {} /\ phase' = phase
        BY <2>4 DEF Settle
    <3> QED BY <1>1, <1>2, <3>1 DEF JobType, PhaseType, At
  <2>5. CASE Cleanup
      BY <1>1, <1>2, <2>5 DEF Cleanup, worker, JobType, PhaseType, At
  <2> QED BY <2>1, <2>2, <2>3, <2>4, <2>5
<1> QED BY <1>4, <1>5, <1>6, <1>7 DEF TypeOK

LEMMA TypesStep == TypeOK /\ [Next]_vars => TypeOK'
<1> SUFFICES ASSUME TypeOK, [Next]_vars PROVE TypeOK'
    OBVIOUS
<1>1. /\ StoreType /\ HandlerType /\ TelegramType /\ JobType /\ BoundType /\ CountType /\ PhaseType
      /\ MaxPardons \in Nat /\ MaxCrashes \in Nat
    BY StrikesAssumption DEF TypeOK
<1>2. CASE \/ Reset \/ ReportBan \/ Pardon \/ MuteExpires \/ Restart \/ Tick \/ UNCHANGED vars
  <2>1. /\ UNCHANGED <<table, handler, worker, strikes, since, crossed, until>>
        /\ now' = now \/ now' = now + 1
        /\ member' = member \/ member' \in {"free", "banned"}
        /\ Works \/ Fails
           \/ /\ pardons' = pardons + 1 /\ pardons < MaxPardons
              /\ UNCHANGED <<strikes, crashes, faults>>
      BY <1>2 DEF Reset, ReportBan, Pardon, MuteExpires, Restart, Tick, vars, table, worker,
                  telegram, history, Banned, Works, Fails, bounds
  <2>2. /\ UNCHANGED <<count, resets, late>>
        \/ /\ resets > 0 /\ resets' = resets - 1 /\ count' \in {0, count} /\ late' \in {TRUE, late}
      BY <1>2 DEF Reset, ReportBan, Pardon, MuteExpires, Restart, Tick, vars, history
  <2>3. phase' = phase \/ phase' = "starting"
      BY <1>2 DEF Reset, ReportBan, Pardon, MuteExpires, Restart, Tick, vars
  <2>4. StoreType' /\ HandlerType' /\ TelegramType' /\ JobType'
      BY <1>1, <2>1 DEF StoreType, HandlerType, TelegramType, JobType, table, worker
  <2>5. BoundType'
      BY <1>1, <2>1, BoundTypes DEF BoundType
  <2>6. CountType'
    <3>1. /\ strikes' = strikes /\ since' = since
          /\ resets' = resets \/ (resets > 0 /\ resets' = resets - 1)
          /\ count' = count \/ count' = 0
        BY <2>1, <2>2
    <3>2. /\ strikes \in Nat /\ count \in 0 .. strikes /\ since \in 0 .. strikes /\ resets \in Nat
        BY <1>1 DEF CountType, BoundType
    <3>3. count' \in 0 .. strikes' /\ since' \in 0 .. strikes' /\ resets' \in Nat
        BY <3>1, <3>2
    <3>4. late' = late \/ late' = TRUE
        BY <2>2, Zenon
    <3>5. late' \in BOOLEAN /\ crossed' \in BOOLEAN
        BY <1>1, <2>1, <3>4, Zenon DEF CountType
    <3> QED BY <3>3, <3>5 DEF CountType
  <2>7. PhaseType'
    <3>1. phase = "down" => resets = 0 /\ resets' = 0
        BY <1>1, <2>2 DEF PhaseType
    <3>2. UNCHANGED <<handler, job>>
        BY <2>1 DEF worker
    <3> QED BY <1>1, <2>3, <3>1, <3>2 DEF PhaseType, At
  <2> QED BY <2>4, <2>5, <2>6, <2>7 DEF TypeOK
<1>3. CASE Crash
  <2>1. /\ UNCHANGED <<table, now, count, member, until, strikes, pardons, faults, since, crossed>>
        /\ crashes < MaxCrashes /\ crashes' = crashes + 1
        /\ handler' = [h \in Workers |-> Idle]
        /\ phase' = "down" /\ resets' = 0 /\ job' = {} /\ step' = "idle"
      BY <1>3 DEF Crash, telegram
  <2>2. StoreType' /\ TelegramType' /\ JobType' /\ BoundType'
      BY <1>1, <2>1 DEF StoreType, TelegramType, JobType, BoundType, table
  <2>3. HandlerType' /\ PhaseType'
      BY <2>1 DEF HandlerType, PhaseType, At, Idle
  <2>4. late' \in BOOLEAN
    <3>1. late' = (late \/ Someone("ban") \/ resets > 0)
        BY <1>3, Zenon DEF Crash
    <3> QED BY <3>1, Zenon
  <2>5. CountType'
      BY <1>1, <2>1, <2>4 DEF CountType
  <2> QED BY <2>2, <2>3, <2>5 DEF TypeOK
<1> QED BY <1>2, <1>3, StrikeTypes, AnswerTypes, WorkerTypes DEF Next, HandlerStep

(* The table, the counters, the handlers, the unmute task and the member    *)
(* keep their types under every step.                                       *)
THEOREM TypeCorrect == Spec => []TypeOK
BY TypesInit, TypesStep, PTL DEF Spec

----------------------------------------------------------------------------
(* What the end of a mute rests on. *)
Row == tasks[User]
RowTypes ==
  /\ tasks = [k \in Keys |-> tasks[k]]
  /\ Row.id \in Nat /\ Row.runAt \in Nat /\ Row.attempts \in Nat
  /\ nextId \in Nat
Ends == \A h \in Workers : handler[h].until \in Nat
Jobs ==
  /\ \A c \in job : c.attempts \in Nat
  /\ step = "lift" => job # {}
Counters == now \in Nat /\ until \in Nat /\ faults \in Nat /\ crashes \in Nat

MuteTypes == Shape /\ RowTypes /\ Ends /\ Jobs /\ Counters

LEMMA MuteIsTyped == TypeOK => MuteTypes
<1> SUFFICES ASSUME TypeOK PROVE MuteTypes
    OBVIOUS
<1>1. StoreType /\ HandlerType /\ TelegramType /\ JobType /\ BoundType
    BY DEF TypeOK
<1>2. Shape /\ Ends
    BY <1>1 DEF Shape, Ends, HandlerType
<1>3. RowTypes
    BY <1>1, Constants DEF RowTypes, Row, StoreType, Task
<1>4. Jobs
    BY <1>1 DEF Jobs, JobType, Claim
<1>5. Counters
    BY <1>1, StrikesAssumption DEF Counters, StoreType, TelegramType, BoundType
<1> QED BY <1>2, <1>3, <1>4, <1>5 DEF MuteTypes

----------------------------------------------------------------------------
(* Where the mutes are backed: no call failed, no process died, no two mutes *)
(* met.                                                                      *)
Quiet == faults = 0 /\ crashes = 0 /\ ~crossed

(* A handler on its way to the table has the end that Telegram was given. *)
OwnEnd == \A h \in Workers : At(h, "enqueue") => handler[h].until = until

(* A mute that lasts, with nobody on the way to the table. *)
Lasting == member = "muted" /\ now < until /\ ~Someone("enqueue")

(* Its task waits for the end, and no worker has an older one in hand. *)
Waiting ==
  /\ job = {}
  /\ Row.status = "pending" /\ Row.payload.at = until /\ Row.runAt = until

MuteInv == TypeOK /\ (Quiet => OwnEnd /\ (Lasting => Waiting))

LEMMA MuteInit == Init => MuteInv
<1> SUFFICES ASSUME Init PROVE MuteInv
    OBVIOUS
<1>1. OwnEnd /\ ~Lasting
    BY DEF Init, OwnEnd, Lasting, At, Idle
<1> QED BY <1>1, TypesInit DEF MuteInv

(* What was quiet after a step was quiet before it. *)
LEMMA QuietBefore == MuteTypes /\ [Next]_vars /\ Quiet' => Quiet /\ faults' = faults
<1> SUFFICES ASSUME MuteTypes, [Next]_vars, Quiet' PROVE Quiet /\ faults' = faults
    OBVIOUS
<1>1. faults \in Nat /\ crashes \in Nat /\ faults' = 0 /\ crashes' = 0
    BY DEF MuteTypes, Counters, Quiet
<1>2. faults' = faults \/ faults' = faults + 1
    BY DEF Next, HandlerStep, Strike, Mute, Enqueue, Ban, Reset, ReportBan, Pardon, MuteExpires, Recover,
           ClaimUnmute, Lift, Settle, Cleanup, Crash, Restart, Tick, vars, Works, Fails, bounds
<1>3. crashes' = crashes \/ crashes' = crashes + 1
    BY DEF Next, HandlerStep, Strike, Mute, Enqueue, Ban, Reset, ReportBan, Pardon, MuteExpires, Recover,
           ClaimUnmute, Lift, Settle, Cleanup, Crash, Restart, Tick, vars, Works, Fails, bounds
<1>4. crossed => crossed'
  <2>1. ASSUME NEW h \in Workers, Mute(h) \/ Enqueue(h) PROVE crossed => crossed'
      BY <2>1, Zenon DEF Mute, Enqueue
  <2>2. CASE \/ \E h \in Workers : Strike(h) \/ Ban(h)
             \/ Reset \/ ReportBan \/ Pardon \/ MuteExpires \/ Recover \/ ClaimUnmute \/ Lift
             \/ Settle \/ Cleanup \/ Crash \/ Restart \/ Tick \/ UNCHANGED vars
      BY <2>2 DEF Strike, Ban, Reset, ReportBan, Pardon, MuteExpires, Recover, ClaimUnmute, Lift,
                  Settle, Cleanup, Crash, Restart, Tick, vars, history
  <2> QED BY <2>1, <2>2, Zenon DEF Next, HandlerStep
<1>5. faults' = faults /\ faults = 0 /\ crashes = 0
    BY <1>1, <1>2, <1>3
<1>6. ~crossed'
    BY Zenon DEF Quiet
<1> QED BY <1>4, <1>5, <1>6, Zenon DEF Quiet

Good == OwnEnd /\ (Lasting => Waiting)

(* Steps that leave the table, the job and the ends alone and mute nobody. *)
LEMMA GoodElsewhere ==
  ASSUME MuteTypes, Good, UNCHANGED <<table, job, until>>,
         now' = now \/ now' = now + 1,
         member' = member \/ member' # "muted",
         \A h \in Workers : /\ At(h, "enqueue")' <=> At(h, "enqueue")
                            /\ At(h, "enqueue") => handler'[h] = handler[h]
  PROVE  Good'
<1>1. OwnEnd'
    BY DEF Good, OwnEnd, At
<1>2. Lasting' => Lasting
    BY DEF Lasting, Someone, MuteTypes, Counters
<1>3. Waiting => Waiting'
    BY DEF Waiting, Row, table
<1> QED BY <1>1, <1>2, <1>3 DEF Good

(* A mute that does not meet another gives its end to Telegram. *)
LEMMA GoodMute ==
  ASSUME MuteTypes, Good, NEW h \in Workers, Mute(h), Quiet', faults' = faults
  PROVE  Good'
<1>1. /\ until' = now + MuteTime
      /\ handler' = [handler EXCEPT ![h] = [at |-> "enqueue", until |-> now + MuteTime]]
  <2>1. ~Fails
      BY DEF Fails, MuteTypes, Counters
  <2> QED BY <2>1 DEF Mute
<1>2. ~Someone("enqueue")
  <2>1. ~crossed'
      BY Zenon DEF Quiet
  <2> QED BY <2>1, Zenon DEF Mute
<1>3. PICK s : s = [at |-> "enqueue", until |-> now + MuteTime]
    OBVIOUS
<1>4. s.at = "enqueue" /\ s.until = until'
    BY <1>1, <1>3
<1>5. handler'[h] = s /\ \A g \in Workers \ {h} : handler'[g] = handler[g]
    BY <1>1, <1>3, Goes DEF MuteTypes
<1>6. OwnEnd'
    BY <1>2, <1>4, <1>5 DEF OwnEnd, Someone, At
<1>7. ~Lasting'
    BY <1>4, <1>5 DEF Lasting, Someone, At
<1> QED BY <1>6, <1>7 DEF Good

(* Its task goes into the table while no worker has an older one. *)
LEMMA GoodEnqueue ==
  ASSUME MuteTypes, Good, NEW h \in Workers, Enqueue(h), Quiet', faults' = faults
  PROVE  Good'
<1>1. /\ EnqueueTask(User, [ref |-> nextId, at |-> handler[h].until], handler[h].until)
      /\ handler' = [handler EXCEPT ![h] = Idle] /\ UNCHANGED <<job, until>>
      /\ handler[h].until = until
  <2>1. ~Fails
      BY DEF Fails, MuteTypes, Counters
  <2>2. handler[h].until = until
      BY DEF Enqueue, Good, OwnEnd
  <2> QED BY <2>1, <2>2 DEF Enqueue, telegram, worker
<1>2. job = {}
  <2>1. ~crossed'
      BY Zenon DEF Quiet
  <2>2. ~Fails
      BY DEF Fails, MuteTypes, Counters
  <2> QED BY <2>1, <2>2, Zenon DEF Enqueue
<1>3. handler'[h] = Idle /\ \A g \in Workers \ {h} : handler'[g] = handler[g]
    BY <1>1, Goes DEF MuteTypes
<1>4. OwnEnd'
    BY <1>1, <1>3 DEF Good, OwnEnd, At, Idle
<1>5. Waiting'
  <2>1. PICK p : p = [ref |-> nextId, at |-> handler[h].until]
      OBVIOUS
  <2>2. p.at = until
      BY <1>1, <2>1
  <2>3. PICK row : row = [id |-> IF Present(User) THEN tasks[User].id ELSE nextId,
                          payload |-> p, runAt |-> handler[h].until,
                          status |-> "pending", attempts |-> 0, updatedAt |-> now]
      OBVIOUS
  <2>4. row.status = "pending" /\ row.payload = p /\ row.runAt = until
      BY <1>1, <2>3
  <2>5. tasks' = [tasks EXCEPT ![User] = row]
      BY <1>1, <2>1, <2>3, Zenon DEF EnqueueTask
  <2>6. tasks'[User] = row
      BY <2>5, Constants DEF MuteTypes, RowTypes
  <2>7. job' = {} /\ until' = until
      BY <1>1, <1>2
  <2> QED BY <2>2, <2>4, <2>6, <2>7 DEF Waiting, Row
<1> QED BY <1>4, <1>5 DEF Good

(* The worker finds nothing to do with the row of a mute that lasts. *)
LEMMA GoodWorker ==
  ASSUME MuteTypes, Good, Recover \/ ClaimUnmute \/ Settle \/ Cleanup
  PROVE  Good'
<1>1. UNCHANGED <<handler, member, until, now>>
    BY DEF Recover, ClaimUnmute, Settle, Cleanup, telegram
<1>2. OwnEnd'
    BY <1>1 DEF Good, OwnEnd, At
<1>3. ASSUME Lasting' PROVE Waiting'
  <2>1. Lasting /\ Waiting
      BY <1>1, <1>3 DEF Good, Lasting, Someone, At
  <2>2. now < until /\ Row.runAt = until /\ Row.status = "pending" /\ job = {} /\ Keys = {User}
      BY <2>1, Constants DEF Lasting, Waiting
  <2>3. Due = {}
      BY <2>2 DEF Due, Row, MuteTypes, Counters
  <2>4. Recover
      BY <2>2, <2>3 DEF ClaimUnmute, Settle, Cleanup, Stale, Row
  <2>5. tasks'[User] = tasks[User] /\ job' = job
      BY <2>2, <2>4 DEF Recover, RecoverRunningTasks, table, worker, Row
  <2> QED BY <1>1, <2>1, <2>5 DEF Waiting, Row
<1> QED BY <1>2, <1>3 DEF Good

(* Every step keeps the invariant. *)
LEMMA MuteStep == MuteInv /\ [Next]_vars => MuteInv'
<1> SUFFICES ASSUME MuteInv, [Next]_vars PROVE MuteInv'
    OBVIOUS
<1>0. TypeOK /\ TypeOK'
    BY TypesStep DEF MuteInv
<1>1. MuteTypes /\ MuteTypes'
    BY <1>0, MuteIsTyped, PTL
<1>2. ASSUME Quiet' PROVE Good'
  <2>1. Good /\ Quiet /\ faults' = faults /\ faults \in Nat /\ Shape
      BY <1>1, <1>2, QuietBefore DEF MuteInv, Good, MuteTypes, Counters
  <2>2. ~Fails
      BY <2>1 DEF Fails
  <2>3. ASSUME NEW h \in Workers, Strike(h) \/ Ban(h) PROVE Good'
    <3>1. /\ UNCHANGED <<table, job, until, now>>
          /\ member' = member \/ member' # "muted"
        BY <2>3 DEF Strike, Ban, Banned, telegram, worker
    <3>2. handler' = handler
          \/ \E s : handler' = [handler EXCEPT ![h] = s] /\ s.at # "enqueue"
      <4>1. \A a : [at |-> a, until |-> 0].at = a
          OBVIOUS
      <4>2. \/ handler' = handler \/ handler' = [handler EXCEPT ![h] = Idle]
            \/ handler' = [handler EXCEPT ![h] = [at |-> Answer(count + 1), until |-> 0]]
          BY <2>3, Zenon DEF Strike, Ban
      <4>3. Answer(count + 1) # "enqueue"
          BY DEF Answer
      <4>4. [at |-> Answer(count + 1), until |-> 0].at # "enqueue" /\ Idle.at # "enqueue"
          BY <4>1, <4>3 DEF Idle
      <4> QED BY <4>2, <4>4, Zenon
    <3>3. ~At(h, "enqueue")
        BY <2>3 DEF Strike, Ban, At
    <3>4. \A g \in Workers : /\ At(g, "enqueue")' <=> At(g, "enqueue")
                             /\ At(g, "enqueue") => handler'[g] = handler[g]
        BY <2>1, <3>2, <3>3, Goes DEF At
    <3> QED BY <1>1, <2>1, <3>1, <3>4, GoodElsewhere
  <2>4. CASE Reset \/ ReportBan \/ Pardon \/ MuteExpires \/ Restart \/ Tick \/ UNCHANGED vars
    <3>1. /\ UNCHANGED <<table, job, until, handler>>
          /\ now' = now \/ now' = now + 1
          /\ member' = member \/ member' # "muted"
        BY <2>4 DEF Reset, ReportBan, Pardon, MuteExpires, Restart, Tick, vars, Banned, table,
                    telegram, worker
    <3>2. \A g \in Workers : /\ At(g, "enqueue")' <=> At(g, "enqueue")
                             /\ At(g, "enqueue") => handler'[g] = handler[g]
        BY <3>1 DEF At
    <3> QED BY <1>1, <2>1, <3>1, <3>2, GoodElsewhere
  <2>5. CASE Lift
    <3>1. UNCHANGED <<until, handler>> /\ member' # "muted"
        BY <2>2, <2>5 DEF Lift
    <3> QED BY <2>1, <3>1 DEF Good, OwnEnd, At, Lasting
  <2>6. CASE Crash
      BY <1>1, <1>2, <2>6 DEF Crash, Quiet, MuteTypes, Counters
  <2>7. CASE Recover \/ ClaimUnmute \/ Settle \/ Cleanup
      BY <1>1, <2>1, <2>7, GoodWorker
  <2> QED BY <1>1, <1>2, <2>1, <2>3, <2>4, <2>5, <2>6, <2>7, GoodMute, GoodEnqueue DEF Next, HandlerStep
<1> QED BY <1>0, <1>2 DEF MuteInv, Good

(* What is muted has its end in the table, at the time Telegram was given. *)
THEOREM MutesAreBacked == Spec => []MuteIsBacked
<1>1. MuteInv => MuteIsBacked
    BY DEF MuteInv, MuteIsBacked, Quiet, Lasting, Waiting, Row, Outstanding
<1> QED BY <1>1, MuteInit, MuteStep, PTL DEF Spec

(* The task of an older mute does not cut a newer one short. *)
EarlyUnmute == /\ member = "muted" /\ member' = "free"
               /\ ~(until <= now) /\ ~(crossed \/ Someone("enqueue"))
               /\ ~(faults > 0 \/ crashes > 0)

LEMMA NotEarly == MuteInv /\ [Next]_vars => ~EarlyUnmute
<1> SUFFICES ASSUME MuteInv, [Next]_vars, EarlyUnmute PROVE FALSE
    OBVIOUS
<1>1. MuteTypes /\ Lasting
  <2>1. MuteTypes
      BY MuteIsTyped DEF MuteInv
  <2> QED BY <2>1 DEF EarlyUnmute, Lasting, MuteTypes, Counters
<1>2. Quiet
  <2>1. ~(faults > 0) /\ ~(crashes > 0)
      BY DEF EarlyUnmute
  <2>2. faults = 0 /\ crashes = 0
      BY <1>1, <2>1 DEF MuteTypes, Counters
  <2> QED BY <2>2, Zenon DEF Quiet, EarlyUnmute
<1>3. job = {} /\ step # "lift"
    BY <1>1, <1>2 DEF MuteInv, Waiting, MuteTypes, Jobs
<1>4. CASE Lift
    BY <1>3, <1>4 DEF Lift
<1>5. CASE MuteExpires
    BY <1>5 DEF MuteExpires, EarlyUnmute
<1>6. CASE Pardon
    BY <1>6 DEF Pardon, EarlyUnmute
<1>7. ASSUME NEW h \in Workers, Strike(h) \/ HandlerStep(h) PROVE member' = member \/ member' # "free"
    BY <1>7 DEF Strike, HandlerStep, Mute, Enqueue, Ban, Banned, telegram
<1>8. CASE \/ Reset \/ ReportBan \/ Recover \/ ClaimUnmute \/ Settle \/ Cleanup \/ Crash
           \/ Restart \/ Tick \/ UNCHANGED vars
    BY <1>8 DEF Reset, ReportBan, Banned, Recover, ClaimUnmute, Settle, Cleanup, Crash, Restart,
                Tick, vars, telegram, EarlyUnmute
<1>9. member' # member /\ member' = "free"
    BY DEF EarlyUnmute
<1> QED BY <1>4, <1>5, <1>6, <1>7, <1>8, <1>9 DEF Next

THEOREM NoMuteIsCutShort == Spec => NoEarlyUnmute
<1>1. MuteInv /\ [Next]_vars
      => [member = "muted" /\ member' = "free" =>
            \/ until <= now
            \/ crossed \/ Someone("enqueue")
            \/ faults > 0 \/ crashes > 0]_vars
    BY NotEarly, Zenon DEF EarlyUnmute
<1> QED BY <1>1, MuteInit, MuteStep, PTL DEF Spec, NoEarlyUnmute
=============================================================================
