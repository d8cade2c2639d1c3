------------------------- MODULE UpdateIntakeProofs -------------------------
(***************************************************************************)
(* The safety of UpdateIntake, for any number of instances, workers,       *)
(* updates, exits and broken connections: that the advisory lock keeps two *)
(* processes from working on polled updates together, that no update is    *)
(* forgotten, that what is lost was in the memory of a process that ended, *)
(* that an update is handled again for a reason only, and that a process   *)
(* begins polled updates in their order.                                   *)
(***************************************************************************)
EXTENDS UpdateIntake, FiniteSetTheorems, TLAPS

(* What is a process's own is a function of the process. *)
PerInstance ==
  /\ phase = [i \in Instances |-> phase[i]]
  /\ queue = [i \in Instances |-> queue[i]]
  /\ hand = [i \in Instances |-> hand[i]]
  /\ batch = [i \in Instances |-> batch[i]]

(* A process that works, or that has something left to work on: one that    *)
(* was told to stop may take another update until it has returned.          *)
Engaged(i) ==
  \/ phase[i] \in {"up", "returning"}
  \/ Busy(i) \/ queue[i] # <<>> \/ batch[i] # {}

(* It has the lock, unless its connection broke. *)
HoldsLock ==
  mode = "polling" => \A i \in Instances \ broken : Engaged(i) => lock = i

LockInv == PerInstance /\ HoldsLock

(* At the start nobody works. *)
LEMMA InitLock == Init => LockInv
<1> SUFFICES ASSUME Init PROVE LockInv
    OBVIOUS
<1>1. PerInstance
    BY DEF Init, PerInstance
<1>2. ASSUME NEW i \in Instances PROVE ~Engaged(i)
  <2>1. phase[i] = "down" /\ queue[i] = <<>> /\ batch[i] = {}
      BY DEF Init
  <2>2. hand[i] = Free
      BY DEF Init
  <2>3. ~Busy(i)
      BY <2>2 DEF Busy, Free
  <2> QED BY <2>1, <2>3 DEF Engaged
<1> QED BY <1>1, <1>2 DEF LockInv, HoldsLock

(* A step of one instance that leaves the lock alone and engages it only if *)
(* it was engaged before.                                                   *)
LEMMA OwnStep ==
  ASSUME LockInv, mode' = mode, UNCHANGED locks, PerInstance', NEW i \in Instances,
         mode = "polling" /\ Engaged(i)' => Engaged(i),
         \A j \in Instances \ {i} :
           /\ phase'[j] = phase[j] /\ queue'[j] = queue[j]
           /\ hand'[j] = hand[j] /\ batch'[j] = batch[j]
  PROVE  LockInv'
<1>1. \A j \in Instances \ {i} : Engaged(j)' => Engaged(j)
    BY DEF Engaged, Busy
<1> QED BY <1>1 DEF LockInv, HoldsLock, locks

(* Those that change only where the process is.  Stop leaves it engaged if  *)
(* it was; a process that is refused was not.                               *)
LEMMA PhaseStep ==
  ASSUME LockInv, NEW i \in Instances,
         Launch(i) \/ Refused(i) \/ Stop(i) \/ Conflict(i)
  PROVE  LockInv'
<1>1. /\ mode' = mode /\ UNCHANGED locks
      /\ queue' = queue /\ hand' = hand /\ batch' = batch
    BY DEF Launch, Refused, Stop, Conflict, inside, locks
<1>2. PICK p : phase' = [phase EXCEPT ![i] = p] /\ (p = "returning" => phase[i] = "up")
                /\ p # "up"
    BY DEF Launch, Refused, Stop, Conflict, Becomes
<1>3. PerInstance'
    BY <1>1, <1>2 DEF LockInv, PerInstance
<1>4. phase'[i] = p /\ \A j \in Instances \ {i} : phase'[j] = phase[j]
    BY <1>2 DEF LockInv, PerInstance
<1>5. Engaged(i)' => Engaged(i)
    BY <1>1, <1>2, <1>4 DEF Engaged, Busy
<1> QED BY <1>1, <1>3, <1>4, <1>5, OwnStep

(* The steps of a process that is engaged already. *)
LEMMA WorkStep ==
  ASSUME LockInv, NEW i \in Instances,
         \/ Poll(i) \/ Push(i)
         \/ \E w \in Workers : WorkerStep(i, w)
  PROVE  LockInv'
<1>1. mode' = mode /\ UNCHANGED locks /\ phase' = phase
    BY DEF Poll, Push, WorkerStep, Take, Finish
<1>2. mode = "polling" => Engaged(i)
    BY DEF Poll, Push, WorkerStep, Take, Finish, Engaged, Busy
<1>3. /\ \A j \in Instances \ {i} :
           queue'[j] = queue[j] /\ hand'[j] = hand[j] /\ batch'[j] = batch[j]
      /\ PerInstance'
  <2>1. CASE Poll(i)
      BY <1>1, <2>1 DEF Poll, LockInv, PerInstance
  <2>2. CASE Push(i)
      BY <1>1, <2>2 DEF Push, LockInv, PerInstance
  <2>3. ASSUME NEW w \in Workers, Take(i, w) PROVE <1>3!1 /\ <1>3!2
      BY <1>1, <2>3 DEF Take, LockInv, PerInstance
  <2>4. ASSUME NEW w \in Workers, Finish(i, w) PROVE <1>3!1 /\ <1>3!2
      BY <1>1, <2>4 DEF Finish, LockInv, PerInstance
  <2> QED BY <2>1, <2>2, <2>3, <2>4 DEF WorkerStep
<1> QED BY <1>1, <1>2, <1>3, OwnStep

(* The webhook's process needs no lock. *)
LEMMA PostStep ==
  ASSUME LockInv, NEW i \in Instances, NEW x \in pending, Post(i, x)
  PROVE  LockInv'
<1>1. /\ mode' = mode /\ mode = "webhook" /\ UNCHANGED locks
      /\ phase' = phase /\ hand' = hand /\ batch' = batch
    BY DEF Post
<1>2. PerInstance' /\ \A j \in Instances \ {i} : queue'[j] = queue[j]
    BY <1>1 DEF Post, LockInv, PerInstance
<1> QED BY <1>1, <1>2, OwnStep

(* A polling process starts when nobody has the lock, and so nobody whose   *)
(* connection is whole is engaged.                                          *)
LEMMA StartStep ==
  ASSUME LockInv, NEW i \in Instances, Start(i)
  PROVE  LockInv'
<1>1. /\ mode' = mode /\ broken' = broken
      /\ queue' = queue /\ hand' = hand /\ batch' = batch
      /\ phase' = [phase EXCEPT ![i] = "up"]
    BY DEF Start, Becomes, inside
<1>2. PerInstance' /\ \A j \in Instances \ {i} : phase'[j] = phase[j]
    BY <1>1 DEF LockInv, PerInstance
<1>3. ASSUME mode = "polling" PROVE HoldsLock'
  <2>1. lock = None /\ lock' = i
      BY <1>3 DEF Start
  <2>2. None \notin Instances
      BY IntakeAssumption
  <2>3. \A j \in Instances \ broken : ~Engaged(j)
      BY <1>3, <2>1, <2>2 DEF LockInv, HoldsLock
  <2>4. \A j \in Instances \ {i} : Engaged(j)' => Engaged(j)
      BY <1>1, <1>2 DEF Engaged, Busy
  <2> QED BY <1>1, <2>1, <2>3, <2>4 DEF HoldsLock
<1> QED BY <1>1, <1>2, <1>3 DEF LockInv, HoldsLock

(* A process that has ended is not engaged, and freed no lock but its own. *)
LEMMA EndStep ==
  ASSUME LockInv, NEW i \in Instances, Exit(i) \/ Return(i)
  PROVE  LockInv'
<1>1. Ends(i)
    BY DEF Exit, Return
<1>2. PerInstance'
    BY <1>1 DEF Ends, Becomes, LockInv, PerInstance
<1>3. ~Engaged(i)'
  <2>1. phase'[i] = "down" /\ queue'[i] = <<>> /\ batch'[i] = {} /\ hand'[i] = Free
      BY <1>1 DEF Ends, Becomes, LockInv, PerInstance
  <2>2. ~Busy(i)'
      BY <2>1 DEF Busy, Free
  <2> QED BY <2>1, <2>2 DEF Engaged
<1>4. \A j \in Instances \ {i} : Engaged(j)' => Engaged(j)
  <2>1. \A j \in Instances \ {i} : /\ phase'[j] = phase[j] /\ queue'[j] = queue[j]
                                  /\ hand'[j] = hand[j] /\ batch'[j] = batch[j]
      BY <1>1 DEF Ends, Becomes, LockInv, PerInstance
  <2> QED BY <2>1 DEF Engaged, Busy
<1>5. /\ mode' = mode /\ broken' = broken \ {i}
      /\ lock' = IF lock = i THEN None ELSE lock
    BY <1>1 DEF Ends
<1> QED BY <1>2, <1>3, <1>4, <1>5 DEF LockInv, HoldsLock

(* When a connection breaks, its process held the lock, and nobody else     *)
(* was engaged.                                                             *)
LEMMA BreakStep ==
  ASSUME LockInv, NEW i \in Instances, Break(i)
  PROVE  LockInv'
<1>1. /\ mode' = mode /\ lock = i /\ broken' = broken \cup {i}
      /\ phase' = phase /\ queue' = queue /\ hand' = hand /\ batch' = batch
    BY DEF Break, inside
<1>2. PerInstance' /\ \A j \in Instances : Engaged(j)' = Engaged(j)
    BY <1>1 DEF LockInv, PerInstance, Engaged, Busy
<1> QED BY <1>1, <1>2 DEF LockInv, HoldsLock

(* Every step of the specification keeps the invariant: one case for each   *)
(* group of actions above.                                                  *)
LEMMA StepLock == LockInv /\ [Next]_vars => LockInv'
<1> SUFFICES ASSUME LockInv, [Next]_vars PROVE LockInv'
    OBVIOUS
<1>1. CASE Arrive \/ UNCHANGED vars
  <2>1. /\ mode' = mode /\ lock' = lock /\ broken' = broken
        /\ phase' = phase /\ queue' = queue /\ hand' = hand /\ batch' = batch
      BY <1>1 DEF Arrive, vars, locks, inside
  <2> QED BY <2>1 DEF LockInv, PerInstance, HoldsLock, Engaged, Busy
<1>2. ASSUME NEW i \in Instances,
             \/ Launch(i) \/ Start(i) \/ Refused(i)
             \/ \E x \in pending : Post(i, x)
             \/ Poll(i) \/ Push(i)
             \/ \E w \in Workers : WorkerStep(i, w)
             \/ Stop(i) \/ Conflict(i) \/ Exit(i) \/ Return(i) \/ Break(i)
      PROVE  LockInv'
    BY <1>2, PhaseStep, WorkStep, PostStep, StartStep, EndStep, BreakStep
<1> QED BY <1>1, <1>2 DEF Next

(* Two processes are not at work on polled updates together, unless the     *)
(* connection with the lock of one broke.                                   *)
THEOREM OneIsAtWork == Spec => []OneAtWork
<1>1. LockInv => OneAtWork
    BY DEF LockInv, HoldsLock, OneAtWork, AtWork, Engaged
<1> QED BY <1>1, InitLock, StepLock, PTL DEF Spec

----------------------------------------------------------------------------
(* The constants, and the numbers of updates. *)
LEMMA Constants ==
  /\ QueueSize \in Nat /\ QueueSize >= 1 /\ Last \in Nat
  /\ \A x \in Id : x \in Nat /\ x >= 1 /\ x <= Last
BY IntakeAssumption DEF Id

(* Free is a worker's record with nothing in hand. *)
LEMMA FreeType == Free \in [Workers -> {0} \cup Id]
BY DEF Free

(* Init gives the types. *)
LEMMA TypeInit == Init => TypeOK
<1> SUFFICES ASSUME Init PROVE TypeOK
    OBVIOUS
<1>1. queue \in [Instances -> Seq(Id)] /\ \A i \in Instances : Len(queue[i]) <= QueueSize
    BY Constants DEF Init
<1>2. hand \in [Instances -> [Workers -> {0} \cup Id]]
    BY FreeType DEF Init
<1>3. tried \in [Id -> Nat] /\ arrived \in 0 .. Last /\ offset \in [Instances -> 0 .. Last + 1]
    BY Constants DEF Init
<1> QED BY <1>1, <1>2, <1>3 DEF Init, TypeOK

(* A queue with room takes one more update, and gives its first. *)
LEMMA QueueType ==
  ASSUME NEW q \in Seq(Id), NEW x \in Id
  PROVE  /\ Append(q, x) \in Seq(Id) /\ Len(Append(q, x)) = Len(q) + 1
         /\ q # <<>> => /\ Head(q) \in Id /\ Tail(q) \in Seq(Id)
                        /\ Len(Tail(q)) = Len(q) - 1
OBVIOUS

(* What is in memory are updates. *)
LEMMA HeldType ==
  ASSUME TypeOK
  PROVE  Memory \subseteq Id /\ Losses \subseteq Id
<1>1. \A i \in Instances : Held(i) \subseteq Id
    BY DEF TypeOK, Held
<1> QED BY <1>1 DEF Memory, Losses

(* Every step keeps the types: one case per action or two. *)
LEMMA TypeStep == TypeOK /\ [Next]_vars => TypeOK'
<1> SUFFICES ASSUME TypeOK, [Next]_vars PROVE TypeOK'
    OBVIOUS
<1> USE DEF updates, inside, locks, bounds, history
<1>1. CASE Arrive
    BY <1>1, Constants DEF Arrive, TypeOK
<1>2. ASSUME NEW i \in Instances,
             Launch(i) \/ Start(i) \/ Refused(i) \/ Stop(i) \/ Conflict(i)
      PROVE  TypeOK'
  <2>1. phase' \in [Instances -> {"down", "starting", "up", "stopping", "returning"}]
      BY <1>2 DEF Launch, Start, Refused, Stop, Conflict, Becomes, TypeOK
  <2>2. exits' \in Nat /\ lock' \in Instances \cup {None}
      BY <1>2 DEF Launch, Start, Refused, Stop, Conflict, TypeOK
  <2>3. UNCHANGED <<mode, updates, broken, inside, breaks, faults, history>>
      BY <1>2 DEF Launch, Start, Refused, Stop, Conflict
  <2> QED BY <2>1, <2>2, <2>3 DEF TypeOK
<1>3. ASSUME NEW i \in Instances, NEW x \in pending, Post(i, x) PROVE TypeOK'
  <2>1. x \in Id
      BY Constants DEF TypeOK, Id
  <2>2. queue' \in [Instances -> Seq(Id)] /\ \A j \in Instances : Len(queue'[j]) <= QueueSize
      BY <1>3, <2>1, Constants, QueueType DEF Post, TypeOK
  <2>3. pending' \subseteq pending /\ late' \subseteq late \cup {x} /\ faults' \in Nat
      BY <1>3 DEF Post, TypeOK
  <2>4. UNCHANGED <<mode, arrived, phase, locks, hand, batch, offset, exits, breaks,
                    tried, done, lost>>
      BY <1>3 DEF Post
  <2> QED BY <2>1, <2>2, <2>3, <2>4 DEF TypeOK
<1>4. ASSUME NEW i \in Instances, Poll(i) PROVE TypeOK'
  <2>1. pending' \subseteq pending /\ Kept(i) \subseteq pending /\ pending \subseteq Id
      BY <1>4, Constants DEF Poll, Kept, TypeOK, Id
  <2>2. \A B \in Answer(i) : B \subseteq Id
      BY <2>1 DEF Answer
  <2>3. batch' \in [Instances -> SUBSET Id] /\ faults' \in Nat
    <3>1. \/ faults' = faults /\ \E B \in Answer(i) : batch' = [batch EXCEPT ![i] = B]
          \/ faults' = faults + 1 /\ batch' = batch
        BY <1>4 DEF Poll
    <3>2. batch \in [Instances -> SUBSET Id] /\ faults \in Nat
        BY DEF TypeOK
    <3>3. ASSUME NEW B \in Answer(i), batch' = [batch EXCEPT ![i] = B]
          PROVE  batch' \in [Instances -> SUBSET Id]
      <4>1. B \in SUBSET Id
          BY <2>2
      <4> QED BY <3>2, <3>3, <4>1
    <3> QED BY <3>1, <3>2, <3>3
  <2>4. UNCHANGED <<mode, arrived, phase, locks, queue, hand, offset, exits, breaks, history>>
      BY <1>4 DEF Poll
  <2> QED BY <2>1, <2>3, <2>4 DEF TypeOK
<1>5. ASSUME NEW i \in Instances, Push(i) PROVE TypeOK'
  <2>1. PICK x \in batch[i] :
          /\ offset' = [offset EXCEPT ![i] = x + 1]
          /\ queue' = [queue EXCEPT ![i] = Append(@, x)]
          /\ batch' = [batch EXCEPT ![i] = @ \ {x}]
      BY <1>5 DEF Push, Smallest, NextOffset
  <2>2. x \in Id
      BY DEF TypeOK
  <2>3. queue' \in [Instances -> Seq(Id)] /\ \A j \in Instances : Len(queue'[j]) <= QueueSize
      BY <1>5, <2>1, <2>2, Constants, QueueType DEF Push, TypeOK
  <2>4. offset' \in [Instances -> 0 .. Last + 1] /\ batch' \in [Instances -> SUBSET Id]
      BY <2>1, <2>2, Constants DEF TypeOK
  <2> QED BY <1>5, <2>3, <2>4 DEF Push, TypeOK
<1>6. ASSUME NEW i \in Instances, NEW w \in Workers, Take(i, w) PROVE TypeOK'
  <2>1. /\ Head(queue[i]) \in Id /\ Tail(queue[i]) \in Seq(Id)
        /\ Len(Tail(queue[i])) <= QueueSize
      BY <1>6, Constants DEF Take, TypeOK
  <2>2. queue' \in [Instances -> Seq(Id)] /\ \A j \in Instances : Len(queue'[j]) <= QueueSize
      BY <1>6, <2>1 DEF Take, TypeOK
  <2>3. hand' \in [Instances -> [Workers -> {0} \cup Id]] /\ tried' \in [Id -> Nat]
      BY <1>6, <2>1 DEF Take, TypeOK
  <2> QED BY <1>6, <2>2, <2>3 DEF Take, TypeOK
<1>7. ASSUME NEW i \in Instances, NEW w \in Workers, Finish(i, w) PROVE TypeOK'
  <2>1. hand' \in [Instances -> [Workers -> {0} \cup Id]] /\ hand[i][w] \in Id
      BY <1>7 DEF Finish, TypeOK
  <2> QED BY <1>7, <2>1, HeldType DEF Finish, TypeOK
<1>8. ASSUME NEW i \in Instances, Exit(i) \/ Return(i) PROVE TypeOK'
  <2>1. Ends(i)
      BY <1>8 DEF Exit, Return
  <2>2. phase' \in [Instances -> {"down", "starting", "up", "stopping", "returning"}]
      BY <2>1 DEF Ends, Becomes, TypeOK
  <2>3. queue' \in [Instances -> Seq(Id)] /\ \A j \in Instances : Len(queue'[j]) <= QueueSize
      BY <2>1, Constants DEF Ends, TypeOK
  <2>4. hand' \in [Instances -> [Workers -> {0} \cup Id]]
      BY <2>1, FreeType DEF Ends, TypeOK
  <2>5. batch' \in [Instances -> SUBSET Id] /\ offset' \in [Instances -> 0 .. Last + 1]
      BY <2>1, Constants DEF Ends, TypeOK
  <2> QED BY <2>1, <2>2, <2>3, <2>4, <2>5, HeldType DEF Ends, TypeOK
<1>9. ASSUME NEW i \in Instances, Break(i) PROVE TypeOK'
    BY <1>9 DEF Break, TypeOK
<1>10. CASE UNCHANGED vars
    BY <1>10 DEF vars, TypeOK
<1> QED BY <1>1, <1>2, <1>3, <1>4, <1>5, <1>6, <1>7, <1>8, <1>9, <1>10 DEF Next, WorkerStep

(* What Telegram keeps and what the processes have keep their types. *)
THEOREM TypeCorrect == Spec => []TypeOK
  BY TypeInit, TypeStep, PTL DEF Spec

----------------------------------------------------------------------------
(* What a process keeps from a step if it keeps what was in the batch, in  *)
(* the queue and in the workers' hands.                                    *)
LEMMA HeldKept ==
  ASSUME NEW i,
         \A x \in batch[i] : x \in Held(i)',
         \A n \in 1 .. Len(queue[i]) : queue[i][n] \in Held(i)',
         \A w \in Workers : hand[i][w] # 0 => hand[i][w] \in Held(i)'
  PROVE  Held(i) \subseteq Held(i)'
<1> DEFINE after == Held(i)'
<1>1. /\ \A x \in batch[i] : x \in after
      /\ \A n \in 1 .. Len(queue[i]) : queue[i][n] \in after
      /\ \A w \in Workers : hand[i][w] # 0 => hand[i][w] \in after
    OBVIOUS
<1> HIDE DEF after
<1>2. \A x \in Held(i) : x \in after
    BY <1>1 DEF Held
<1> QED BY <1>2 DEF after

(* A process that does not poll yet has no offset. *)
Fresh ==
  \A i \in Instances : phase[i] \in {"down", "starting"} => offset[i] = 0 /\ batch[i] = {}

(* Offsets and batches are of updates that came, the batch of later ones. *)
Came ==
  \A i \in Instances :
    /\ offset[i] <= arrived + 1
    /\ \A x \in batch[i] : offset[i] <= x /\ x <= arrived

(* What an offset confirms the process has taken over: while it is up, it   *)
(* holds every update below its offset that Telegram still keeps, unless it *)
(* is done with it.                                                         *)
Covered ==
  \A i \in Instances : phase[i] = "up" =>
    \A x \in pending : x < offset[i] => x \in done \cup lost \cup Held(i)

(* And it has fetched the oldest updates of those above. *)
Oldest ==
  \A i \in Instances : phase[i] = "up" =>
    \A x \in pending, y \in batch[i] : offset[i] <= x /\ x < y => x \in batch[i]

MemoryInv == TypeOK /\ Fresh /\ Came /\ Covered /\ Oldest /\ NothingForgotten

(* At the start nothing came. *)
LEMMA MemoryInit == Init => MemoryInv
<1> SUFFICES ASSUME Init PROVE MemoryInv
    OBVIOUS
<1>1. Fresh /\ Came /\ Covered /\ Oldest
    BY DEF Init, Fresh, Came, Covered, Oldest
<1>2. NothingForgotten
    BY DEF Init, NothingForgotten
<1> QED BY <1>1, <1>2, TypeInit DEF MemoryInv

(* Steps that take nothing out of memory and confirm nothing new. *)
LEMMA HoldingStep ==
  ASSUME MemoryInv, TypeOK', Fresh', Came',
         \A j \in Instances : Held(j) \subseteq Held(j)',
         \A j \in Instances : phase'[j] = "up" =>
            /\ offset'[j] = 0 \/ (phase[j] = "up" /\ offset'[j] = offset[j])
            /\ batch'[j] = {} \/ (phase[j] = "up" /\ offset'[j] = offset[j] /\ batch'[j] = batch[j]),
         UNCHANGED arrived, done \subseteq done', lost \subseteq lost',
         pending' \subseteq pending, pending \ pending' \subseteq done' \cup lost' \cup Memory'
  PROVE  MemoryInv'
<1>1. Memory \subseteq Memory'
    BY DEF Memory
<1>2. NothingForgotten'
    BY <1>1 DEF MemoryInv, NothingForgotten
<1>3. \A x \in pending : x \in Nat /\ x >= 1
    BY Constants DEF MemoryInv, TypeOK
<1>4. Covered'
    BY <1>3 DEF MemoryInv, Covered
<1>5. Oldest'
    BY DEF MemoryInv, Oldest
<1> QED BY <1>2, <1>4, <1>5 DEF MemoryInv

(* Steps in which process i lets go of something: it is done, or lost, or   *)
(* Telegram still has it; and the process is not one that goes on polling,  *)
(* unless it is done.                                                       *)
LEMMA LettingGoStep ==
  ASSUME MemoryInv, TypeOK', Fresh', Came', NEW i \in Instances,
         UNCHANGED <<arrived, pending>>,
         \A j \in Instances \ {i} :
            /\ phase'[j] = phase[j] /\ offset'[j] = offset[j] /\ batch'[j] = batch[j]
            /\ Held(j)' = Held(j),
         done \subseteq done', lost \subseteq lost',
         Losses \subseteq done' \cup lost',
         phase'[i] # "up" \/ (/\ phase[i] = "up" /\ offset'[i] = offset[i] /\ batch'[i] = batch[i]
                              /\ Held(i) \subseteq Held(i)' \cup done')
  PROVE  MemoryInv'
<1>1. NothingForgotten'
    BY DEF MemoryInv, NothingForgotten, Losses
<1>2. Covered'
    BY DEF MemoryInv, Covered
<1>3. Oldest'
    BY DEF MemoryInv, Oldest
<1> QED BY <1>1, <1>2, <1>3 DEF MemoryInv

(* Offsets and batches stay as they are, or become as Telegram answered. *)
LEMMA GroundStep == TypeOK /\ Fresh /\ Came /\ [Next]_vars => Fresh' /\ Came'
<1> SUFFICES ASSUME TypeOK, Fresh, Came, [Next]_vars PROVE Fresh' /\ Came'
    OBVIOUS
<1> USE DEF updates, inside, locks, bounds, history
<1>0. /\ arrived \in Nat /\ \A i \in Instances : offset[i] \in Nat /\ batch[i] \subseteq Nat
      /\ \A x \in pending : x \in Nat /\ x <= arrived
    BY Constants DEF TypeOK
<1>1. CASE Arrive
    BY <1>0, <1>1 DEF Arrive, Fresh, Came
<1>2. ASSUME NEW i \in Instances,
             Launch(i) \/ Start(i) \/ Refused(i) \/ Stop(i) \/ Conflict(i) \/ Break(i)
      PROVE  Fresh' /\ Came'
    BY <1>2 DEF Launch, Start, Refused, Stop, Conflict, Break, Becomes, TypeOK, Fresh, Came
<1>3. ASSUME NEW i \in Instances, NEW x \in pending, Post(i, x) PROVE Fresh' /\ Came'
    BY <1>3 DEF Post, Fresh, Came
<1>4. ASSUME NEW i \in Instances, Poll(i) PROVE Fresh' /\ Came'
  <2>1. UNCHANGED <<phase, offset, arrived>> /\ phase[i] = "up"
      BY <1>4 DEF Poll
  <2>2. \A j \in Instances : \/ batch'[j] = batch[j]
                             \/ j = i /\ \A x \in batch'[j] : x \in pending /\ x >= offset[i]
      BY <1>4 DEF Poll, Answer, Kept, TypeOK
  <2> QED BY <1>0, <2>1, <2>2 DEF Fresh, Came
<1>5. ASSUME NEW i \in Instances, Push(i) PROVE Fresh' /\ Came'
  <2>1. PICK x \in batch[i] :
          /\ \A y \in batch[i] : x <= y
          /\ offset' = [offset EXCEPT ![i] = x + 1]
          /\ batch' = [batch EXCEPT ![i] = @ \ {x}]
      BY <1>5 DEF Push, Smallest, NextOffset
  <2>2. UNCHANGED <<phase, arrived>>
      BY <1>5 DEF Push
  <2>3. /\ offset'[i] = x + 1 /\ batch'[i] = batch[i] \ {x}
        /\ \A j \in Instances \ {i} : offset'[j] = offset[j] /\ batch'[j] = batch[j]
      BY <2>1 DEF TypeOK
  <2>4. x \in Nat /\ x <= arrived /\ \A y \in batch'[i] : x + 1 <= y /\ y <= arrived
      BY <1>0, <2>1, <2>3 DEF Came
  <2>5. Fresh'
      BY <2>2, <2>3 DEF Fresh
  <2>6. \A j \in Instances \ {i} : /\ offset'[j] <= arrived' + 1
                                  /\ \A y \in batch'[j] : offset'[j] <= y /\ y <= arrived'
      BY <2>2, <2>3 DEF Came
  <2>7. offset'[i] <= arrived' + 1 /\ \A y \in batch'[i] : offset'[i] <= y /\ y <= arrived'
      BY <1>0, <2>2, <2>3, <2>4
  <2> QED BY <2>5, <2>6, <2>7 DEF Came
<1>6. ASSUME NEW i \in Instances, NEW w \in Workers, WorkerStep(i, w) PROVE Fresh' /\ Came'
    BY <1>6 DEF WorkerStep, Take, Finish, Fresh, Came
<1>7. ASSUME NEW i \in Instances, Exit(i) \/ Return(i) PROVE Fresh' /\ Came'
  <2>1. Ends(i)
      BY <1>7 DEF Exit, Return
  <2>2. /\ arrived' = arrived
        /\ \A j \in Instances : \/ offset'[j] = 0 /\ batch'[j] = {}
                               \/ UNCHANGED <<phase[j], offset[j], batch[j]>>
      BY <2>1 DEF Ends, Becomes, TypeOK
  <2> QED BY <1>0, <2>2 DEF Fresh, Came
<1>8. CASE UNCHANGED vars
    BY <1>8 DEF vars, Fresh, Came
<1> QED BY <1>1, <1>2, <1>3, <1>4, <1>5, <1>6, <1>7, <1>8 DEF Next

(* A poll confirms only what the process has taken over, and fetches the   *)
(* oldest of the rest.                                                     *)
LEMMA PollMemory ==
  ASSUME MemoryInv, TypeOK', Fresh', Came', NEW i \in Instances, Poll(i)
  PROVE  MemoryInv'
<1>1. /\ pending' = {x \in pending : x >= offset[i]} /\ phase[i] = "up" /\ batch[i] = {}
      /\ UNCHANGED <<arrived, phase, queue, hand, offset, done, lost>>
    BY DEF Poll, Kept, history
<1>2. /\ \A j \in Instances \ {i} : batch'[j] = batch[j]
      /\ batch'[i] = {} \/ batch'[i] \in Answer(i)
    BY <1>1 DEF Poll, MemoryInv, TypeOK
<1>3. \A j \in Instances : Held(j) \subseteq Held(j)'
    BY <1>1, <1>2 DEF Held
<1>4. NothingForgotten'
  <2>1. Memory \subseteq Memory'
      BY <1>3 DEF Memory
  <2>2. \A x \in pending : x < offset[i] \/ x >= offset[i]
      BY Constants DEF MemoryInv, TypeOK
  <2>3. \A x \in pending \ pending' : x \in done \cup lost \cup Memory
      BY <1>1, <2>2 DEF MemoryInv, Covered, Memory
  <2> QED BY <1>1, <2>1, <2>3 DEF MemoryInv, NothingForgotten
<1>5. Covered'
    BY <1>1, <1>3 DEF MemoryInv, Covered
<1>6. Oldest'
  <2> SUFFICES ASSUME NEW j \in Instances, phase[j] = "up", NEW x \in pending', NEW y \in batch'[j],
                      offset[j] <= x, x < y
               PROVE  x \in batch'[j]
      BY <1>1 DEF Oldest
  <2>1. CASE j # i
      BY <1>1, <1>2, <2>1 DEF MemoryInv, Oldest
  <2>2. CASE j = i
    <3>1. /\ y \in Kept(i) /\ batch'[i] \subseteq Kept(i) /\ x \in Kept(i)
          /\ \A z \in Kept(i) \ batch'[i] : y < z
        BY <1>1, <1>2, <2>2 DEF Answer, Kept
    <3>2. x \in Nat /\ y \in Nat
        BY <3>1, Constants DEF Kept, MemoryInv, TypeOK
    <3> QED BY <2>2, <3>1, <3>2
  <2> QED BY <2>1, <2>2
<1> QED BY <1>4, <1>5, <1>6 DEF MemoryInv

(* What goes into the queue was in the batch, and is the oldest there. *)
LEMMA PushMemory ==
  ASSUME MemoryInv, TypeOK', Fresh', Came', NEW i \in Instances, Push(i)
  PROVE  MemoryInv'
<1>1. PICK x \in batch[i] :
        /\ \A y \in batch[i] : x <= y
        /\ offset' = [offset EXCEPT ![i] = x + 1]
        /\ queue' = [queue EXCEPT ![i] = Append(@, x)]
        /\ batch' = [batch EXCEPT ![i] = @ \ {x}]
    BY DEF Push, Smallest, NextOffset
<1>2. UNCHANGED <<arrived, pending, phase, hand, done, lost>>
    BY DEF Push, updates, history
<1>3. /\ x \in Nat /\ queue[i] \in Seq(Id) /\ x \in Id
      /\ \A y \in batch[i] \cup pending : y \in Nat
      /\ \A j \in Instances : offset[j] \in Nat
  <2>1. TypeOK
      BY DEF MemoryInv
  <2>2. batch[i] \subseteq Id /\ queue[i] \in Seq(Id)
      BY <2>1 DEF TypeOK
  <2>3. pending \subseteq 1 .. arrived /\ arrived \in Nat
      BY <2>1, Constants DEF TypeOK
  <2>4. \A j \in Instances : offset[j] \in Nat
      BY <2>1, Constants DEF TypeOK
  <2>5. \A y \in batch[i] : y \in Id /\ y \in Nat
      BY <2>2, Constants
  <2>6. \A y \in pending : y \in Nat
      BY <2>3
  <2> QED BY <2>2, <2>4, <2>5, <2>6
<1>4. /\ queue'[i] = Append(queue[i], x) /\ batch'[i] = batch[i] \ {x} /\ offset'[i] = x + 1
      /\ \A j \in Instances \ {i} : /\ queue'[j] = queue[j] /\ batch'[j] = batch[j]
                                     /\ offset'[j] = offset[j]
    BY <1>1 DEF MemoryInv, TypeOK
<1>5. \A j \in Instances : Held(j) \subseteq Held(j)'
  <2>1. \A n \in 1 .. Len(queue[i]) : n \in 1 .. Len(queue'[i]) /\ queue'[i][n] = queue[i][n]
      BY <1>3, <1>4
  <2>2. Len(queue'[i]) \in 1 .. Len(queue'[i]) /\ queue'[i][Len(queue'[i])] = x
      BY <1>3, <1>4
  <2>3. Held(i) \subseteq Held(i)'
    <3>1. \A n \in 1 .. Len(queue'[i]) : queue'[i][n] \in Held(i)'
        BY DEF Held
    <3>2. \A y \in batch[i] : y \in Held(i)'
        BY <1>4, <2>2, <3>1 DEF Held
    <3>3. \A w \in Workers : hand[i][w] # 0 => hand[i][w] \in Held(i)'
        BY <1>2 DEF Held
    <3> QED BY <2>1, <3>1, <3>2, <3>3, HeldKept
  <2>4. \A j \in Instances \ {i} : Held(j)' = Held(j)
      BY <1>2, <1>4 DEF Held
  <2> QED BY <2>3, <2>4
<1>6. NothingForgotten'
    BY <1>2, <1>5 DEF MemoryInv, NothingForgotten, Memory
<1>7. Covered'
  <2> SUFFICES ASSUME NEW j \in Instances, phase[j] = "up", NEW z \in pending, z < offset'[j]
               PROVE  z \in done \cup lost \cup Held(j)'
      BY <1>2 DEF Covered
  <2>1. CASE z < offset[j]
      BY <1>5, <2>1 DEF MemoryInv, Covered
  <2>2. CASE ~(z < offset[j])
    <3>1. j = i /\ offset[i] <= z /\ z <= x
        BY <1>3, <1>4, <2>2
    <3>2. z \in batch[i]
        BY <1>3, <3>1 DEF MemoryInv, Oldest
    <3> QED BY <1>5, <3>1, <3>2 DEF Held
  <2> QED BY <2>1, <2>2
<1>8. Oldest'
  <2> SUFFICES ASSUME NEW j \in Instances, phase[j] = "up", NEW z \in pending, NEW y \in batch'[j],
                      offset'[j] <= z, z < y
               PROVE  z \in batch'[j]
      BY <1>2 DEF Oldest
  <2>1. CASE j # i
      BY <1>4, <2>1 DEF MemoryInv, Oldest
  <2>2. CASE j = i
    <3>1. y \in batch[i] /\ x + 1 <= z
        BY <1>4, <2>2
    <3>2. offset[i] <= x
        BY DEF MemoryInv, Came
    <3>3. offset[i] <= z
        BY <1>3, <3>1, <3>2
    <3>4. z \in batch[i]
        BY <2>2, <3>1, <3>3 DEF MemoryInv, Oldest
    <3> QED BY <1>3, <1>4, <2>2, <3>1, <3>4
  <2> QED BY <2>1, <2>2
<1> QED BY <1>6, <1>7, <1>8 DEF MemoryInv

(* A new update is above every offset and every batch. *)
LEMMA ArriveMemory ==
  ASSUME MemoryInv, TypeOK', Fresh', Came', Arrive
  PROVE  MemoryInv'
<1>1. /\ arrived \in Nat /\ arrived' = arrived + 1 /\ pending' = pending \cup {arrived + 1}
      /\ UNCHANGED <<phase, queue, hand, batch, offset, done, lost>>
    BY Constants DEF Arrive, MemoryInv, TypeOK, inside, history
<1>2. \A i \in Instances : Held(i)' = Held(i)
    BY <1>1 DEF Held
<1>3. /\ \A i \in Instances : offset[i] \in Nat /\ offset[i] <= arrived + 1
      /\ \A i \in Instances : \A y \in batch[i] : y \in Nat /\ y <= arrived
    BY SMTT(20), Constants DEF MemoryInv, TypeOK, Came
<1>4. NothingForgotten'
  <2>1. \A x \in 1 .. arrived' : x \in 1 .. arrived \/ x \in pending'
      BY <1>1
  <2>2. Memory' = Memory
      BY <1>2 DEF Memory
  <2> QED BY <1>1, <2>1, <2>2 DEF MemoryInv, NothingForgotten
<1>5. Covered'
  <2> SUFFICES ASSUME NEW i \in Instances, phase[i] = "up", NEW x \in pending', x < offset[i]
               PROVE  x \in done \cup lost \cup Held(i)
      BY <1>1, <1>2 DEF Covered
  <2>1. x # arrived + 1
      BY <1>1, <1>3
  <2> QED BY <1>1, <2>1 DEF MemoryInv, Covered
<1>6. Oldest'
  <2> SUFFICES ASSUME NEW i \in Instances, phase[i] = "up",
                      NEW x \in pending', NEW y \in batch[i], offset[i] <= x, x < y
               PROVE  x \in batch[i]
      BY <1>1 DEF Oldest
  <2>1. x # arrived + 1
      BY <1>1, <1>3
  <2> QED BY <1>1, <2>1 DEF MemoryInv, Oldest
<1> QED BY <1>4, <1>5, <1>6 DEF MemoryInv

(* Only a process that was starting comes up, and it has polled nothing. *)
LEMMA PhaseMemory ==
  ASSUME MemoryInv, TypeOK', Fresh', Came', NEW i \in Instances,
         Launch(i) \/ Start(i) \/ Refused(i) \/ Stop(i) \/ Conflict(i) \/ Break(i)
  PROVE  MemoryInv'
<1>1. UNCHANGED <<updates, inside, history>>
    BY DEF Launch, Start, Refused, Stop, Conflict, Break
<1>2. \A j \in Instances : Held(j)' = Held(j)
    BY <1>1 DEF Held, inside
<1>3. \A j \in Instances : phase'[j] = "up" => phase[j] \in {"up", "starting"}
    BY DEF Launch, Start, Refused, Stop, Conflict, Break, Becomes, MemoryInv, TypeOK
<1>4. \A j \in Instances : phase[j] = "starting" => offset[j] = 0 /\ batch[j] = {}
    BY DEF MemoryInv, Fresh
<1> QED BY <1>1, <1>2, <1>3, <1>4, HoldingStep DEF updates, inside, history

(* What the webhook answered for is in the queue. *)
LEMMA PostMemory ==
  ASSUME MemoryInv, TypeOK', Fresh', Came', NEW i \in Instances, NEW x \in pending, Post(i, x)
  PROVE  MemoryInv'
<1>1. /\ UNCHANGED <<arrived, phase, hand, batch, offset, done, lost>>
      /\ pending' \subseteq pending /\ pending \ pending' \subseteq {x}
    BY DEF Post
<1>2. x \in Id /\ queue \in [Instances -> Seq(Id)]
    BY Constants DEF MemoryInv, TypeOK, Id
<1>3. /\ queue'[i] = Append(queue[i], x)
      /\ \A j \in Instances \ {i} : queue'[j] = queue[j]
    BY <1>2 DEF Post
<1>4. /\ \A n \in 1 .. Len(queue[i]) : n \in 1 .. Len(queue'[i]) /\ queue'[i][n] = queue[i][n]
      /\ Len(queue'[i]) \in 1 .. Len(queue'[i]) /\ queue'[i][Len(queue'[i])] = x
  <2>1. queue[i] \in Seq(Id)
      BY <1>2
  <2> QED BY <1>2, <1>3, <2>1
<1>5. \A n \in 1 .. Len(queue'[i]) : queue'[i][n] \in Held(i)'
    BY DEF Held
<1>6. Held(i) \subseteq Held(i)' /\ x \in Held(i)'
  <2>1. \A y \in batch[i] : y \in Held(i)'
      BY <1>1 DEF Held
  <2>2. \A w \in Workers : hand[i][w] # 0 => hand[i][w] \in Held(i)'
      BY <1>1 DEF Held
  <2> QED BY <1>4, <1>5, <2>1, <2>2, HeldKept
<1>7. \A j \in Instances : Held(j) \subseteq Held(j)'
    BY <1>1, <1>3, <1>6 DEF Held
<1>8. x \in Memory'
    BY <1>6 DEF Memory
<1> QED BY <1>1, <1>7, <1>8, HoldingStep

(* An update goes from the queue to a worker's hand. *)
LEMMA TakeMemory ==
  ASSUME MemoryInv, TypeOK', Fresh', Came', NEW i \in Instances, NEW w \in Workers, Take(i, w)
  PROVE  MemoryInv'
<1>1. UNCHANGED <<arrived, pending, phase, batch, offset, done, lost>>
    BY DEF Take, updates
<1>2. /\ queue[i] # <<>> /\ hand[i][w] = 0
      /\ queue'[i] = Tail(queue[i])
      /\ hand'[i][w] = Head(queue[i])
      /\ \A v \in Workers \ {w} : hand'[i][v] = hand[i][v]
      /\ \A j \in Instances \ {i} : queue'[j] = queue[j] /\ hand'[j] = hand[j]
    BY DEF Take, MemoryInv, TypeOK
<1>3. queue[i] \in Seq(Id)
    BY DEF MemoryInv, TypeOK
<1>4. \A n \in 1 .. Len(queue'[i]) : queue'[i][n] \in Held(i)'
    BY DEF Held
<1>5. \A v \in Workers : hand'[i][v] # 0 => hand'[i][v] \in Held(i)'
    BY DEF Held
<1>6. \A n \in 1 .. Len(queue[i]) : queue[i][n] \in Held(i)'
  <2> SUFFICES ASSUME NEW n \in 1 .. Len(queue[i]) PROVE queue[i][n] \in Held(i)'
      OBVIOUS
  <2>1. CASE n = 1
    <3>1. queue[i][n] = hand'[i][w] /\ queue[i][n] \in Id
        BY <1>2, <1>3, <2>1
    <3>2. hand'[i][w] # 0
        BY <3>1, Constants
    <3> QED BY <1>5, <3>1, <3>2
  <2>2. CASE n # 1
    <3>1. n - 1 \in 1 .. Len(queue'[i]) /\ queue'[i][n - 1] = queue[i][n]
        BY <1>2, <1>3, <2>2
    <3> QED BY <1>4, <3>1
  <2> QED BY <2>1, <2>2
<1>7. \A y \in batch[i] : y \in Held(i)'
    BY <1>1 DEF Held
<1>8. \A v \in Workers : hand[i][v] # 0 => hand[i][v] \in Held(i)'
    BY <1>2, <1>5
<1>9. Held(i) \subseteq Held(i)'
    BY <1>6, <1>7, <1>8, HeldKept
<1>10. \A j \in Instances \ {i} : Held(j)' = Held(j)
  <2>1. \A j \in Instances \ {i} :
          batch'[j] = batch[j] /\ queue'[j] = queue[j] /\ hand'[j] = hand[j]
      BY <1>1, <1>2
  <2> QED BY <2>1 DEF Held
<1>11. \A j \in Instances : Held(j) \subseteq Held(j)'
    BY <1>9, <1>10
<1> QED BY <1>1, <1>11, HoldingStep

(* A worker lets go of what it is done with, or what is lost. *)
LEMMA FinishMemory ==
  ASSUME MemoryInv, TypeOK', Fresh', Came', NEW i \in Instances, NEW w \in Workers, Finish(i, w)
  PROVE  MemoryInv'
<1>1. /\ UNCHANGED <<arrived, pending, phase, queue, batch, offset>>
      /\ \/ done' = done \cup {hand[i][w]} /\ lost' = lost
         \/ phase[i] # "up" /\ lost' = lost \cup Losses /\ done' = done
    BY DEF Finish, updates
<1>2. /\ hand[i][w] # 0
      /\ hand'[i][w] = 0 /\ \A v \in Workers \ {w} : hand'[i][v] = hand[i][v]
      /\ \A j \in Instances \ {i} : hand'[j] = hand[j]
    BY DEF Finish, MemoryInv, TypeOK
<1>3. \A j \in Instances \ {i} : Held(j)' = Held(j)
    BY <1>1, <1>2 DEF Held
<1>4. \A x \in Held(i) : x \in Held(i)' \/ x = hand[i][w]
  <2>1. Held(i) = batch[i] \cup {queue[i][n] : n \in 1 .. Len(queue[i])}
                           \cup ({hand[i][v] : v \in Workers} \ {0})
      BY DEF Held
  <2>2. Held(i)' = batch[i] \cup {queue[i][n] : n \in 1 .. Len(queue[i])}
                            \cup ({hand'[i][v] : v \in Workers} \ {0})
      BY <1>1 DEF Held
  <2>3. \A x \in {hand[i][v] : v \in Workers} :
          x \in {hand'[i][v] : v \in Workers} \/ x = hand[i][w]
      BY <1>2
  <2> QED BY <2>1, <2>2, <2>3
<1>5. \A x \in Memory : x \in Memory' \/ x = hand[i][w]
    BY <1>3, <1>4 DEF Memory
<1>6. Losses \subseteq done' \cup lost'
    BY <1>1, <1>5 DEF Losses
<1>7. phase'[i] = "up" => Held(i) \subseteq Held(i)' \cup done'
    BY <1>1, <1>4
<1>8. done \subseteq done' /\ lost \subseteq lost'
    BY <1>1
<1> QED BY <1>1, <1>3, <1>6, <1>7, <1>8, LettingGoStep

(* What a process that ends had in memory is lost. *)
LEMMA EndMemory ==
  ASSUME MemoryInv, TypeOK', Fresh', Came', NEW i \in Instances, Exit(i) \/ Return(i)
  PROVE  MemoryInv'
<1>1. Ends(i)
    BY DEF Exit, Return
<1>2. /\ UNCHANGED <<arrived, pending, done>> /\ lost' = lost \cup Losses
      /\ phase'[i] = "down"
      /\ \A j \in Instances \ {i} :
           /\ phase'[j] = phase[j] /\ offset'[j] = offset[j] /\ batch'[j] = batch[j]
           /\ queue'[j] = queue[j] /\ hand'[j] = hand[j]
    BY <1>1 DEF Ends, Becomes, updates, MemoryInv, TypeOK
<1>3. \A j \in Instances \ {i} : Held(j)' = Held(j)
    BY <1>2 DEF Held
<1> QED BY <1>2, <1>3, LettingGoStep

(* Every step keeps the invariant: one case for each group of actions above. *)
LEMMA MemoryStep == MemoryInv /\ [Next]_vars => MemoryInv'
<1> SUFFICES ASSUME MemoryInv, [Next]_vars PROVE MemoryInv'
    OBVIOUS
<1>1. TypeOK' /\ Fresh' /\ Came'
    BY TypeStep, GroundStep DEF MemoryInv
<1>2. CASE UNCHANGED vars
  <2>1. UNCHANGED <<arrived, pending, phase, queue, hand, batch, offset, done, lost>>
      BY <1>2 DEF vars
  <2>2. \A i \in Instances : Held(i)' = Held(i)
      BY <2>1 DEF Held
  <2> QED BY <1>1, <2>1, <2>2, HoldingStep
<1>3. CASE Arrive
    BY <1>1, <1>3, ArriveMemory
<1>4. ASSUME NEW i \in Instances,
             \/ Launch(i) \/ Start(i) \/ Refused(i)
             \/ \E x \in pending : Post(i, x)
             \/ Poll(i) \/ Push(i)
             \/ \E w \in Workers : WorkerStep(i, w)
             \/ Stop(i) \/ Conflict(i) \/ Exit(i) \/ Return(i) \/ Break(i)
      PROVE  MemoryInv'
  <2>1. CASE Launch(i) \/ Start(i) \/ Refused(i) \/ Stop(i) \/ Conflict(i) \/ Break(i)
      BY <1>1, <2>1, PhaseMemory
  <2>2. ASSUME NEW x \in pending, Post(i, x) PROVE MemoryInv'
      BY <1>1, <2>2, PostMemory
  <2>3. CASE Poll(i) \/ Push(i)
      BY <1>1, <2>3, PollMemory, PushMemory
  <2>4. ASSUME NEW w \in Workers, WorkerStep(i, w) PROVE MemoryInv'
      BY <1>1, <2>4, TakeMemory, FinishMemory DEF WorkerStep
  <2>5. CASE Exit(i) \/ Return(i)
      BY <1>1, <2>5, EndMemory
  <2> QED BY <1>4, <2>1, <2>2, <2>3, <2>4, <2>5
<1> QED BY <1>2, <1>3, <1>4 DEF Next

(* An update that came is with Telegram, in a process, handled, or was lost *)
(* by a process that ended.                                                 *)
THEOREM NothingIsForgotten == Spec => []NothingForgotten
<1>1. MemoryInv => NothingForgotten
    BY DEF MemoryInv
<1> QED BY <1>1, MemoryInit, MemoryStep, PTL DEF Spec

----------------------------------------------------------------------------
(* A polling process has taken over, in its queue and its workers' hands,   *)
(* updates below its offset only, each worker an older one than the queue.  *)
InOrder(i) ==
  /\ \A m, n \in 1 .. Len(queue[i]) : m < n => queue[i][m] < queue[i][n]
  /\ \A n \in 1 .. Len(queue[i]) : queue[i][n] < offset[i]
  /\ \A w \in Workers : hand[i][w] = 0 \/ hand[i][w] < offset[i]
  /\ \A w \in Workers, n \in 1 .. Len(queue[i]) : hand[i][w] < queue[i][n]

OrderInv == TypeOK /\ Fresh /\ Came /\ (mode = "polling" => \A i \in Instances : InOrder(i))

(* A process with nothing in its memory is in order. *)
LEMMA Emptied ==
  ASSUME NEW i, queue[i] = <<>>, hand[i] = Free
  PROVE  InOrder(i)
<1>1. Len(queue[i]) = 0 /\ \A w \in Workers : hand[i][w] = 0
    BY DEF Free
<1> QED BY <1>1 DEF InOrder

(* At the start every process is. *)
LEMMA OrderInit == Init => OrderInv
<1> SUFFICES ASSUME Init PROVE OrderInv
    OBVIOUS
<1>1. Fresh /\ Came
    BY MemoryInit DEF MemoryInv
<1>2. ASSUME NEW i \in Instances PROVE InOrder(i)
  <2>1. queue[i] = <<>> /\ hand[i] = Free
      BY DEF Init
  <2> QED BY <2>1, Emptied
<1> QED BY <1>1, <1>2, TypeInit DEF OrderInv

(* A step of one process that leaves the others' order as it was. *)
LEMMA OthersInOrder ==
  ASSUME OrderInv, TypeOK', Fresh', Came', NEW i \in Instances, mode' = mode,
         \A j \in Instances \ {i} :
           queue'[j] = queue[j] /\ hand'[j] = hand[j] /\ offset'[j] = offset[j],
         mode = "polling" => InOrder(i)'
  PROVE  OrderInv'
<1>1. ASSUME mode = "polling", NEW j \in Instances \ {i} PROVE InOrder(j)'
    BY <1>1 DEF OrderInv, InOrder
<1> QED BY <1>1 DEF OrderInv

(* The oldest of the batch is above the offset, and so above all the process *)
(* has taken over; the new offset is above it.                               *)
LEMMA PushOrder ==
  ASSUME OrderInv, TypeOK', Fresh', Came', NEW i \in Instances, Push(i)
  PROVE  OrderInv'
<1>1. PICK x \in batch[i] : /\ offset' = [offset EXCEPT ![i] = x + 1]
                            /\ queue' = [queue EXCEPT ![i] = Append(@, x)]
    BY DEF Push, Smallest, NextOffset
<1>2. mode' = mode /\ hand' = hand
    BY DEF Push
<1>3. /\ x \in Id /\ x \in Nat /\ x >= 1 /\ offset[i] \in Nat /\ offset[i] <= x
      /\ queue[i] \in Seq(Id)
      /\ \A w \in Workers : hand[i][w] \in Nat
  <2>1. TypeOK /\ Came
      BY DEF OrderInv
  <2>2. x \in Id /\ queue[i] \in Seq(Id) /\ offset[i] \in Nat
      BY <2>1, Constants DEF TypeOK
  <2>3. \A w \in Workers : hand[i][w] \in {0} \cup Id
      BY <2>1 DEF TypeOK
  <2>4. offset[i] <= x
      BY <2>1 DEF Came
  <2> QED BY <2>2, <2>3, <2>4, Constants
<1>4. /\ queue'[i] = Append(queue[i], x) /\ offset'[i] = x + 1
      /\ \A j \in Instances \ {i} :
           queue'[j] = queue[j] /\ hand'[j] = hand[j] /\ offset'[j] = offset[j]
    BY <1>1, <1>2 DEF OrderInv, TypeOK
<1>5. ASSUME mode = "polling" PROVE InOrder(i)'
  <2>1. InOrder(i)
      BY <1>5 DEF OrderInv
  <2>2. \A n \in 1 .. Len(queue[i]) : queue[i][n] \in Nat /\ queue[i][n] < x
    <3> SUFFICES ASSUME NEW n \in 1 .. Len(queue[i])
                 PROVE  queue[i][n] \in Nat /\ queue[i][n] < x
        OBVIOUS
    <3>1. queue[i][n] \in Id
        BY <1>3
    <3>2. queue[i][n] \in Nat
        BY <3>1, Constants
    <3>3. queue[i][n] < offset[i]
        BY <2>1 DEF InOrder
    <3> QED BY <1>3, <3>2, <3>3
  <2>3. \A w \in Workers : hand[i][w] < x
      BY <1>3, <2>1 DEF InOrder
  <2>4. \A n \in 1 .. Len(queue'[i]) :
          \/ n \in 1 .. Len(queue[i]) /\ queue'[i][n] = queue[i][n]
          \/ n = Len(queue[i]) + 1 /\ queue'[i][n] = x
      BY <1>3, <1>4
  <2>5. \A m, n \in 1 .. Len(queue'[i]) : m < n => queue'[i][m] < queue'[i][n]
    <3> SUFFICES ASSUME NEW m \in 1 .. Len(queue'[i]), NEW n \in 1 .. Len(queue'[i]), m < n
                 PROVE  queue'[i][m] < queue'[i][n]
        OBVIOUS
    <3>1. Len(queue[i]) \in Nat /\ Len(queue'[i]) = Len(queue[i]) + 1
        BY <1>3, <1>4
    <3>2. m \in 1 .. Len(queue[i]) /\ queue'[i][m] = queue[i][m]
        BY <2>4, <3>1
    <3> QED BY <2>1, <2>2, <2>4, <3>2 DEF InOrder
  <2>6. \A n \in 1 .. Len(queue'[i]) : queue'[i][n] < offset'[i]
      BY <1>3, <1>4, <2>2, <2>4
  <2>7. \A w \in Workers : hand'[i][w] = 0 \/ hand'[i][w] < offset'[i]
      BY <1>2, <1>3, <1>4, <2>3
  <2>8. \A w \in Workers, n \in 1 .. Len(queue'[i]) : hand'[i][w] < queue'[i][n]
      BY <1>2, <2>1, <2>3, <2>4 DEF InOrder
  <2> QED BY <2>5, <2>6, <2>7, <2>8 DEF InOrder
<1> QED BY <1>2, <1>4, <1>5, OthersInOrder

(* The oldest of the queue goes into a hand. *)
LEMMA TakeOrder ==
  ASSUME OrderInv, TypeOK', Fresh', Came', NEW i \in Instances, NEW w \in Workers, Take(i, w)
  PROVE  OrderInv'
<1>1. mode' = mode /\ offset' = offset
    BY DEF Take
<1>2. /\ queue[i] # <<>> /\ queue[i] \in Seq(Id)
      /\ queue'[i] = Tail(queue[i])
      /\ hand'[i][w] = Head(queue[i])
      /\ \A v \in Workers \ {w} : hand'[i][v] = hand[i][v]
      /\ \A j \in Instances \ {i} : queue'[j] = queue[j] /\ hand'[j] = hand[j]
    BY DEF Take, OrderInv, TypeOK
<1>3. /\ 1 \in 1 .. Len(queue[i]) /\ hand'[i][w] = queue[i][1]
      /\ \A n \in 1 .. Len(queue'[i]) :
           n + 1 \in 1 .. Len(queue[i]) /\ 1 < n + 1 /\ queue'[i][n] = queue[i][n + 1]
      /\ \A m, n \in 1 .. Len(queue'[i]) : m < n => m + 1 < n + 1
  <2>1. \A n \in 1 .. Len(queue'[i]) :
          n + 1 \in 1 .. Len(queue[i]) /\ 1 < n + 1 /\ queue'[i][n] = queue[i][n + 1]
      BY <1>2
  <2>2. 1 \in 1 .. Len(queue[i]) /\ hand'[i][w] = queue[i][1]
      BY <1>2
  <2> QED BY <2>1, <2>2
<1>4. ASSUME mode = "polling" PROVE InOrder(i)'
  <2>1. InOrder(i)
      BY <1>4 DEF OrderInv
  <2>2. \A m, n \in 1 .. Len(queue'[i]) : m < n => queue'[i][m] < queue'[i][n]
      BY <1>3, <2>1 DEF InOrder
  <2>3. \A n \in 1 .. Len(queue'[i]) : queue'[i][n] < offset'[i]
      BY <1>1, <1>3, <2>1 DEF InOrder
  <2>4. \A v \in Workers : hand'[i][v] = 0 \/ hand'[i][v] < offset'[i]
      BY <1>1, <1>2, <1>3, <2>1 DEF InOrder
  <2>5. \A v \in Workers, n \in 1 .. Len(queue'[i]) : hand'[i][v] < queue'[i][n]
      BY <1>2, <1>3, <2>1 DEF InOrder
  <2> QED BY <2>2, <2>3, <2>4, <2>5 DEF InOrder
<1> QED BY <1>1, <1>2, <1>4, OthersInOrder

(* A hand that is empty again is below every update. *)
LEMMA FinishOrder ==
  ASSUME OrderInv, TypeOK', Fresh', Came', NEW i \in Instances, NEW w \in Workers, Finish(i, w)
  PROVE  OrderInv'
<1>1. mode' = mode /\ offset' = offset /\ queue' = queue
    BY DEF Finish
<1>2. /\ hand'[i][w] = 0 /\ \A v \in Workers \ {w} : hand'[i][v] = hand[i][v]
      /\ \A j \in Instances \ {i} : hand'[j] = hand[j]
      /\ queue[i] \in Seq(Id)
    BY DEF Finish, OrderInv, TypeOK
<1>3. \A n \in 1 .. Len(queue[i]) : 0 < queue[i][n]
    BY <1>2, Constants
<1>4. ASSUME mode = "polling" PROVE InOrder(i)'
  <2>1. InOrder(i)
      BY <1>4 DEF OrderInv
  <2>2. \A v \in Workers : hand'[i][v] = 0 \/ hand'[i][v] < offset'[i]
      BY <1>1, <1>2, <2>1 DEF InOrder
  <2>3. \A v \in Workers, n \in 1 .. Len(queue'[i]) : hand'[i][v] < queue'[i][n]
      BY <1>1, <1>2, <1>3, <2>1 DEF InOrder
  <2> QED BY <1>1, <2>1, <2>2, <2>3 DEF InOrder
<1> QED BY <1>1, <1>2, <1>4, OthersInOrder

(* A process that ended has nothing left. *)
LEMMA EndOrder ==
  ASSUME OrderInv, TypeOK', Fresh', Came', NEW i \in Instances, Exit(i) \/ Return(i)
  PROVE  OrderInv'
<1>1. Ends(i)
    BY DEF Exit, Return
<1>2. /\ mode' = mode /\ queue'[i] = <<>> /\ hand'[i] = Free
      /\ \A j \in Instances \ {i} :
           queue'[j] = queue[j] /\ hand'[j] = hand[j] /\ offset'[j] = offset[j]
    BY <1>1 DEF Ends, OrderInv, TypeOK
<1>3. InOrder(i)'
  <2>1. Len(queue'[i]) = 0 /\ \A w \in Workers : hand'[i][w] = 0
      BY <1>2 DEF Free
  <2> QED BY <2>1 DEF InOrder
<1> QED BY <1>2, <1>3, OthersInOrder

(* Every step keeps the order: the rest of them leave what it is about. *)
LEMMA OrderStep == OrderInv /\ [Next]_vars => OrderInv'
<1> SUFFICES ASSUME OrderInv, [Next]_vars PROVE OrderInv'
    OBVIOUS
<1>1. TypeOK' /\ Fresh' /\ Came'
    BY TypeStep, GroundStep DEF OrderInv
<1>2. ASSUME UNCHANGED <<mode, queue, hand, offset>> PROVE OrderInv'
    BY <1>1, <1>2 DEF OrderInv, InOrder
<1>3. CASE Arrive \/ UNCHANGED vars
    BY <1>2, <1>3 DEF Arrive, vars, inside
<1>4. ASSUME NEW i \in Instances,
             \/ Launch(i) \/ Start(i) \/ Refused(i)
             \/ \E x \in pending : Post(i, x)
             \/ Poll(i) \/ Push(i)
             \/ \E w \in Workers : WorkerStep(i, w)
             \/ Stop(i) \/ Conflict(i) \/ Exit(i) \/ Return(i) \/ Break(i)
      PROVE  OrderInv'
  <2>1. CASE Launch(i) \/ Start(i) \/ Refused(i) \/ Stop(i) \/ Conflict(i) \/ Break(i) \/ Poll(i)
      BY <1>2, <2>1 DEF Launch, Start, Refused, Stop, Conflict, Break, Poll, inside
  <2>2. ASSUME NEW x \in pending, Post(i, x) PROVE OrderInv'
      BY <1>1, <2>2 DEF Post, OrderInv
  <2>3. CASE Push(i)
      BY <1>1, <2>3, PushOrder
  <2>4. ASSUME NEW w \in Workers, WorkerStep(i, w) PROVE OrderInv'
      BY <1>1, <2>4, TakeOrder, FinishOrder DEF WorkerStep
  <2>5. CASE Exit(i) \/ Return(i)
      BY <1>1, <2>5, EndOrder
  <2> QED BY <1>4, <2>1, <2>2, <2>3, <2>4, <2>5
<1> QED BY <1>3, <1>4 DEF Next

(* A polling process begins updates in their order. *)
THEOREM PolledIsInOrder == Spec => []PolledInOrder
<1>1. ASSUME OrderInv PROVE PolledInOrder
  <2> SUFFICES ASSUME mode = "polling", NEW i \in Instances
               PROVE  /\ InOrder(i)
                      /\ \A n \in 1 .. Len(queue[i]), x \in batch[i] : queue[i][n] < x
      BY DEF PolledInOrder, InOrder
  <2>1. InOrder(i)
      BY <1>1 DEF OrderInv
  <2>2. /\ queue[i] \in Seq(Id) /\ offset[i] \in Nat
        /\ \A x \in batch[i] : x \in Nat /\ offset[i] <= x
    <3>1. TypeOK /\ Came
        BY <1>1 DEF OrderInv
    <3>2. queue[i] \in Seq(Id) /\ offset[i] \in Nat /\ batch[i] \subseteq Id
        BY <3>1, Constants DEF TypeOK
    <3>3. \A x \in batch[i] : offset[i] <= x
        BY <3>1 DEF Came
    <3> QED BY <3>2, <3>3, Constants
  <2>3. \A n \in 1 .. Len(queue[i]) : queue[i][n] \in Nat /\ queue[i][n] < offset[i]
      BY <2>1, <2>2, Constants DEF InOrder
  <2> QED BY <2>1, <2>2, <2>3
<1> QED BY <1>1, OrderInit, OrderStep, PTL DEF Spec

----------------------------------------------------------------------------
(* What a process has in its queue and in its workers' hands. *)
Taken(i) ==
  {queue[i][n] : n \in 1 .. Len(queue[i])} \cup ({hand[i][w] : w \in Workers} \ {0})

(* The processes that were not told to stop. *)
Going == {i \in Instances : phase[i] \in {"starting", "up"}}

(* An update that Telegram keeps, that is handled, that was accepted late,  *)
(* or that a process which was not told to stop has taken; and the others,  *)
(* which may be handled yet, but which no one will have to handle.          *)
Safe == pending \cup done \cup late \cup UNION {Taken(i) : i \in Going}
Doomed == (1 .. arrived) \ Safe

(* A process has taken nothing while it is down, or does not poll yet. *)
Idle ==
  \A i \in Instances :
    phase[i] = "down" \/ (mode = "polling" /\ phase[i] = "starting") => Taken(i) = {}

(* What is lost nobody has any more. *)
Gone ==
  /\ lost \cap (pending \cup done \cup Memory) = {}
  /\ lost \cup Memory \subseteq 1 .. arrived

(* Each end of a process dooms no more than what it had taken. *)
Room == QueueSize + Cardinality(Workers)
Toll == Cardinality(Doomed) <= exits * Room

LossInv == MemoryInv /\ Idle /\ Gone /\ Toll

(* Memory is the batches and what is taken. *)
LEMMA HeldIsTaken == \A i : Held(i) = batch[i] \cup Taken(i)
BY DEF Held, Taken

(* The room of a process is a number. *)
LEMMA RoomType == Room \in Nat
<1>1. Cardinality(Workers) \in Nat
    BY IntakeAssumption, FS_CardinalityType
<1> QED BY <1>1, Constants DEF Room

(* A queue is as long as its bound, and each worker has one hand. *)
LEMMA TakenIsSmall ==
  ASSUME TypeOK, NEW i \in Instances
  PROVE  IsFiniteSet(Taken(i)) /\ Cardinality(Taken(i)) <= Room
<1> DEFINE Q == {queue[i][n] : n \in 1 .. Len(queue[i])}
           H == {hand[i][w] : w \in Workers}
           q == [n \in 1 .. Len(queue[i]) |-> queue[i][n]]
           h == [w \in Workers |-> hand[i][w]]
<1>1. Len(queue[i]) \in Nat /\ Len(queue[i]) <= QueueSize /\ QueueSize \in Nat
    BY Constants DEF TypeOK
<1>2. IsFiniteSet(Q) /\ Cardinality(Q) <= Len(queue[i])
  <2>1. q \in Surjection(1 .. Len(queue[i]), Q)
      BY DEF Surjection
  <2>2. IsFiniteSet(1 .. Len(queue[i])) /\ Cardinality(1 .. Len(queue[i])) = Len(queue[i])
      BY <1>1, FS_Interval
  <2> HIDE DEF Q, q
  <2> QED BY <2>1, <2>2, FS_Surjection
<1>3. IsFiniteSet(H) /\ Cardinality(H) <= Cardinality(Workers)
  <2>1. h \in Surjection(Workers, H)
      BY DEF Surjection
  <2>2. IsFiniteSet(Workers)
      BY IntakeAssumption
  <2> HIDE DEF H, h
  <2> QED BY <2>1, <2>2, FS_Surjection
<1>4. Taken(i) = Q \cup (H \ {0})
    BY DEF Taken
<1> HIDE DEF Q, H
<1>5. IsFiniteSet(H \ {0}) /\ Cardinality(H \ {0}) <= Cardinality(H)
    BY <1>3, FS_Subset
<1>6. /\ IsFiniteSet(Q \cup (H \ {0}))
      /\ Cardinality(Q \cup (H \ {0})) =
           Cardinality(Q) + Cardinality(H \ {0}) - Cardinality(Q \cap (H \ {0}))
    BY <1>2, <1>5, FS_Union
<1>7. Cardinality(Q \cap (H \ {0})) \in Nat
    BY <1>2, FS_Intersection, FS_CardinalityType
<1>8. /\ Cardinality(Q) \in Nat /\ Cardinality(H) \in Nat /\ Cardinality(H \ {0}) \in Nat
      /\ Cardinality(Workers) \in Nat
    BY <1>2, <1>3, <1>5, FS_CardinalityType, IntakeAssumption
<1> QED BY <1>1, <1>2, <1>3, <1>4, <1>5, <1>6, <1>7, <1>8 DEF Room

(* What the steps do to what is taken, each in the terms of the process     *)
(* that does it.  Most leave it alone.                                      *)
LEMMA TakenSame ==
  ASSUME NEW i, queue'[i] = queue[i], hand'[i] = hand[i]
  PROVE  Taken(i)' = Taken(i)
BY DEF Taken

(* One update more at the end of the queue. *)
LEMMA TakenMore ==
  ASSUME NEW i, NEW x, queue[i] \in Seq(Id), x \in Id,
         queue'[i] = Append(queue[i], x), hand'[i] = hand[i]
  PROVE  Taken(i)' = Taken(i) \cup {x}
<1>1. /\ Len(queue'[i]) = Len(queue[i]) + 1 /\ Len(queue[i]) \in Nat
      /\ \A n \in 1 .. Len(queue[i]) : queue'[i][n] = queue[i][n]
      /\ queue'[i][Len(queue[i]) + 1] = x
    OBVIOUS
<1>2. {queue'[i][n] : n \in 1 .. Len(queue'[i])} =
        {queue[i][n] : n \in 1 .. Len(queue[i])} \cup {x}
  <2>1. 1 .. Len(queue'[i]) = (1 .. Len(queue[i])) \cup {Len(queue[i]) + 1}
      BY <1>1
  <2> QED BY <1>1, <2>1
<1> QED BY <1>2 DEF Taken

(* From the queue to a hand. *)
LEMMA TakenTaken ==
  ASSUME TypeOK, NEW i \in Instances, NEW w \in Workers, Take(i, w)
  PROVE  \A j \in Instances : Taken(j)' = Taken(j)
<1>1. /\ queue[i] # <<>> /\ hand[i][w] = 0 /\ queue[i] \in Seq(Id)
      /\ queue'[i] = Tail(queue[i])
      /\ hand'[i][w] = Head(queue[i])
      /\ \A v \in Workers \ {w} : hand'[i][v] = hand[i][v]
      /\ \A j \in Instances \ {i} : queue'[j] = queue[j] /\ hand'[j] = hand[j]
    BY DEF Take, TypeOK
<1>2. /\ Len(queue[i]) \in Nat /\ Len(queue[i]) >= 1 /\ Len(queue'[i]) = Len(queue[i]) - 1
      /\ \A n \in 1 .. Len(queue'[i]) : queue'[i][n] = queue[i][n + 1]
      /\ hand'[i][w] = queue[i][1] /\ queue[i][1] \in Id
    BY <1>1
<1>3. queue[i][1] # 0
    BY <1>2, Constants
<1>4. {queue[i][n] : n \in 1 .. Len(queue[i])} =
        {queue'[i][n] : n \in 1 .. Len(queue'[i])} \cup {queue[i][1]}
  <2>1. ASSUME NEW n \in 1 .. Len(queue[i])
        PROVE  queue[i][n] \in {queue'[i][m] : m \in 1 .. Len(queue'[i])} \cup {queue[i][1]}
    <3>1. CASE n = 1
        BY <3>1
    <3>2. CASE n # 1
      <4>1. n - 1 \in 1 .. Len(queue'[i]) /\ queue'[i][n - 1] = queue[i][n]
          BY <1>2, <3>2
      <4> QED BY <4>1
    <3> QED BY <3>1, <3>2
  <2>2. ASSUME NEW n \in 1 .. Len(queue'[i])
        PROVE  queue'[i][n] \in {queue[i][m] : m \in 1 .. Len(queue[i])}
    <3>1. n + 1 \in 1 .. Len(queue[i])
        BY <1>2
    <3> QED BY <1>2, <3>1
  <2>3. queue[i][1] \in {queue[i][m] : m \in 1 .. Len(queue[i])}
      BY <1>2
  <2> QED BY <2>1, <2>2, <2>3
<1>5. {hand'[i][v] : v \in Workers} \ {0} = ({hand[i][v] : v \in Workers} \ {0}) \cup {queue[i][1]}
    BY <1>1, <1>2, <1>3
<1>6. Taken(i)' = Taken(i)
    BY <1>4, <1>5 DEF Taken
<1>7. \A j \in Instances \ {i} : Taken(j)' = Taken(j)
    BY <1>1, TakenSame
<1> QED BY <1>6, <1>7

(* A worker's hand is empty again; another may have the same update. *)
LEMMA TakenLess ==
  ASSUME TypeOK, NEW i \in Instances, NEW w \in Workers, Finish(i, w)
  PROVE  /\ \A j \in Instances \ {i} : Taken(j)' = Taken(j)
         /\ Taken(i)' \subseteq Taken(i) /\ Taken(i) \subseteq Taken(i)' \cup {hand[i][w]}
         /\ hand[i][w] \in Taken(i)
<1>1. /\ hand[i][w] # 0 /\ queue' = queue
      /\ hand'[i][w] = 0 /\ \A v \in Workers \ {w} : hand'[i][v] = hand[i][v]
      /\ \A j \in Instances \ {i} : hand'[j] = hand[j]
    BY DEF Finish, TypeOK
<1>2. \A j \in Instances \ {i} : Taken(j)' = Taken(j)
    BY <1>1, TakenSame
<1>3. /\ {hand'[i][v] : v \in Workers} \ {0} \subseteq {hand[i][v] : v \in Workers} \ {0}
      /\ {hand[i][v] : v \in Workers} \ {0} \subseteq
           ({hand'[i][v] : v \in Workers} \ {0}) \cup {hand[i][w]}
    BY <1>1
<1>4. hand[i][w] \in Taken(i)
    BY <1>1 DEF Taken
<1> QED BY <1>1, <1>2, <1>3, <1>4 DEF Taken

(* A process that ends has taken nothing any more. *)
LEMMA TakenNothing ==
  ASSUME TypeOK, NEW i \in Instances, Ends(i)
  PROVE  Taken(i)' = {} /\ \A j \in Instances \ {i} : Taken(j)' = Taken(j)
<1>1. /\ queue'[i] = <<>> /\ hand'[i] = Free
      /\ \A j \in Instances \ {i} : queue'[j] = queue[j] /\ hand'[j] = hand[j]
    BY DEF Ends, TypeOK
<1>2. Len(queue'[i]) = 0 /\ \A w \in Workers : hand'[i][w] = 0
    BY <1>1 DEF Free
<1>3. Taken(i)' = {}
    BY <1>2 DEF Taken
<1>4. \A j \in Instances \ {i} : Taken(j)' = Taken(j)
    BY <1>1, TakenSame
<1> QED BY <1>3, <1>4

(* No step makes up an update: what comes into memory was with Telegram,    *)
(* what is handled was in memory, what is lost has left both.               *)
LEMMA GoneKept ==
  ASSUME TypeOK, Gone, arrived' \in Nat, arrived' >= arrived,
         Memory' \subseteq Memory \cup pending,
         done' \subseteq done \cup Memory,
         pending' \subseteq pending \cup ((1 .. arrived') \ (1 .. arrived)),
         \/ lost' = lost
         \/ lost' = lost \cup Losses /\ pending' = pending /\ done' = done
  PROVE  Gone'
<1>1. arrived \in Nat /\ pending \subseteq 1 .. arrived /\ 1 .. arrived \subseteq 1 .. arrived'
    BY Constants DEF TypeOK
<1>2. lost' \cup Memory' \subseteq 1 .. arrived'
    BY <1>1 DEF Gone, Losses
<1>3. ASSUME NEW x \in lost' PROVE x \notin pending' \cup done' \cup Memory'
  <2>1. CASE x \in Losses /\ pending' = pending /\ done' = done
      BY <2>1 DEF Losses
  <2>2. CASE x \in lost
    <3>1. x \notin pending /\ x \notin done /\ x \notin Memory /\ x \in 1 .. arrived
        BY <2>2 DEF Gone
    <3>2. x \notin (1 .. arrived') \ (1 .. arrived)
        BY <3>1
    <3>3. x \notin pending'
        BY <3>1, <3>2
    <3> QED BY <3>1, <3>3
  <2> QED BY <1>3, <2>1, <2>2
<1> QED BY <1>2, <1>3 DEF Gone

(* A step that dooms none. *)
LEMMA TollKept ==
  ASSUME TypeOK, Toll, TypeOK', exits' = exits, Doomed' \subseteq Doomed
  PROVE  Toll'
<1>1. IsFiniteSet(Doomed) /\ IsFiniteSet(Doomed')
  <2>1. IsFiniteSet(1 .. arrived) /\ IsFiniteSet(1 .. arrived')
      BY FS_Interval, Constants DEF TypeOK
  <2> QED BY <2>1, FS_Subset DEF Doomed
<1>2. Cardinality(Doomed') <= Cardinality(Doomed)
    BY <1>1, FS_Subset
<1>3. /\ Cardinality(Doomed) \in Nat /\ Cardinality(Doomed') \in Nat
    BY <1>1, FS_CardinalityType
<1>4. exits * Room \in Nat
  <2>1. Room \in Nat /\ exits \in Nat
      BY RoomType DEF TypeOK
  <2> QED BY <2>1
<1>5. Cardinality(Doomed') <= exits * Room
    BY <1>2, <1>3, <1>4 DEF Toll
<1> QED BY <1>5 DEF Toll, Room

(* At the start there is nothing to lose. *)
LEMMA LossInit == Init => LossInv
<1> SUFFICES ASSUME Init PROVE LossInv
    OBVIOUS
<1>1. MemoryInv
    BY MemoryInit
<1>2. ASSUME NEW i \in Instances PROVE Taken(i) = {} /\ batch[i] = {}
  <2>1. queue[i] = <<>> /\ hand[i] = Free /\ batch[i] = {}
      BY DEF Init
  <2>2. Len(queue[i]) = 0 /\ \A w \in Workers : hand[i][w] = 0
      BY <2>1 DEF Free
  <2> QED BY <2>1, <2>2 DEF Taken
<1>3. Idle
    BY <1>2 DEF Idle
<1>4. Gone
  <2>1. Memory = {}
      BY <1>2, HeldIsTaken DEF Memory
  <2> QED BY <2>1 DEF Gone, Init
<1>5. Toll
  <2>1. Doomed = {}
      BY DEF Doomed, Init
  <2>2. Cardinality(Doomed) = 0
      BY <2>1, FS_EmptySet
  <2>3. Room \in Nat
      BY RoomType
  <2>4. exits = 0 /\ 0 * Room = 0
      BY <2>3 DEF Init
  <2> QED BY <2>2, <2>4 DEF Toll
<1> QED BY <1>1, <1>3, <1>4, <1>5 DEF LossInv

(* Telegram gets one more. *)
LEMMA ArriveLoss ==
  ASSUME LossInv, MemoryInv', Arrive
  PROVE  LossInv'
<1>1. /\ arrived' = arrived + 1 /\ pending' = pending \cup {arrived + 1}
      /\ UNCHANGED <<mode, phase, exits, queue, hand, batch, done, lost, late>>
    BY DEF Arrive, inside, bounds, history
<1>2. TypeOK /\ TypeOK' /\ arrived \in Nat
  <2>1. TypeOK /\ TypeOK'
      BY DEF LossInv, MemoryInv
  <2>2. arrived \in Nat
      BY <2>1, Constants DEF TypeOK
  <2> QED BY <2>1, <2>2
<1>3. /\ \A i \in Instances : Taken(i)' = Taken(i) /\ batch'[i] = batch[i]
      /\ Memory' = Memory /\ Going' = Going
  <2>1. \A i \in Instances : Taken(i)' = Taken(i) /\ batch'[i] = batch[i]
      BY <1>1, TakenSame
  <2>2. \A i \in Instances : Held(i)' = Held(i)
      BY <1>1, <2>1, HeldIsTaken DEF Held, Taken
  <2> QED BY <1>1, <2>1, <2>2 DEF Memory, Going
<1>4. Idle'
    BY <1>1, <1>3 DEF LossInv, Idle
<1>5. Gone'
    BY <1>1, <1>2, <1>3, GoneKept DEF LossInv
<1>6. Doomed' \subseteq Doomed
  <2>1. Safe' = Safe \cup {arrived + 1}
    <3>1. Going \subseteq Instances
        BY DEF Going
    <3> QED BY <1>1, <1>3, <3>1 DEF Safe
  <2>2. 1 .. arrived' = (1 .. arrived) \cup {arrived + 1}
      BY <1>1, <1>2
  <2> QED BY <2>1, <2>2 DEF Doomed
<1>7. Toll'
    BY <1>1, <1>2, <1>6, TollKept DEF LossInv
<1> QED BY <1>4, <1>5, <1>7 DEF LossInv

(* What is with the processes is what their batches and takings are. *)
LEMMA MemoryKept ==
  ASSUME \A i \in Instances : Taken(i)' = Taken(i) /\ batch'[i] = batch[i]
  PROVE  Memory' = Memory
<1>1. \A i \in Instances : Held(i)' = Held(i)
  <2>1. ASSUME NEW i \in Instances PROVE Held(i)' = batch'[i] \cup Taken(i)'
      BY DEF Held, Taken
  <2> QED BY <2>1, HeldIsTaken
<1> QED BY <1>1 DEF Memory

(* The steps that change where a process is, and not what it has.  Telling  *)
(* it to stop dooms what it had taken.                                      *)
LEMMA PhaseLoss ==
  ASSUME LossInv, MemoryInv', NEW i \in Instances,
         Launch(i) \/ Start(i) \/ Refused(i) \/ Stop(i) \/ Conflict(i) \/ Break(i)
  PROVE  LossInv'
<1>1. UNCHANGED <<mode, arrived, pending, queue, hand, batch, done, lost, late>>
    BY DEF Launch, Start, Refused, Stop, Conflict, Break, updates, inside, history
<1>2. TypeOK /\ TypeOK' /\ arrived \in Nat
  <2>1. TypeOK /\ TypeOK'
      BY DEF LossInv, MemoryInv
  <2>2. arrived \in Nat
      BY <2>1, Constants DEF TypeOK
  <2> QED BY <2>1, <2>2
<1>3. \A j \in Instances : Taken(j)' = Taken(j) /\ batch'[j] = batch[j]
    BY <1>1, TakenSame
<1>4. Memory' = Memory
    BY <1>3, MemoryKept
<1>5. \A j \in Instances \ {i} : phase'[j] = phase[j]
    BY <1>2 DEF Launch, Start, Refused, Stop, Conflict, Break, Becomes, TypeOK
<1>6. Gone'
    BY <1>1, <1>2, <1>4, GoneKept DEF LossInv
<1>7. CASE Stop(i) \/ Conflict(i)
  <2>1. exits' = exits + 1 /\ phase'[i] \in {"stopping", "returning"}
      BY <1>2, <1>7 DEF Stop, Conflict, Becomes, TypeOK
  <2>2. Idle'
      BY <1>1, <1>3, <1>5, <2>1 DEF LossInv, Idle
  <2>3. Doomed' \subseteq Doomed \cup Taken(i)
    <3>1. \A j \in Going : j = i \/ j \in Going'
        BY <1>5 DEF Going
    <3>2. ASSUME NEW x \in Safe PROVE x \in Safe' \cup Taken(i)
      <4>1. CASE x \in pending \cup done \cup late
          BY <1>1, <4>1 DEF Safe
      <4>2. ASSUME NEW j \in Going, x \in Taken(j) PROVE x \in Safe' \cup Taken(i)
        <5>1. CASE j = i
            BY <4>2, <5>1
        <5>2. CASE j \in Going'
          <6>1. x \in Taken(j)'
              BY <1>3, <4>2 DEF Going
          <6> QED BY <5>2, <6>1 DEF Safe
        <5> QED BY <3>1, <5>1, <5>2
      <4> QED BY <4>1, <4>2 DEF Safe
    <3> QED BY <1>1, <3>2 DEF Doomed
  <2>4. IsFiniteSet(Doomed) /\ IsFiniteSet(Taken(i)) /\ Cardinality(Taken(i)) <= Room
    <3>1. IsFiniteSet(1 .. arrived)
        BY <1>2, FS_Interval
    <3> QED BY <1>2, <3>1, FS_Subset, TakenIsSmall DEF Doomed
  <2>5. /\ IsFiniteSet(Doomed \cup Taken(i))
        /\ Cardinality(Doomed \cup Taken(i)) =
             Cardinality(Doomed) + Cardinality(Taken(i)) - Cardinality(Doomed \cap Taken(i))
      BY <2>4, FS_Union
  <2>6. IsFiniteSet(Doomed') /\ Cardinality(Doomed') <= Cardinality(Doomed \cup Taken(i))
      BY <2>3, <2>5, FS_Subset
  <2>7. /\ Cardinality(Doomed) \in Nat /\ Cardinality(Doomed') \in Nat
        /\ Cardinality(Taken(i)) \in Nat /\ Cardinality(Doomed \cap Taken(i)) \in Nat
        /\ Cardinality(Doomed \cup Taken(i)) \in Nat
      BY <2>4, <2>5, <2>6, FS_CardinalityType, FS_Intersection
  <2>8. Room \in Nat /\ exits \in Nat
      BY <1>2, RoomType DEF TypeOK
  <2>9. exits * Room \in Nat /\ (exits + 1) * Room = exits * Room + Room
      BY <2>8
  <2>10. Cardinality(Doomed) <= exits * Room
      BY DEF LossInv, Toll
  <2>11. Cardinality(Doomed') <= exits * Room + Room
      BY <2>4, <2>5, <2>6, <2>7, <2>8, <2>9, <2>10
  <2>12. Toll'
      BY <2>1, <2>9, <2>11 DEF Toll, Room
  <2> QED BY <1>6, <2>2, <2>12 DEF LossInv
<1>8. CASE Launch(i) \/ Start(i) \/ Refused(i) \/ Break(i)
  <2>1. exits' = exits
      BY <1>8 DEF Launch, Start, Refused, Break, bounds
  <2>2. \/ phase[i] = "down" /\ phase'[i] = "starting"
        \/ phase[i] = "starting" /\ phase'[i] = "up"
        \/ phase[i] = "starting" /\ phase'[i] = "down" /\ mode = "polling"
        \/ phase' = phase
      BY <1>2, <1>8 DEF Launch, Start, Refused, Break, Becomes, TypeOK
  <2>3. Idle'
      BY <1>1, <1>3, <1>5, <2>2 DEF LossInv, Idle
  <2>4. \A j \in Going : j \in Going' \/ Taken(j) = {}
      BY <1>5, <2>2 DEF LossInv, Idle, Going
  <2>5. Safe \subseteq Safe'
    <3>1. ASSUME NEW j \in Going, NEW x \in Taken(j) PROVE x \in Safe'
      <4>1. j \in Going' /\ x \in Taken(j)'
          BY <1>3, <2>4, <3>1 DEF Going
      <4> QED BY <4>1 DEF Safe
    <3> QED BY <1>1, <3>1 DEF Safe
  <2>6. Doomed' \subseteq Doomed
      BY <1>1, <2>5 DEF Doomed
  <2>7. Toll'
      BY <1>2, <2>1, <2>6, TollKept DEF LossInv
  <2> QED BY <1>6, <2>3, <2>7 DEF LossInv
<1> QED BY <1>7, <1>8

(* The webhook hands an update to a process that will take it, or to one    *)
(* that was told to stop: that one is late.                                 *)
LEMMA PostLoss ==
  ASSUME LossInv, MemoryInv', NEW i \in Instances, NEW x \in pending, Post(i, x)
  PROVE  LossInv'
<1>1. /\ UNCHANGED <<mode, arrived, phase, hand, batch, exits, done, lost>>
      /\ mode = "webhook" /\ phase[i] \in {"starting", "up", "stopping"}
      /\ pending \ {x} \subseteq pending' /\ pending' \subseteq pending
      /\ late' = IF phase[i] = "stopping" THEN late \cup {x} ELSE late
    BY DEF Post
<1>2. TypeOK /\ TypeOK' /\ arrived \in Nat /\ x \in Id
  <2>1. TypeOK /\ TypeOK'
      BY DEF LossInv, MemoryInv
  <2>2. arrived \in Nat /\ x \in Id
      BY <2>1, Constants DEF TypeOK, Id
  <2> QED BY <2>1, <2>2
<1>3. /\ queue[i] \in Seq(Id) /\ queue'[i] = Append(queue[i], x)
      /\ \A j \in Instances \ {i} : queue'[j] = queue[j]
    BY <1>2 DEF Post, TypeOK
<1>4. /\ Taken(i)' = Taken(i) \cup {x}
      /\ \A j \in Instances \ {i} : Taken(j)' = Taken(j)
    BY <1>1, <1>2, <1>3, TakenMore, TakenSame
<1>5. Memory' \subseteq Memory \cup pending
  <2>1. \A j \in Instances : Held(j)' \subseteq Held(j) \cup {x}
    <3>1. ASSUME NEW j \in Instances PROVE Held(j)' = batch'[j] \cup Taken(j)'
        BY DEF Held, Taken
    <3> QED BY <1>1, <1>4, <3>1, HeldIsTaken
  <2> QED BY <2>1 DEF Memory
<1>6. Gone'
    BY <1>1, <1>2, <1>5, GoneKept DEF LossInv
<1>7. Idle'
    BY <1>1, <1>4 DEF LossInv, Idle
<1>8. Safe \subseteq Safe'
  <2>1. x \in Safe'
      BY <1>1, <1>4 DEF Safe, Going
  <2>2. ASSUME NEW j \in Going PROVE Taken(j) \subseteq Safe'
      BY <1>1, <1>4 DEF Safe, Going
  <2>3. \A y \in pending \cup done \cup late : y \in Safe' \/ y = x
      BY <1>1 DEF Safe
  <2> QED BY <2>1, <2>2, <2>3 DEF Safe
<1>9. Toll'
  <2>1. Doomed' \subseteq Doomed
      BY <1>1, <1>8 DEF Doomed
  <2> QED BY <1>1, <1>2, <2>1, TollKept DEF LossInv
<1> QED BY <1>6, <1>7, <1>9 DEF LossInv

(* A poll confirms only what the process has taken, or handled. *)
LEMMA PollLoss ==
  ASSUME LossInv, MemoryInv', NEW i \in Instances, Poll(i)
  PROVE  LossInv'
<1>1. /\ UNCHANGED <<mode, arrived, phase, queue, hand, offset, exits, done, lost, late>>
      /\ pending' = {x \in pending : x >= offset[i]} /\ phase[i] = "up" /\ batch[i] = {}
    BY DEF Poll, Kept, history
<1>2. TypeOK /\ TypeOK' /\ Covered
    BY DEF LossInv, MemoryInv
<1>3. arrived \in Nat /\ offset[i] \in Nat /\ \A x \in pending : x \in Nat
    BY <1>2, Constants DEF TypeOK
<1>4. \A j \in Instances : Taken(j)' = Taken(j)
    BY <1>1, TakenSame
<1>5. \A j \in Instances : batch'[j] \subseteq batch[j] \cup pending
  <2>1. \A B \in Answer(i) : B \subseteq pending
      BY DEF Answer, Kept
  <2>2. batch' = batch \/ \E B \in Answer(i) : batch' = [batch EXCEPT ![i] = B]
      BY DEF Poll
  <2> QED BY <1>2, <2>1, <2>2 DEF TypeOK
<1>6. Memory' \subseteq Memory \cup pending
  <2>1. ASSUME NEW j \in Instances PROVE Held(j)' = batch'[j] \cup Taken(j)'
      BY DEF Held, Taken
  <2>2. \A j \in Instances : Held(j)' \subseteq Held(j) \cup pending
      BY <1>4, <1>5, <2>1, HeldIsTaken
  <2> QED BY <2>2 DEF Memory
<1>7. Gone'
    BY <1>1, <1>2, <1>3, <1>6, GoneKept DEF LossInv
<1>8. Idle'
    BY <1>1, <1>4 DEF LossInv, Idle
<1>9. \A x \in pending : x \in pending' \/ x \in done \cup Taken(i)
  <2> SUFFICES ASSUME NEW x \in pending, x < offset[i] PROVE x \in done \cup Taken(i)
      BY <1>1, <1>3
  <2>1. x \in done \cup lost \cup Held(i)
      BY <1>1, <1>2 DEF Covered
  <2>2. x \notin lost
      BY DEF LossInv, Gone
  <2> QED BY <1>1, <2>1, <2>2, HeldIsTaken
<1>10. Doomed' \subseteq Doomed
  <2>1. i \in Going /\ Going' = Going
      BY <1>1 DEF Going
  <2>2. \A j \in Going : Taken(j)' = Taken(j)
      BY <1>4 DEF Going
  <2>3. Safe \subseteq Safe'
      BY <1>1, <1>9, <2>1, <2>2 DEF Safe
  <2> QED BY <1>1, <2>3 DEF Doomed
<1>11. Toll'
    BY <1>1, <1>2, <1>10, TollKept DEF LossInv
<1> QED BY <1>7, <1>8, <1>11 DEF LossInv

(* From the batch to the queue. *)
LEMMA PushLoss ==
  ASSUME LossInv, MemoryInv', NEW i \in Instances, Push(i)
  PROVE  LossInv'
<1>1. PICK x \in batch[i] : /\ queue' = [queue EXCEPT ![i] = Append(@, x)]
                            /\ batch' = [batch EXCEPT ![i] = @ \ {x}]
    BY DEF Push, Smallest
<1>2. UNCHANGED <<mode, arrived, pending, phase, hand, exits, done, lost, late>>
    BY DEF Push, updates, bounds, history
<1>3. TypeOK /\ TypeOK' /\ arrived \in Nat /\ x \in Id
  <2>1. TypeOK /\ TypeOK'
      BY DEF LossInv, MemoryInv
  <2>2. arrived \in Nat /\ x \in Id
      BY <2>1, Constants DEF TypeOK
  <2> QED BY <2>1, <2>2
<1>4. /\ queue[i] \in Seq(Id) /\ queue'[i] = Append(queue[i], x) /\ batch'[i] = batch[i] \ {x}
      /\ \A j \in Instances \ {i} : queue'[j] = queue[j] /\ batch'[j] = batch[j]
    BY <1>1, <1>3 DEF TypeOK
<1>5. /\ Taken(i)' = Taken(i) \cup {x}
      /\ \A j \in Instances \ {i} : Taken(j)' = Taken(j)
    BY <1>2, <1>3, <1>4, TakenMore, TakenSame
<1>6. Memory' \subseteq Memory
  <2>1. ASSUME NEW j \in Instances PROVE Held(j)' = batch'[j] \cup Taken(j)'
      BY DEF Held, Taken
  <2>2. \A j \in Instances : Held(j)' \subseteq Held(j)
      BY <1>1, <1>4, <1>5, <2>1, HeldIsTaken
  <2> QED BY <2>2 DEF Memory
<1>7. Gone'
    BY <1>2, <1>3, <1>6, GoneKept DEF LossInv
<1>8. phase[i] \notin {"down", "starting"}
    BY <1>1 DEF LossInv, MemoryInv, Fresh
<1>9. Idle'
    BY <1>2, <1>5, <1>8 DEF LossInv, Idle
<1>10. Doomed' \subseteq Doomed
  <2>1. Going' = Going /\ \A j \in Going : Taken(j) \subseteq Taken(j)'
      BY <1>2, <1>5 DEF Going
  <2>2. Safe \subseteq Safe'
      BY <1>2, <2>1 DEF Safe
  <2> QED BY <1>2, <2>2 DEF Doomed
<1>11. Toll'
    BY <1>2, <1>3, <1>10, TollKept DEF LossInv
<1> QED BY <1>7, <1>9, <1>11 DEF LossInv

(* From the queue to a worker. *)
LEMMA TakeLoss ==
  ASSUME LossInv, MemoryInv', NEW i \in Instances, NEW w \in Workers, Take(i, w)
  PROVE  LossInv'
<1>1. UNCHANGED <<mode, arrived, pending, phase, batch, exits, done, lost, late>>
    BY DEF Take, updates, bounds
<1>2. TypeOK /\ TypeOK' /\ arrived \in Nat
  <2>1. TypeOK /\ TypeOK'
      BY DEF LossInv, MemoryInv
  <2>2. arrived \in Nat
      BY <2>1, Constants DEF TypeOK
  <2> QED BY <2>1, <2>2
<1>3. \A j \in Instances : Taken(j)' = Taken(j)
    BY <1>2, TakenTaken
<1>4. Memory' = Memory
    BY <1>1, <1>3, MemoryKept
<1>5. Gone'
    BY <1>1, <1>2, <1>4, GoneKept DEF LossInv
<1>6. Idle'
    BY <1>1, <1>3 DEF LossInv, Idle
<1>7. Doomed' \subseteq Doomed
  <2>1. Going' = Going /\ \A j \in Going : Taken(j)' = Taken(j)
      BY <1>1, <1>3 DEF Going
  <2> QED BY <1>1, <2>1 DEF Safe, Doomed
<1>8. Toll'
    BY <1>1, <1>2, <1>7, TollKept DEF LossInv
<1> QED BY <1>5, <1>6, <1>8 DEF LossInv

(* A worker is done with an update; one whose call failed is of a process   *)
(* that was told to stop.                                                   *)
LEMMA FinishLoss ==
  ASSUME LossInv, MemoryInv', NEW i \in Instances, NEW w \in Workers, Finish(i, w)
  PROVE  LossInv'
<1>1. /\ UNCHANGED <<mode, arrived, pending, phase, batch, exits, late>>
      /\ \/ done' = done \cup {hand[i][w]} /\ lost' = lost
         \/ /\ phase[i] \in {"stopping", "returning"}
            /\ lost' = lost \cup Losses /\ done' = done
    BY DEF Finish, updates, bounds
<1>2. TypeOK /\ TypeOK' /\ arrived \in Nat
  <2>1. TypeOK /\ TypeOK'
      BY DEF LossInv, MemoryInv
  <2>2. arrived \in Nat
      BY <2>1, Constants DEF TypeOK
  <2> QED BY <2>1, <2>2
<1>3. /\ \A j \in Instances \ {i} : Taken(j)' = Taken(j)
      /\ Taken(i)' \subseteq Taken(i) /\ Taken(i) \subseteq Taken(i)' \cup {hand[i][w]}
      /\ hand[i][w] \in Taken(i)
    BY <1>2, TakenLess
<1>4. Memory' \subseteq Memory /\ hand[i][w] \in Memory
  <2>1. ASSUME NEW j \in Instances PROVE Held(j)' = batch'[j] \cup Taken(j)'
      BY DEF Held, Taken
  <2>2. \A j \in Instances : Held(j)' \subseteq Held(j)
      BY <1>1, <1>3, <2>1, HeldIsTaken
  <2>3. hand[i][w] \in Held(i)
      BY <1>3, HeldIsTaken
  <2> QED BY <2>2, <2>3 DEF Memory
<1>5. done' \subseteq done \cup Memory
    BY <1>1, <1>4
<1>6. Gone'
    BY <1>1, <1>2, <1>4, <1>5, GoneKept DEF LossInv
<1>7. Idle'
    BY <1>1, <1>3 DEF LossInv, Idle
<1>8. Safe \subseteq Safe'
  <2>1. Going' = Going /\ done \subseteq done'
      BY <1>1 DEF Going
  <2>2. ASSUME NEW j \in Going, NEW x \in Taken(j) PROVE x \in Safe'
    <3>1. j = i => hand[i][w] \in done'
        BY <1>1, <2>2 DEF Going
    <3>2. x \in Taken(j)' \/ x \in done'
        BY <1>3, <2>2, <3>1 DEF Going
    <3> QED BY <2>1, <2>2, <3>2 DEF Safe
  <2> QED BY <1>1, <2>1, <2>2 DEF Safe
<1>9. Doomed' \subseteq Doomed
    BY <1>1, <1>8 DEF Doomed
<1>10. Toll'
    BY <1>1, <1>2, <1>9, TollKept DEF LossInv
<1> QED BY <1>6, <1>7, <1>10 DEF LossInv

(* A process that ends was told to: what it had was doomed already. *)
LEMMA EndLoss ==
  ASSUME LossInv, MemoryInv', NEW i \in Instances, Exit(i) \/ Return(i)
  PROVE  LossInv'
<1>1. Ends(i) /\ phase[i] \in {"stopping", "returning"}
    BY DEF Exit, Return, Returning
<1>2. TypeOK /\ TypeOK' /\ arrived \in Nat
  <2>1. TypeOK /\ TypeOK'
      BY DEF LossInv, MemoryInv
  <2>2. arrived \in Nat
      BY <2>1, Constants DEF TypeOK
  <2> QED BY <2>1, <2>2
<1>3. /\ UNCHANGED <<mode, arrived, pending, exits, done, late>>
      /\ lost' = lost \cup Losses
      /\ phase'[i] = "down" /\ batch'[i] = {}
      /\ \A j \in Instances \ {i} : phase'[j] = phase[j] /\ batch'[j] = batch[j]
    BY <1>1, <1>2 DEF Ends, Becomes, updates, bounds, TypeOK
<1>4. Taken(i)' = {} /\ \A j \in Instances \ {i} : Taken(j)' = Taken(j)
    BY <1>1, <1>2, TakenNothing
<1>5. Memory' \subseteq Memory
  <2>1. ASSUME NEW j \in Instances PROVE Held(j)' = batch'[j] \cup Taken(j)'
      BY DEF Held, Taken
  <2>2. \A j \in Instances : Held(j)' \subseteq Held(j)
      BY <1>3, <1>4, <2>1, HeldIsTaken
  <2> QED BY <2>2 DEF Memory
<1>6. Gone'
    BY <1>2, <1>3, <1>5, GoneKept DEF LossInv
<1>7. Idle'
    BY <1>3, <1>4 DEF LossInv, Idle
<1>8. Doomed' \subseteq Doomed
  <2>1. Going' = Going /\ i \notin Going
      BY <1>1, <1>3 DEF Going
  <2>2. \A j \in Going : Taken(j)' = Taken(j)
      BY <1>4, <2>1 DEF Going
  <2> QED BY <1>3, <2>1, <2>2 DEF Safe, Doomed
<1>9. Toll'
    BY <1>2, <1>3, <1>8, TollKept DEF LossInv
<1> QED BY <1>6, <1>7, <1>9 DEF LossInv

(* Every step keeps the invariant. *)
LEMMA LossStep == LossInv /\ [Next]_vars => LossInv'
<1> SUFFICES ASSUME LossInv, [Next]_vars PROVE LossInv'
    OBVIOUS
<1>1. MemoryInv'
    BY MemoryStep DEF LossInv
<1>2. CASE UNCHANGED vars
  <2>1. UNCHANGED <<mode, arrived, pending, phase, queue, hand, batch, exits, done, lost, late>>
      BY <1>2 DEF vars
  <2>2. \A i \in Instances : Taken(i)' = Taken(i)
      BY <2>1, TakenSame
  <2>3. Memory' = Memory
      BY <2>1, <2>2, MemoryKept
  <2>4. Idle' /\ Gone'
      BY <2>1, <2>2, <2>3 DEF LossInv, Idle, Gone
  <2>5. Doomed' = Doomed
    <3>1. Going' = Going /\ \A j \in Going : Taken(j)' = Taken(j)
        BY <2>1, <2>2 DEF Going
    <3> QED BY <2>1, <3>1 DEF Safe, Doomed
  <2> QED BY <1>1, <2>1, <2>4, <2>5 DEF LossInv, Toll, Room
<1>3. CASE Arrive
    BY <1>1, <1>3, ArriveLoss
<1>4. ASSUME NEW i \in Instances,
             \/ Launch(i) \/ Start(i) \/ Refused(i)
             \/ \E x \in pending : Post(i, x)
             \/ Poll(i) \/ Push(i)
             \/ \E w \in Workers : WorkerStep(i, w)
             \/ Stop(i) \/ Conflict(i) \/ Exit(i) \/ Return(i) \/ Break(i)
      PROVE  LossInv'
  <2>1. CASE Launch(i) \/ Start(i) \/ Refused(i) \/ Stop(i) \/ Conflict(i) \/ Break(i)
      BY <1>1, <2>1, PhaseLoss
  <2>2. ASSUME NEW x \in pending, Post(i, x) PROVE LossInv'
      BY <1>1, <2>2, PostLoss
  <2>3. CASE Poll(i) \/ Push(i)
      BY <1>1, <2>3, PollLoss, PushLoss
  <2>4. ASSUME NEW w \in Workers, WorkerStep(i, w) PROVE LossInv'
      BY <1>1, <2>4, TakeLoss, FinishLoss DEF WorkerStep
  <2>5. CASE Exit(i) \/ Return(i)
      BY <1>1, <2>5, EndLoss
  <2> QED BY <1>4, <2>1, <2>2, <2>3, <2>4, <2>5
<1> QED BY <1>2, <1>3, <1>4 DEF Next

(* The end of a process loses no more than its queue and what its workers   *)
(* handle, and what it went on to accept: the rest of what is lost was      *)
(* doomed when a process was told to stop.                                  *)
THEOREM LossesAreBounded == Spec => []LossIsBounded
<1>1. ASSUME LossInv PROVE LossIsBounded
  <2>1. lost \ late \subseteq Doomed
    <3>1. \A i \in Instances : Taken(i) \subseteq Memory
        BY HeldIsTaken DEF Memory
    <3>2. UNION {Taken(i) : i \in Going} \subseteq Memory
        BY <3>1 DEF Going
    <3> QED BY <1>1, <3>2 DEF LossInv, Gone, Safe, Doomed
  <2>2. IsFiniteSet(Doomed)
    <3>1. arrived \in Nat
        BY <1>1, Constants DEF LossInv, MemoryInv, TypeOK
    <3>2. IsFiniteSet(1 .. arrived)
        BY <3>1, FS_Interval
    <3> QED BY <3>2, FS_Subset DEF Doomed
  <2>3. IsFiniteSet(lost \ late) /\ Cardinality(lost \ late) <= Cardinality(Doomed)
      BY <2>1, <2>2, FS_Subset
  <2>4. /\ Cardinality(lost \ late) \in Nat /\ Cardinality(Doomed) \in Nat
      BY <2>2, <2>3, FS_CardinalityType
  <2>5. exits * Room \in Nat
    <3>1. Room \in Nat /\ exits \in Nat
        BY <1>1, RoomType DEF LossInv, MemoryInv, TypeOK
    <3> QED BY <3>1
  <2>6. Cardinality(lost \ late) <= exits * Room
      BY <1>1, <2>3, <2>4, <2>5 DEF LossInv, Toll
  <2> QED BY <2>6 DEF LossIsBounded, Room
<1> QED BY <1>1, LossInit, LossStep, PTL DEF Spec

----------------------------------------------------------------------------
(* The processes that may begin x once more, or for the first time: those   *)
(* that have it, and those that have not polled it yet.                     *)
Chance(x) ==
  {i \in Instances : \/ phase[i] = "up" /\ offset[i] <= x
                     \/ x \in batch[i]
                     \/ \E n \in 1 .. Len(queue[i]) : queue[i][n] = x}

(* Another process may get the lock: it is free, or its holder has to end,  *)
(* which was counted when it was told to.                                   *)
Opening == IF lock \in Instances /\ phase[lock] = "up" THEN 0 ELSE 1

PolledSeldom ==
  mode = "polling" =>
    \A x \in Id : tried[x] + Cardinality(Chance(x)) + Opening <= 1 + exits + breaks

(* The places in the queues that x has: a lost answer gives it one more. *)
Places(x) ==
  {p \in Instances \X (1 .. QueueSize) :
     p[2] <= Len(queue[p[1]]) /\ queue[p[1]][p[2]] = x}

(* And Telegram posts it once, or may. *)
Expected(x) == IF x \in pending \/ x > arrived THEN 1 ELSE 0

PostedSeldom ==
  mode = "webhook" =>
    /\ \A i \in Instances : batch[i] = {}
    /\ \A x \in Id : tried[x] + Cardinality(Places(x)) + Expected(x) <= 1 + faults

RepeatInv == OrderInv /\ PolledSeldom /\ PostedSeldom

(* Both sets are finite. *)
LEMMA FiniteCounts ==
  \A x : /\ IsFiniteSet(Chance(x)) /\ Cardinality(Chance(x)) \in Nat
         /\ IsFiniteSet(Places(x)) /\ Cardinality(Places(x)) \in Nat
<1> SUFFICES ASSUME NEW x
             PROVE  /\ IsFiniteSet(Chance(x)) /\ Cardinality(Chance(x)) \in Nat
                    /\ IsFiniteSet(Places(x)) /\ Cardinality(Places(x)) \in Nat
    OBVIOUS
<1>1. IsFiniteSet(Chance(x))
  <2>1. Chance(x) \in SUBSET Instances
      BY DEF Chance
  <2> QED BY <2>1, IntakeAssumption, FS_Subset
<1>2. IsFiniteSet(Places(x))
  <2>1. IsFiniteSet(1 .. QueueSize) /\ IsFiniteSet(Instances)
      BY Constants, IntakeAssumption, FS_Interval
  <2>2. IsFiniteSet(Instances \X (1 .. QueueSize))
      BY <2>1, FS_Product
  <2>3. Places(x) \in SUBSET (Instances \X (1 .. QueueSize))
      BY DEF Places
  <2> QED BY <2>2, <2>3, FS_Subset
<1> QED BY <1>1, <1>2, FS_CardinalityType

(* They are in every state, so in the next. *)
LEMMA FiniteCountsNext ==
  \A x : /\ IsFiniteSet(Chance(x)') /\ Cardinality(Chance(x)') \in Nat
         /\ IsFiniteSet(Places(x)') /\ Cardinality(Places(x)') \in Nat
<1>1. (\A x : /\ IsFiniteSet(Chance(x)) /\ Cardinality(Chance(x)) \in Nat
              /\ IsFiniteSet(Places(x)) /\ Cardinality(Places(x)) \in Nat)'
    BY FiniteCounts, PTL
<1> QED BY <1>1

(* The sum of the polled updates, in which the right-hand side grows by as  *)
(* much as the left.                                                        *)
LEMMA SumKept ==
  ASSUME NEW t \in Nat, NEW c \in Nat, NEW d \in Nat, NEW o \in Nat, NEW p \in Nat,
         NEW e \in Nat, NEW b \in Nat, NEW f \in Nat, NEW g \in Nat,
         t + c + o <= 1 + e + b, d <= c, p + e + b <= o + f + g
  PROVE  t + d + p <= 1 + f + g
OBVIOUS

(* A lock that opens, for one end or one broken connection more. *)
LEMMA OpeningIsPaid ==
  ASSUME NEW o \in Nat, NEW p \in Nat, NEW e \in Nat, NEW b \in Nat, NEW f \in Nat, NEW g \in Nat,
         p <= 1, f + g = e + b + 1
  PROVE  p + e + b <= o + f + g
OBVIOUS

(* A set with one element more. *)
LEMMA OneMore ==
  ASSUME NEW S, NEW a, IsFiniteSet(S)
  PROVE  /\ IsFiniteSet(S \cup {a}) /\ Cardinality(S \cup {a}) \in Nat
         /\ Cardinality(S \cup {a}) <= Cardinality(S) + 1
<1>1. /\ IsFiniteSet(S \cup {a})
      /\ Cardinality(S \cup {a}) = IF a \in S THEN Cardinality(S) ELSE Cardinality(S) + 1
    BY FS_AddElement
<1>2. Cardinality(S) \in Nat /\ Cardinality(S \cup {a}) \in Nat
    BY <1>1, FS_CardinalityType
<1> QED BY <1>1, <1>2

(* A step that begins no update and gives no process a chance it had not. *)
LEMMA PolledKept ==
  ASSUME TypeOK, PolledSeldom, mode' = mode, tried' = tried, exits' \in Nat, breaks' \in Nat,
         mode = "polling" =>
           /\ \A x \in Id : Chance(x)' \subseteq Chance(x)
           /\ Opening' + exits + breaks <= Opening + exits' + breaks'
  PROVE  PolledSeldom'
<1> SUFFICES ASSUME mode = "polling", NEW x \in Id
             PROVE  tried[x] + Cardinality(Chance(x)') + Opening' <= 1 + exits' + breaks'
    BY DEF PolledSeldom
<1>1. Cardinality(Chance(x)') <= Cardinality(Chance(x))
    BY FiniteCounts, FS_Subset
<1>2. /\ tried[x] \in Nat /\ exits \in Nat /\ breaks \in Nat
      /\ Opening \in Nat /\ Opening' \in Nat
    BY DEF TypeOK, Opening
<1>3. tried[x] + Cardinality(Chance(x)) + Opening <= 1 + exits + breaks
    BY DEF PolledSeldom
<1>4. Opening' + exits + breaks <= Opening + exits' + breaks'
    OBVIOUS
<1>5. Cardinality(Chance(x)) \in Nat /\ Cardinality(Chance(x)') \in Nat
    BY FiniteCounts, FiniteCountsNext
<1> QED BY <1>1, <1>2, <1>3, <1>4, <1>5, SumKept

(* A step that begins no update and posts none. *)
LEMMA PostedKept ==
  ASSUME TypeOK, PostedSeldom, mode' = mode, tried' = tried, faults' \in Nat, faults' >= faults,
         mode = "webhook" =>
           /\ \A i \in Instances : batch'[i] = {}
           /\ \A x \in Id : Places(x)' \subseteq Places(x) /\ Expected(x)' <= Expected(x)
  PROVE  PostedSeldom'
<1> SUFFICES ASSUME mode = "webhook", NEW x \in Id
             PROVE  tried[x] + Cardinality(Places(x)') + Expected(x)' <= 1 + faults'
    BY DEF PostedSeldom
<1>1. Cardinality(Places(x)') <= Cardinality(Places(x))
    BY FiniteCounts, FS_Subset
<1>2. /\ tried[x] \in Nat /\ faults \in Nat
      /\ Expected(x) \in {0, 1} /\ Expected(x)' \in {0, 1}
    BY DEF TypeOK, Expected
<1>3. tried[x] + Cardinality(Places(x)) + Expected(x) <= 1 + faults
    BY DEF PostedSeldom
<1>4. Expected(x)' <= Expected(x)
    OBVIOUS
<1>5. Cardinality(Places(x)) \in Nat /\ Cardinality(Places(x)') \in Nat
    BY FiniteCounts, FiniteCountsNext
<1> QED BY <1>1, <1>2, <1>3, <1>4, <1>5

(* At the start nothing was tried, and no process may have an update. *)
LEMMA RepeatInit == Init => RepeatInv
<1> SUFFICES ASSUME Init PROVE RepeatInv
    OBVIOUS
<1>1. \A i \in Instances : phase[i] = "down" /\ batch[i] = {} /\ Len(queue[i]) = 0
    BY DEF Init
<1>2. ASSUME NEW x PROVE Cardinality(Chance(x)) = 0 /\ Cardinality(Places(x)) = 0
  <2>1. Chance(x) = {}
      BY <1>1 DEF Chance
  <2>2. Places(x) = {}
    <3>1. ASSUME NEW p \in Instances \X (1 .. QueueSize) PROVE ~(p[2] <= Len(queue[p[1]]))
      <4>1. p[1] \in Instances /\ p[2] \in 1 .. QueueSize
          OBVIOUS
      <4> QED BY <1>1, <4>1
    <3> QED BY <3>1 DEF Places
  <2> QED BY <2>1, <2>2, FS_EmptySet
<1>3. PolledSeldom
    BY <1>2 DEF PolledSeldom, Init, Opening
<1>4. PostedSeldom
    BY <1>1, <1>2 DEF PostedSeldom, Init, Expected
<1> QED BY <1>3, <1>4, OrderInit DEF RepeatInv

(* What the steps of the other processes and of Telegram leave as it is. *)
LEMMA CountsSame ==
  ASSUME queue' = queue, NEW x
  PROVE  /\ Places(x)' = Places(x)
         /\ UNCHANGED <<phase, offset, batch>> => Chance(x)' = Chance(x)
BY DEF Places, Chance

(* What is expected of Telegram is a matter of what it keeps alone. *)
LEMMA ExpectedSame ==
  ASSUME UNCHANGED <<pending, arrived>>, NEW x
  PROVE  Expected(x)' = Expected(x)
BY DEF Expected

(* The steps that leave a process where it is or stop it: telling one to    *)
(* stop, or breaking its connection, opens the lock and is counted.         *)
LEMMA PhaseRepeat ==
  ASSUME RepeatInv, OrderInv', NEW i \in Instances,
         Launch(i) \/ Refused(i) \/ Stop(i) \/ Conflict(i) \/ Break(i)
  PROVE  RepeatInv'
<1>1. UNCHANGED <<mode, arrived, pending, queue, batch, offset, faults, tried>>
    BY DEF Launch, Refused, Stop, Conflict, Break, updates, inside, bounds, history
<1>2. TypeOK /\ TypeOK'
    BY DEF RepeatInv, OrderInv
<1>3. /\ faults' \in Nat /\ faults' >= faults /\ exits' \in Nat /\ breaks' \in Nat
      /\ exits \in Nat /\ breaks \in Nat
    BY <1>1, <1>2 DEF TypeOK
<1>4. /\ \A j \in Instances : phase'[j] = "up" => phase[j] = "up"
      /\ \A j \in Instances \ {i} : phase'[j] = phase[j]
    BY <1>2 DEF Launch, Refused, Stop, Conflict, Break, Becomes, TypeOK
<1>5. \A x \in Id : Chance(x)' \subseteq Chance(x)
    BY <1>1, <1>4 DEF Chance
<1>6. Opening' + exits + breaks <= Opening + exits' + breaks'
  <2>1. Opening \in Nat /\ Opening' \in Nat /\ Opening' <= 1 /\ Opening <= 1
      BY DEF Opening
  <2>2. CASE Stop(i) \/ Conflict(i)
    <3>1. exits' = exits + 1 /\ breaks' = breaks
        BY <2>2 DEF Stop, Conflict
    <3>2. exits' + breaks' = exits + breaks + 1
        BY <1>3, <3>1
    <3> QED BY <1>3, <2>1, <3>2, OpeningIsPaid
  <2>3. CASE Break(i)
    <3>1. exits' = exits /\ breaks' = breaks + 1
        BY <2>3 DEF Break
    <3>2. exits' + breaks' = exits + breaks + 1
        BY <1>3, <3>1
    <3> QED BY <1>3, <2>1, <3>2, OpeningIsPaid
  <2>4. CASE Launch(i) \/ Refused(i)
    <3>1. /\ exits' = exits /\ breaks' = breaks /\ lock' = lock
          /\ phase[i] # "up" /\ phase'[i] # "up"
        BY <1>2, <2>4 DEF Launch, Refused, locks, bounds, Becomes, TypeOK
    <3>2. Opening' = Opening
        BY <1>4, <3>1 DEF Opening
    <3> QED BY <1>3, <2>1, <3>1, <3>2
  <2> QED BY <2>2, <2>3, <2>4
<1>7. PolledSeldom'
    BY <1>1, <1>2, <1>3, <1>5, <1>6, PolledKept DEF RepeatInv
<1>8. PostedSeldom'
  <2>1. \A x \in Id : Places(x)' \subseteq Places(x) /\ Expected(x)' <= Expected(x)
    <3>1. \A x \in Id : Places(x)' = Places(x) /\ Expected(x)' = Expected(x)
        BY <1>1, CountsSame, ExpectedSame
    <3>2. \A x \in Id : Expected(x) \in Nat
        BY DEF Expected
    <3> QED BY <3>1, <3>2
  <2>2. mode = "webhook" => \A j \in Instances : batch'[j] = {}
      BY <1>1 DEF RepeatInv, PostedSeldom
  <2> QED BY <1>1, <1>2, <1>3, <2>1, <2>2, PostedKept DEF RepeatInv
<1> QED BY <1>7, <1>8 DEF RepeatInv

(* One that takes the lock may poll what others have begun; the lock was    *)
(* free, and is not any more.                                               *)
LEMMA StartRepeat ==
  ASSUME RepeatInv, OrderInv', NEW i \in Instances, Start(i)
  PROVE  RepeatInv'
<1>1. /\ UNCHANGED <<mode, arrived, pending, queue, batch, offset, faults, exits, breaks, tried>>
    BY DEF Start, updates, inside, bounds, history
<1>2. TypeOK /\ TypeOK'
    BY DEF RepeatInv, OrderInv
<1>3. phase'[i] = "up" /\ \A j \in Instances \ {i} : phase'[j] = phase[j]
    BY <1>2 DEF Start, Becomes, TypeOK
<1>4. ASSUME mode = "polling", NEW x \in Id
      PROVE  tried[x] + Cardinality(Chance(x)') + Opening' <= 1 + exits + breaks
  <2>1. lock = None /\ lock' = i
      BY <1>4 DEF Start
  <2>2. Opening = 1 /\ Opening' = 0
      BY <1>3, <2>1, IntakeAssumption DEF Opening
  <2>3. Chance(x)' \subseteq Chance(x) \cup {i}
      BY <1>1, <1>3 DEF Chance
  <2>4. /\ IsFiniteSet(Chance(x) \cup {i})
        /\ Cardinality(Chance(x) \cup {i}) \in Nat
        /\ Cardinality(Chance(x) \cup {i}) <= Cardinality(Chance(x)) + 1
    <3>1. IsFiniteSet(Chance(x)) /\ Cardinality(Chance(x)) \in Nat
        BY FiniteCounts
    <3> QED BY <3>1, OneMore
  <2>5. Cardinality(Chance(x)') <= Cardinality(Chance(x) \cup {i})
      BY <2>3, <2>4, FS_Subset
  <2>6. tried[x] + Cardinality(Chance(x)) + Opening <= 1 + exits + breaks
      BY <1>4 DEF RepeatInv, PolledSeldom
  <2>7. /\ tried[x] \in Nat /\ exits \in Nat /\ breaks \in Nat
        /\ Cardinality(Chance(x)) \in Nat /\ Cardinality(Chance(x)') \in Nat
      BY <1>2, FiniteCounts, FiniteCountsNext DEF TypeOK
  <2> QED BY <2>2, <2>4, <2>5, <2>6, <2>7
<1>5. PolledSeldom'
    BY <1>1, <1>4 DEF PolledSeldom
<1>6. PostedSeldom'
  <2>1. \A x : Places(x)' = Places(x) /\ Expected(x)' = Expected(x)
      BY <1>1, CountsSame, ExpectedSame
  <2> QED BY <1>1, <2>1 DEF RepeatInv, PostedSeldom
<1> QED BY <1>5, <1>6 DEF RepeatInv

(* A new update is expected once, as before. *)
LEMMA ArriveRepeat ==
  ASSUME RepeatInv, OrderInv', Arrive
  PROVE  RepeatInv'
<1>1. /\ UNCHANGED <<mode, phase, lock, queue, batch, offset, faults, exits, breaks, tried>>
      /\ arrived' = arrived + 1 /\ pending' = pending \cup {arrived + 1}
    BY DEF Arrive, locks, inside, bounds, history
<1>2. arrived \in Nat /\ \A x \in Id : x \in Nat
    BY Constants DEF RepeatInv, OrderInv, TypeOK
<1>3. \A x \in Id : Expected(x)' = Expected(x)
    BY <1>1, <1>2 DEF Expected
<1>4. \A x : Places(x)' = Places(x) /\ Chance(x)' = Chance(x)
    BY <1>1, CountsSame
<1>5. Opening' = Opening
    BY <1>1 DEF Opening
<1> QED BY <1>1, <1>3, <1>4, <1>5 DEF RepeatInv, PolledSeldom, PostedSeldom

(* A post takes a place in a queue; it is the last, or its answer is lost. *)
LEMMA PostRepeat ==
  ASSUME RepeatInv, OrderInv', NEW i \in Instances, NEW x \in pending, Post(i, x)
  PROVE  RepeatInv'
<1>1. /\ UNCHANGED <<mode, arrived, batch, tried>> /\ mode = "webhook"
      /\ \/ pending' = pending \ {x} /\ faults' = faults
         \/ faults' = faults + 1 /\ pending' = pending
    BY DEF Post
<1>2. TypeOK /\ TypeOK'
    BY DEF RepeatInv, OrderInv
<1>3. /\ queue[i] \in Seq(Id) /\ queue'[i] = Append(queue[i], x)
      /\ \A j \in Instances \ {i} : queue'[j] = queue[j]
    BY <1>2 DEF Post, TypeOK
<1>4. x \in Id /\ x \in Nat /\ x <= arrived /\ arrived \in Nat
    BY <1>2, Constants DEF TypeOK, Id
<1>5. PolledSeldom'
    BY <1>1 DEF PolledSeldom
<1>6. ASSUME NEW y PROVE Places(y)' \subseteq
                           Places(y) \cup (IF y = x THEN {<<i, Len(queue[i]) + 1>>} ELSE {})
  <2> SUFFICES ASSUME NEW p \in Places(y)'
               PROVE  p \in Places(y) \cup (IF y = x THEN {<<i, Len(queue[i]) + 1>>} ELSE {})
      OBVIOUS
  <2>1. PICK j \in Instances, n \in 1 .. QueueSize :
          p = <<j, n>> /\ n <= Len(queue'[j]) /\ queue'[j][n] = y
      BY DEF Places
  <2>2. CASE j # i
      BY <1>3, <2>1, <2>2 DEF Places
  <2>3. CASE j = i
    <3>1. Len(queue'[i]) = Len(queue[i]) + 1 /\ Len(queue[i]) \in Nat /\ n \in Nat /\ n >= 1
        BY <1>3, <1>4, <2>1, Constants
    <3>2. CASE n <= Len(queue[i])
      <4>1. queue'[i][n] = queue[i][n]
          BY <1>3, <1>4, <3>1, <3>2
      <4> QED BY <2>1, <2>3, <3>2, <4>1 DEF Places
    <3>3. CASE n = Len(queue[i]) + 1
      <4>1. queue'[i][n] = x
          BY <1>3, <1>4, <3>1, <3>3
      <4> QED BY <2>1, <2>3, <3>3, <4>1
    <3> QED BY <2>1, <2>3, <3>1, <3>2, <3>3
  <2> QED BY <2>2, <2>3
<1>7. ASSUME NEW y \in Id
      PROVE  tried[y] + Cardinality(Places(y)') + Expected(y)' <= 1 + faults'
  <2>1. /\ tried[y] \in Nat /\ faults \in Nat
        /\ Expected(y) \in Nat /\ Expected(y)' \in Nat /\ Expected(y)' <= Expected(y)
      BY SMTT(20), <1>1, <1>2 DEF TypeOK, Expected
  <2>2. tried[y] + Cardinality(Places(y)) + Expected(y) <= 1 + faults
      BY <1>1 DEF RepeatInv, PostedSeldom
  <2>3. /\ IsFiniteSet(Places(y)) /\ Cardinality(Places(y)) \in Nat
        /\ Cardinality(Places(y)') \in Nat
      BY FiniteCounts, FiniteCountsNext
  <2>4. CASE y # x
    <3>1. Cardinality(Places(y)') <= Cardinality(Places(y))
        BY <1>6, <2>3, <2>4, FS_Subset
    <3> QED BY <1>1, <2>1, <2>2, <2>3, <3>1
  <2>5. CASE y = x
    <3> DEFINE P == Places(y) \cup {<<i, Len(queue[i]) + 1>>}
    <3>1. IsFiniteSet(P) /\ Cardinality(P) <= Cardinality(Places(y)) + 1
        BY <2>3, OneMore
    <3>2. Places(y)' \subseteq P
        BY <1>6, <2>5
    <3> HIDE DEF P
    <3>3. Cardinality(Places(y)') <= Cardinality(P) /\ Cardinality(P) \in Nat
        BY <3>1, <3>2, FS_Subset, FS_CardinalityType
    <3>4. \/ Expected(y) = 1 /\ Expected(y)' = 0 /\ faults' = faults
          \/ faults' = faults + 1
        BY <1>1, <1>4, <2>5 DEF Expected
    <3> QED BY <2>1, <2>2, <2>3, <3>1, <3>3, <3>4
  <2> QED BY <2>4, <2>5
<1>8. PostedSeldom'
    BY <1>1, <1>7 DEF RepeatInv, PostedSeldom
<1> QED BY <1>5, <1>8 DEF RepeatInv

(* A poll fetches updates the process had a chance to begin already. *)
LEMMA PollRepeat ==
  ASSUME RepeatInv, OrderInv', NEW i \in Instances, Poll(i)
  PROVE  RepeatInv'
<1>1. /\ UNCHANGED <<mode, phase, lock, queue, offset, exits, breaks, tried>>
      /\ mode = "polling" /\ phase[i] = "up"
    BY DEF Poll, locks, history
<1>2. TypeOK
    BY DEF RepeatInv, OrderInv
<1>3. exits' \in Nat /\ breaks' \in Nat /\ exits \in Nat /\ breaks \in Nat
    BY <1>1, <1>2 DEF TypeOK
<1>4. \A j \in Instances : \/ batch'[j] = batch[j]
                           \/ j = i /\ \A x \in batch'[j] : offset[i] <= x
  <2>1. \A B \in Answer(i) : \A x \in B : offset[i] <= x
    <3>1. offset[i] \in Nat /\ \A x \in pending : x \in Nat
        BY <1>2, Constants DEF TypeOK
    <3> QED BY <3>1 DEF Answer, Kept
  <2>2. batch' = batch \/ \E B \in Answer(i) : batch' = [batch EXCEPT ![i] = B]
      BY DEF Poll
  <2> QED BY <1>2, <2>1, <2>2 DEF TypeOK
<1>5. \A x \in Id : Chance(x)' \subseteq Chance(x)
    BY <1>1, <1>4 DEF Chance
<1>6. Opening' = Opening /\ Opening \in Nat
    BY <1>1 DEF Opening
<1>7. PolledSeldom'
    BY <1>1, <1>2, <1>3, <1>5, <1>6, PolledKept DEF RepeatInv
<1>8. PostedSeldom'
    BY <1>1 DEF PostedSeldom
<1> QED BY <1>7, <1>8 DEF RepeatInv

(* So does the rest of the loop: the offset is above what it puts in. *)
LEMMA PushRepeat ==
  ASSUME RepeatInv, OrderInv', NEW i \in Instances, Push(i)
  PROVE  RepeatInv'
<1>1. PICK x \in batch[i] : /\ offset' = [offset EXCEPT ![i] = x + 1]
                            /\ queue' = [queue EXCEPT ![i] = Append(@, x)]
                            /\ batch' = [batch EXCEPT ![i] = @ \ {x}]
    BY DEF Push, Smallest, NextOffset
<1>2. UNCHANGED <<mode, phase, lock, exits, breaks, tried>>
    BY DEF Push, locks, bounds, history
<1>3. TypeOK /\ Came
    BY DEF RepeatInv, OrderInv
<1>4. mode = "polling"
    BY <1>1, <1>3 DEF RepeatInv, PostedSeldom, TypeOK
<1>5. /\ offset'[i] = x + 1 /\ queue'[i] = Append(queue[i], x) /\ batch'[i] \subseteq batch[i]
      /\ \A j \in Instances \ {i} :
           offset'[j] = offset[j] /\ queue'[j] = queue[j] /\ batch'[j] = batch[j]
    BY <1>1, <1>3 DEF TypeOK
<1>6. /\ x \in Id /\ x \in Nat /\ offset[i] \in Nat /\ offset[i] <= x /\ queue[i] \in Seq(Id)
  <2>1. x \in Id /\ offset[i] \in Nat /\ queue[i] \in Seq(Id)
      BY <1>3, Constants DEF TypeOK
  <2>2. offset[i] <= x
      BY <1>3 DEF Came
  <2> QED BY <2>1, <2>2, Constants
<1>7. \A n \in 1 .. Len(queue'[i]) :
        queue'[i][n] = x \/ (n \in 1 .. Len(queue[i]) /\ queue'[i][n] = queue[i][n])
    BY <1>5, <1>6
<1>8. ASSUME NEW y \in Id, NEW j \in Chance(y)' PROVE j \in Chance(y)
  <2>1. CASE j # i
      BY <1>2, <1>5, <1>8, <2>1 DEF Chance
  <2>2. CASE j = i
    <3>1. y \in Nat
        BY Constants
    <3>2. \/ phase[i] = "up" /\ x + 1 <= y
          \/ y \in batch'[i]
          \/ \E n \in 1 .. Len(queue'[i]) : queue'[i][n] = y
        BY <1>2, <1>5, <1>8, <2>2 DEF Chance
    <3>3. CASE phase[i] = "up" /\ x + 1 <= y
      <4>1. offset[i] <= y
          BY <1>6, <3>1, <3>3
      <4> QED BY <2>2, <3>3, <4>1 DEF Chance
    <3>4. CASE y \in batch'[i]
        BY <1>5, <2>2, <3>4 DEF Chance
    <3>5. ASSUME NEW n \in 1 .. Len(queue'[i]), queue'[i][n] = y PROVE j \in Chance(y)
        BY <1>1, <1>7, <2>2, <3>5 DEF Chance
    <3> QED BY <3>2, <3>3, <3>4, <3>5
  <2> QED BY <2>1, <2>2
<1>9. Opening' = Opening /\ Opening \in Nat
    BY <1>2 DEF Opening
<1>10. exits' \in Nat /\ breaks' \in Nat /\ exits \in Nat /\ breaks \in Nat
    BY <1>2, <1>3 DEF TypeOK
<1>11. \A y \in Id : Chance(y)' \subseteq Chance(y)
    BY <1>8
<1>12. PolledSeldom'
    BY <1>2, <1>3, <1>9, <1>10, <1>11, PolledKept DEF RepeatInv
<1>13. PostedSeldom'
    BY <1>2, <1>4 DEF PostedSeldom
<1> QED BY <1>12, <1>13 DEF RepeatInv

(* A worker that begins a polled update takes the chance of its process,    *)
(* which has the update no second time; one that begins a posted one takes  *)
(* a place in the queue, and what is behind it moves up.                    *)
LEMMA TakeRepeat ==
  ASSUME RepeatInv, OrderInv', NEW i \in Instances, NEW w \in Workers, Take(i, w)
  PROVE  RepeatInv'
<1> DEFINE h == Head(queue[i])
<1>1. UNCHANGED <<mode, arrived, pending, phase, lock, batch, offset, exits, breaks, faults>>
    BY DEF Take, updates, locks, bounds
<1>2. TypeOK /\ Came
    BY DEF RepeatInv, OrderInv
<1>3. /\ queue[i] # <<>> /\ queue[i] \in Seq(Id) /\ Len(queue[i]) <= QueueSize
      /\ queue'[i] = Tail(queue[i])
      /\ \A j \in Instances \ {i} : queue'[j] = queue[j]
      /\ tried' = [tried EXCEPT ![h] = @ + 1] /\ tried \in [Id -> Nat]
    BY <1>2 DEF Take, TypeOK
<1>4. /\ Len(queue[i]) \in Nat /\ Len(queue[i]) >= 1 /\ Len(queue'[i]) = Len(queue[i]) - 1
      /\ h = queue[i][1] /\ h \in Id
      /\ \A n \in 1 .. Len(queue'[i]) : queue'[i][n] = queue[i][n + 1]
    BY <1>3
<1>5. tried'[h] = tried[h] + 1 /\ \A x \in Id \ {h} : tried'[x] = tried[x]
    BY <1>3, <1>4
<1> HIDE DEF h
<1>6. \A n \in 1 .. Len(queue'[i]) : n + 1 \in 1 .. Len(queue[i]) /\ 1 < n + 1
    BY <1>4
<1>7. \A x : Chance(x)' \subseteq Chance(x)
  <2> SUFFICES ASSUME NEW x, NEW j \in Chance(x)' PROVE j \in Chance(x)
      OBVIOUS
  <2>1. CASE j # i
      BY <1>1, <1>3, <2>1 DEF Chance
  <2>2. CASE j = i
      BY <1>1, <1>4, <1>6, <2>2 DEF Chance
  <2> QED BY <2>1, <2>2
<1>8. ASSUME mode = "polling", NEW x \in Id
      PROVE  tried'[x] + Cardinality(Chance(x)') + Opening' <= 1 + exits' + breaks'
  <2>1. tried[x] + Cardinality(Chance(x)) + Opening <= 1 + exits + breaks
      BY <1>8 DEF RepeatInv, PolledSeldom
  <2>2. /\ tried[x] \in Nat /\ exits \in Nat /\ breaks \in Nat
        /\ IsFiniteSet(Chance(x)) /\ Cardinality(Chance(x)) \in Nat
        /\ Cardinality(Chance(x)') \in Nat
      BY <1>2, FiniteCounts, FiniteCountsNext DEF TypeOK
  <2>3. Opening' = Opening /\ Opening \in Nat
      BY <1>1 DEF Opening
  <2>4. CASE x # h
    <3>1. Cardinality(Chance(x)') <= Cardinality(Chance(x))
        BY <1>7, <2>2, FS_Subset
    <3> QED BY <1>1, <1>5, <2>1, <2>2, <2>3, <2>4, <3>1
  <2>5. CASE x = h
    <3>1. InOrder(i)
        BY <1>8 DEF RepeatInv, OrderInv
    <3>2. i \in Chance(x)
        BY <1>4, <2>5 DEF Chance
    <3>3. i \notin Chance(x)'
      <4>1. x \in Nat /\ offset[i] \in Nat /\ x < offset[i]
          BY <1>2, <1>4, <2>5, <3>1, Constants DEF InOrder, TypeOK
      <4>2. ~(offset[i] <= x)
          BY <4>1
      <4>3. x \notin batch[i]
          BY <1>2, <4>2 DEF Came
      <4>4. \A n \in 1 .. Len(queue'[i]) : queue'[i][n] # x
        <5> SUFFICES ASSUME NEW n \in 1 .. Len(queue'[i]) PROVE queue'[i][n] # x
            OBVIOUS
        <5>1. 1 \in 1 .. Len(queue[i]) /\ n + 1 \in 1 .. Len(queue[i]) /\ 1 < n + 1
            BY <1>4, <1>6
        <5>2. queue[i][1] < queue[i][n + 1]
            BY <3>1, <5>1 DEF InOrder
        <5> QED BY <1>4, <2>5, <4>1, <5>2
      <4> QED BY <1>1, <4>2, <4>3, <4>4 DEF Chance
    <3>4. Chance(x)' \subseteq Chance(x) \ {i}
        BY <1>7, <3>3
    <3>5. /\ IsFiniteSet(Chance(x) \ {i})
          /\ Cardinality(Chance(x) \ {i}) = Cardinality(Chance(x)) - 1
        BY <2>2, <3>2, FS_RemoveElement
    <3>6. Cardinality(Chance(x)') <= Cardinality(Chance(x)) - 1
        BY <3>4, <3>5, FS_Subset
    <3> QED BY <1>1, <1>5, <2>1, <2>2, <2>3, <2>5, <3>6
  <2> QED BY <2>4, <2>5
<1>9. PolledSeldom'
    BY <1>1, <1>8 DEF PolledSeldom
<1>10. ASSUME NEW x \in Id
       PROVE  Cardinality(Places(x)') <= Cardinality(Places(x) \ {<<i, 1>>})
  <2> DEFINE up == [p \in Places(x)' |-> IF p[1] = i THEN <<i, p[2] + 1>> ELSE p]
             S == Places(x)'
             T == Places(x) \ {<<i, 1>>}
  <2>1. \A p \in S : \E j \in Instances, n \in 1 .. QueueSize :
          p = <<j, n>> /\ n <= Len(queue'[j]) /\ queue'[j][n] = x
      BY DEF Places
  <2>2. ASSUME NEW p \in S PROVE up[p] \in T
    <3>1. PICK j \in Instances, n \in 1 .. QueueSize :
            p = <<j, n>> /\ n <= Len(queue'[j]) /\ queue'[j][n] = x
        BY <2>1
    <3>2. CASE j # i
      <4>1. up[p] = <<j, n>> /\ <<j, n>> # <<i, 1>>
          BY <3>1, <3>2
      <4>2. <<j, n>> \in Places(x)
          BY <1>3, <3>1, <3>2 DEF Places
      <4> QED BY <4>1, <4>2
    <3>3. CASE j = i
      <4>1. n \in 1 .. Len(queue'[i])
          BY <1>4, <3>1, <3>3, Constants
      <4>2. n + 1 \in 1 .. QueueSize /\ n + 1 <= Len(queue[i]) /\ n + 1 # 1
          BY <1>3, <1>4, <4>1, Constants
      <4>3. queue[i][n + 1] = x
          BY <1>4, <3>1, <3>3, <4>1
      <4>4. up[p] = <<i, n + 1>> /\ <<i, n + 1>> # <<i, 1>>
          BY <3>1, <3>3, <4>2
      <4>5. <<i, n + 1>> \in Places(x)
          BY <4>2, <4>3 DEF Places
      <4> QED BY <4>4, <4>5
    <3> QED BY <3>2, <3>3
  <2>3. ASSUME NEW p \in S, NEW q \in S, up[p] = up[q] PROVE p = q
    <3>1. PICK j \in Instances, n \in 1 .. QueueSize : p = <<j, n>>
        BY <2>1
    <3>2. PICK k \in Instances, m \in 1 .. QueueSize : q = <<k, m>>
        BY <2>1
    <3>3. /\ up[p] = IF j = i THEN <<i, n + 1>> ELSE <<j, n>>
          /\ up[q] = IF k = i THEN <<i, m + 1>> ELSE <<k, m>>
        BY <3>1, <3>2
    <3>4. n \in Nat /\ m \in Nat
        BY Constants
    <3> QED BY <2>3, <3>1, <3>2, <3>3, <3>4
  <2>4. up \in Injection(S, T)
    <3>1. up \in [S -> T]
        BY <2>2
    <3> HIDE DEF up, S, T
    <3> QED BY <2>3, <3>1 DEF Injection, IsInjective
  <2>5. IsFiniteSet(T)
      BY FiniteCounts, FS_RemoveElement
  <2> HIDE DEF up, S, T
  <2>6. Cardinality(S) <= Cardinality(T)
      BY <2>4, <2>5, FS_Injection
  <2> QED BY <2>6 DEF S, T
<1>11. ASSUME mode = "webhook", NEW x \in Id
       PROVE  tried'[x] + Cardinality(Places(x)') + Expected(x)' <= 1 + faults'
  <2>1. tried[x] + Cardinality(Places(x)) + Expected(x) <= 1 + faults
      BY <1>11 DEF RepeatInv, PostedSeldom
  <2>2. /\ tried[x] \in Nat /\ faults \in Nat
        /\ IsFiniteSet(Places(x)) /\ Cardinality(Places(x)) \in Nat
        /\ Cardinality(Places(x)') \in Nat
      BY <1>2, FiniteCounts, FiniteCountsNext DEF TypeOK
  <2>3. Expected(x)' = Expected(x) /\ Expected(x) \in Nat
      BY <1>1 DEF Expected
  <2>4. Cardinality(Places(x) \ {<<i, 1>>}) =
          IF <<i, 1>> \in Places(x) THEN Cardinality(Places(x)) - 1 ELSE Cardinality(Places(x))
      BY <2>2, FS_RemoveElement
  <2>5. x = h => <<i, 1>> \in Places(x)
      BY <1>3, <1>4, Constants DEF Places
  <2> QED BY <1>1, <1>5, <1>10, <2>1, <2>2, <2>3, <2>4, <2>5
<1>12. PostedSeldom'
    BY <1>1, <1>11 DEF RepeatInv, PostedSeldom
<1> QED BY <1>9, <1>12 DEF RepeatInv

(* What a worker is done with it does not get back. *)
LEMMA FinishRepeat ==
  ASSUME RepeatInv, OrderInv', NEW i \in Instances, NEW w \in Workers, Finish(i, w)
  PROVE  RepeatInv'
<1>1. UNCHANGED <<mode, arrived, pending, phase, lock, queue, batch, offset, exits, breaks,
                  faults, tried>>
    BY DEF Finish, updates, locks, bounds
<1>2. \A x : /\ Places(x)' = Places(x) /\ Chance(x)' = Chance(x)
             /\ Expected(x)' = Expected(x)
    BY <1>1, CountsSame, ExpectedSame
<1>3. Opening' = Opening
    BY <1>1 DEF Opening
<1> QED BY <1>1, <1>2, <1>3 DEF RepeatInv, PolledSeldom, PostedSeldom

(* A process that ends gives up its chances; that it would end was counted. *)
LEMMA EndRepeat ==
  ASSUME RepeatInv, OrderInv', NEW i \in Instances, Exit(i) \/ Return(i)
  PROVE  RepeatInv'
<1>1. Ends(i) /\ phase[i] # "up"
    BY DEF Exit, Return, Returning
<1>2. TypeOK
    BY DEF RepeatInv, OrderInv
<1>3. /\ UNCHANGED <<mode, arrived, pending, exits, breaks, faults, tried>>
      /\ phase'[i] = "down" /\ batch'[i] = {} /\ Len(queue'[i]) = 0
      /\ lock' = IF lock = i THEN None ELSE lock
      /\ \A j \in Instances \ {i} :
           /\ phase'[j] = phase[j] /\ batch'[j] = batch[j]
           /\ queue'[j] = queue[j] /\ offset'[j] = offset[j]
    BY <1>1, <1>2 DEF Ends, Becomes, updates, bounds, TypeOK
<1>4. \A x \in Id : Chance(x)' \subseteq Chance(x)
    BY <1>3 DEF Chance
<1>5. \A x \in Id : Places(x)' \subseteq Places(x)
  <2> SUFFICES ASSUME NEW x, NEW p \in Places(x)' PROVE p \in Places(x)
      OBVIOUS
  <2>1. PICK j \in Instances, n \in 1 .. QueueSize :
          p = <<j, n>> /\ n <= Len(queue'[j]) /\ queue'[j][n] = x
      BY DEF Places
  <2>2. j # i
      BY <1>3, <2>1, Constants
  <2> QED BY <1>3, <2>1, <2>2 DEF Places
<1>6. Opening' = Opening /\ Opening \in Nat
  <2>1. CASE lock = i
      BY <1>1, <1>3, <2>1, IntakeAssumption DEF Opening
  <2>2. CASE lock # i
      BY <1>3, <2>2 DEF Opening
  <2> QED BY <2>1, <2>2 DEF Opening
<1>7. \A x : Expected(x)' = Expected(x) /\ Expected(x) \in Nat
    BY <1>3 DEF Expected
<1>8. /\ faults' \in Nat /\ faults' >= faults /\ exits' \in Nat /\ breaks' \in Nat
      /\ exits \in Nat /\ breaks \in Nat
    BY <1>2, <1>3 DEF TypeOK
<1>9. PolledSeldom'
    BY <1>2, <1>3, <1>4, <1>6, <1>8, PolledKept DEF RepeatInv
<1>10. PostedSeldom'
  <2>1. \A x \in Id : Places(x)' \subseteq Places(x) /\ Expected(x)' <= Expected(x)
      BY <1>5, <1>7
  <2>2. mode = "webhook" => \A j \in Instances : batch'[j] = {}
      BY <1>3 DEF RepeatInv, PostedSeldom
  <2> QED BY <1>2, <1>3, <1>8, <2>1, <2>2, PostedKept DEF RepeatInv
<1> QED BY <1>9, <1>10 DEF RepeatInv

(* Every step keeps the invariant. *)
LEMMA RepeatStep == RepeatInv /\ [Next]_vars => RepeatInv'
<1> SUFFICES ASSUME RepeatInv, [Next]_vars PROVE RepeatInv'
    OBVIOUS
<1>1. OrderInv'
    BY OrderStep DEF RepeatInv
<1>2. CASE UNCHANGED vars
  <2>1. UNCHANGED <<mode, arrived, pending, phase, lock, queue, batch, offset, exits, breaks,
                    faults, tried>>
      BY <1>2 DEF vars
  <2>2. \A x : /\ Places(x)' = Places(x) /\ Chance(x)' = Chance(x)
               /\ Expected(x)' = Expected(x)
      BY <2>1, CountsSame, ExpectedSame
  <2>3. Opening' = Opening
      BY <2>1 DEF Opening
  <2> QED BY <1>1, <2>1, <2>2, <2>3 DEF RepeatInv, PolledSeldom, PostedSeldom
<1>3. CASE Arrive
    BY <1>1, <1>3, ArriveRepeat
<1>4. ASSUME NEW i \in Instances,
             \/ Launch(i) \/ Start(i) \/ Refused(i)
             \/ \E x \in pending : Post(i, x)
             \/ Poll(i) \/ Push(i)
             \/ \E w \in Workers : WorkerStep(i, w)
             \/ Stop(i) \/ Conflict(i) \/ Exit(i) \/ Return(i) \/ Break(i)
      PROVE  RepeatInv'
  <2>1. CASE Launch(i) \/ Refused(i) \/ Stop(i) \/ Conflict(i) \/ Break(i)
      BY <1>1, <2>1, PhaseRepeat
  <2>2. CASE Start(i)
      BY <1>1, <2>2, StartRepeat
  <2>3. ASSUME NEW x \in pending, Post(i, x) PROVE RepeatInv'
      BY <1>1, <2>3, PostRepeat
  <2>4. CASE Poll(i) \/ Push(i)
      BY <1>1, <2>4, PollRepeat, PushRepeat
  <2>5. ASSUME NEW w \in Workers, WorkerStep(i, w) PROVE RepeatInv'
      BY <1>1, <2>5, TakeRepeat, FinishRepeat DEF WorkerStep
  <2>6. CASE Exit(i) \/ Return(i)
      BY <1>1, <2>6, EndRepeat
  <2> QED BY <1>4, <2>1, <2>2, <2>3, <2>4, <2>5, <2>6
<1> QED BY <1>2, <1>3, <1>4 DEF Next

(* An update is handled again only for a reason: a lost answer to a post;  *)
(* in polling mode the end of a process, or a broken lock.                  *)
THEOREM RepeatsAreReasoned == Spec => []RepeatsHaveReasons
<1>1. ASSUME RepeatInv PROVE RepeatsHaveReasons
  <2> SUFFICES ASSUME NEW x \in Id
               PROVE  tried[x] <= 1 + (IF mode = "webhook" THEN faults ELSE exits + breaks)
      BY DEF RepeatsHaveReasons
  <2>1. TypeOK
      BY <1>1 DEF RepeatInv, OrderInv
  <2>2. /\ tried[x] \in Nat /\ faults \in Nat /\ exits \in Nat /\ breaks \in Nat
        /\ Cardinality(Chance(x)) \in Nat /\ Cardinality(Places(x)) \in Nat
        /\ Opening \in Nat /\ Expected(x) \in Nat
      BY <2>1, FiniteCounts DEF TypeOK, Opening, Expected
  <2>3. CASE mode = "webhook"
    <3>1. tried[x] + Cardinality(Places(x)) + Expected(x) <= 1 + faults
        BY <1>1, <2>3 DEF RepeatInv, PostedSeldom
    <3> QED BY <2>2, <2>3, <3>1
  <2>4. CASE mode = "polling"
    <3>1. tried[x] + Cardinality(Chance(x)) + Opening <= 1 + exits + breaks
        BY <1>1, <2>4 DEF RepeatInv, PolledSeldom
    <3> QED BY <2>2, <2>4, <3>1
  <2> QED BY <2>1, <2>3, <2>4 DEF TypeOK
<1> QED BY <1>1, RepeatInit, RepeatStep, PTL DEF Spec
=============================================================================
