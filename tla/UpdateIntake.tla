---------------------------- MODULE UpdateIntake ----------------------------
(***************************************************************************)
(* How updates reach the update workers (internal/bot/bot.go): posted by   *)
(* Telegram to the webhook, or polled with getUpdates under an advisory    *)
(* lock (internal/db/store.go); the bounded queue between; the shutdown    *)
(* (cmd/telemod/main.go), in which the queue is lost.                      *)
(*                                                                         *)
(* Telegram keeps an update until the webhook answers 200, or until        *)
(* getUpdates is called with an offset above it.  Two instances, because a *)
(* deployment runs the new one beside the old one.  What a handler does is *)
(* the other modules'; a panic in one ends with that update.               *)
(***************************************************************************)
EXTENDS Integers, Sequences, FiniteSets

CONSTANTS
  Instances,
  Workers,      \* update workers of an instance
  QueueSize,    \* BOT_UPDATE_QUEUE_SIZE
  BatchSize,    \* updates in one answer of getUpdates
  None,         \* nobody holds the lock
  Last,         \* bound on updates
  MaxExits,     \* bound on ends of processes
  MaxBreaks,    \* bound on broken connections that hold the lock
  MaxFaults     \* bound on answers that are lost

ASSUME IntakeAssumption ==
  /\ IsFiniteSet(Instances) /\ IsFiniteSet(Workers) /\ None \notin Instances
  /\ QueueSize \in Nat \ {0} /\ BatchSize \in Nat \ {0} /\ Last \in Nat
  /\ MaxExits \in Nat /\ MaxBreaks \in Nat /\ MaxFaults \in Nat

VARIABLES
  mode,     \* BOT_MODE, the same everywhere
  arrived,  \* updates so far, by update_id
  pending,  \* those that Telegram keeps
  phase,    \* per instance
  lock,     \* the holder of the advisory lock
  queue,    \* per instance: the channel updates
  hand,     \* per instance and worker: the update it handles, 0 if none
  batch,    \* per instance: polled and not yet put in the queue
  offset,   \* per instance: of the next getUpdates
  broken,   \* the processes whose connection with the lock broke
  exits, breaks, faults,
  tried,    \* history: how often the handling of an update was begun
  done,     \* history: handled to the end
  lost,     \* history: neither, and nobody has them any more
  late      \* history: accepted by a process that was told to stop

updates == <<arrived, pending>>
inside == <<queue, hand, batch, offset>>
locks == <<lock, broken>>
bounds == <<exits, breaks, faults>>
history == <<tried, done, lost, late>>
vars == <<mode, arrived, pending, phase, lock, queue, hand, batch, offset,
          broken, exits, breaks, faults, tried, done, lost, late>>

Id == 1 .. Last
Free == [w \in Workers |-> 0]

TypeOK ==
  /\ mode \in {"webhook", "polling"}
  /\ arrived \in 0 .. Last /\ pending \subseteq 1 .. arrived
  /\ phase \in [Instances -> {"down", "starting", "up", "stopping", "returning"}]
  /\ lock \in Instances \cup {None}
  /\ queue \in [Instances -> Seq(Id)] /\ \A i \in Instances : Len(queue[i]) <= QueueSize
  /\ hand \in [Instances -> [Workers -> {0} \cup Id]]
  /\ batch \in [Instances -> SUBSET Id] /\ offset \in [Instances -> 0 .. Last + 1]
  /\ broken \subseteq Instances
  /\ exits \in Nat /\ breaks \in Nat /\ faults \in Nat
  /\ tried \in [Id -> Nat] /\ done \subseteq Id /\ lost \subseteq Id /\ late \subseteq Id

Init ==
  /\ mode \in {"webhook", "polling"}
  /\ arrived = 0 /\ pending = {}
  /\ phase = [i \in Instances |-> "down"]
  /\ lock = None /\ broken = {}
  /\ queue = [i \in Instances |-> <<>>]
  /\ hand = [i \in Instances |-> Free]
  /\ batch = [i \in Instances |-> {}] /\ offset = [i \in Instances |-> 0]
  /\ exits = 0 /\ breaks = 0 /\ faults = 0
  /\ tried = [x \in Id |-> 0] /\ done = {} /\ lost = {} /\ late = {}

Becomes(i, p) == phase' = [phase EXCEPT ![i] = p]
Busy(i) == \E w \in Workers : hand[i][w] # 0

(* What a process has in memory. *)
Held(i) ==
  batch[i] \cup {queue[i][n] : n \in 1 .. Len(queue[i])}
           \cup ({hand[i][w] : w \in Workers} \ {0})
Memory == UNION {Held(i) : i \in Instances}
Losses == Memory \ (pending \cup done \cup Memory')

Smallest(S) == {x \in S : \A y \in S : x <= y}

(* A user does something. *)
Arrive ==
  /\ arrived < Last
  /\ arrived' = arrived + 1 /\ pending' = pending \cup {arrived'}
  /\ UNCHANGED <<mode, phase, locks, inside, bounds, history>>

----------------------------------------------------------------------------
(* The supervisor starts a process; its HTTP server runs before its workers *)
(* do.                                                                      *)
Launch(i) ==
  /\ phase[i] = "down"
  /\ Becomes(i, "starting")
  /\ UNCHANGED <<mode, updates, locks, inside, bounds, history>>

Start_Bug(i) ==  \* pg_try_advisory_lock's answer is not looked at
  /\ phase[i] = "starting"
  /\ \/ mode = "webhook" /\ UNCHANGED lock
     \/ mode = "polling" /\ lock' = i
  /\ Becomes(i, "up")
  /\ UNCHANGED <<mode, updates, broken, inside, bounds, history>>

(* runWebhook starts the workers; runPolling takes the lock first. *)
Start(i) ==
  /\ phase[i] = "starting"
  /\ \/ mode = "webhook" /\ UNCHANGED lock
     \/ mode = "polling" /\ lock = None /\ lock' = i
  /\ Becomes(i, "up")
  /\ UNCHANGED <<mode, updates, broken, inside, bounds, history>>

(* acquirePollingLock: another one has it, and the process ends. *)
Refused(i) ==
  /\ phase[i] = "starting" /\ mode = "polling" /\ lock # None
  /\ Becomes(i, "down")
  /\ UNCHANGED <<mode, updates, locks, inside, bounds, history>>

(* handleWebhookHTTP: an update that does not fit in the queue is refused   *)
(* (429) and nothing changes; an answer that gets lost counts as a refusal. *)
Post_Bug(i, x) ==  \* 200 whether it fits or not
  /\ mode = "webhook" /\ x \in pending
  /\ phase[i] \in {"starting", "up", "stopping"}
  /\ queue' = IF Len(queue[i]) < QueueSize THEN [queue EXCEPT ![i] = Append(@, x)] ELSE queue
  /\ late' = IF phase[i] = "stopping" THEN late \cup {x} ELSE late
  /\ pending' = pending \ {x}
  /\ UNCHANGED <<mode, arrived, phase, locks, hand, batch, offset, bounds, tried, done, lost>>

Post(i, x) ==
  /\ mode = "webhook" /\ x \in pending
  /\ phase[i] \in {"starting", "up", "stopping"}
  /\ Len(queue[i]) < QueueSize
  /\ queue' = [queue EXCEPT ![i] = Append(@, x)]
  /\ late' = IF phase[i] = "stopping" THEN late \cup {x} ELSE late
  /\ \/ pending' = pending \ {x} /\ UNCHANGED faults
     \/ faults < MaxFaults /\ faults' = faults + 1 /\ UNCHANGED pending
  /\ UNCHANGED <<mode, arrived, phase, locks, hand, batch, offset, exits, breaks,
                 tried, done, lost>>

----------------------------------------------------------------------------
(* getUpdates: Telegram forgets what is below the offset and answers with   *)
(* the oldest of the rest.                                                  *)
Kept(i) == {x \in pending : x >= offset[i]}
Answer(i) ==
  {B \in SUBSET Kept(i) :
     /\ Cardinality(B) <= BatchSize
     /\ \A x \in Kept(i) \ B, y \in B : y < x}

Poll_Bug(i) ==  \* does not wait for the last answer to be in the queue
  /\ mode = "polling" /\ phase[i] = "up"
  /\ pending' = Kept(i)
  /\ LET B == CHOOSE C \in Answer(i) : \A A \in Answer(i) : A \subseteq C IN
       /\ batch' = [batch EXCEPT ![i] = @ \cup B]
       /\ offset' =
            [offset EXCEPT ![i] = IF B = {} THEN @ ELSE (CHOOSE x \in B : \A y \in B : y <= x) + 1]
  /\ UNCHANGED <<mode, arrived, phase, locks, queue, hand, bounds, history>>

Poll(i) ==
  /\ mode = "polling" /\ phase[i] = "up" /\ batch[i] = {}
  /\ pending' = Kept(i)
  /\ \/ \E B \in Answer(i) :
          /\ \A A \in Answer(i) : A \subseteq B
          /\ batch' = [batch EXCEPT ![i] = B]
          /\ UNCHANGED faults
     \/ faults < MaxFaults /\ faults' = faults + 1 /\ UNCHANGED batch
  /\ UNCHANGED <<mode, arrived, phase, locks, queue, hand, offset, exits, breaks, history>>

NextOffset_Bug(x) == x  \* the update itself is asked for again
NextOffset(x) == x + 1

Push_Bug(i) ==  \* a full queue drops, as that of the metrics does
  /\ batch[i] # {}
  /\ \E x \in Smallest(batch[i]) :
       /\ offset' = [offset EXCEPT ![i] = NextOffset(x)]
       /\ queue' = IF Len(queue[i]) < QueueSize
                   THEN [queue EXCEPT ![i] = Append(@, x)] ELSE queue
       /\ batch' = [batch EXCEPT ![i] = @ \ {x}]
  /\ UNCHANGED <<mode, updates, phase, locks, hand, bounds, history>>

(* The rest of the loop waits for room, update by update; a process that   *)
(* was told to stop may go on with it or not.                              *)
Push(i) ==
  /\ batch[i] # {}
  /\ Len(queue[i]) < QueueSize
  /\ \E x \in Smallest(batch[i]) :
       /\ offset' = [offset EXCEPT ![i] = NextOffset(x)]
       /\ queue' = [queue EXCEPT ![i] = Append(@, x)]
       /\ batch' = [batch EXCEPT ![i] = @ \ {x}]
  /\ UNCHANGED <<mode, updates, phase, locks, hand, bounds, history>>

----------------------------------------------------------------------------
(* updateWorker: one that was told to stop picks either of the two cases of *)
(* its select.                                                              *)
Take(i, w) ==
  /\ phase[i] \in {"up", "stopping", "returning"}
  /\ hand[i][w] = 0 /\ queue[i] # <<>>
  /\ hand' = [hand EXCEPT ![i][w] = Head(queue[i])]
  /\ queue' = [queue EXCEPT ![i] = Tail(@)]
  /\ tried' = [tried EXCEPT ![Head(queue[i])] = @ + 1]
  /\ UNCHANGED <<mode, updates, phase, locks, batch, offset, bounds, done, lost, late>>

(* handleUpdateSafe.  The context is that of the process: when it is        *)
(* cancelled, the calls of the handler fail.                                *)
Finish(i, w) ==
  /\ hand[i][w] # 0
  /\ hand' = [hand EXCEPT ![i][w] = 0]
  /\ UNCHANGED <<mode, updates, phase, locks, queue, batch, offset, bounds, tried, late>>
  /\ \/ done' = done \cup {hand[i][w]} /\ UNCHANGED lost
     \/ /\ phase[i] \in {"stopping", "returning"}
        /\ lost' = lost \cup Losses
        /\ UNCHANGED done

----------------------------------------------------------------------------
(* SIGTERM cancels the context of main, or Run fails at its start. *)
Stop(i) ==
  /\ phase[i] \in {"starting", "up"} /\ exits < MaxExits
  /\ exits' = exits + 1
  /\ Becomes(i, "stopping")
  /\ UNCHANGED <<mode, updates, locks, inside, breaks, faults, history>>

(* Two processes poll, and Telegram ends the call of one of them: it        *)
(* returns from pollUpdates.                                                *)
Conflict(i) ==
  /\ mode = "polling" /\ phase[i] = "up" /\ batch[i] = {} /\ exits < MaxExits
  /\ \E j \in Instances \ {i} : phase[j] = "up"
  /\ exits' = exits + 1
  /\ Becomes(i, "returning")
  /\ UNCHANGED <<mode, updates, locks, inside, breaks, faults, history>>

(* What the process had in memory is gone, its session at the database too. *)
Ends(i) ==
  /\ Becomes(i, "down")
  /\ queue' = [queue EXCEPT ![i] = <<>>]
  /\ hand' = [hand EXCEPT ![i] = Free]
  /\ batch' = [batch EXCEPT ![i] = {}] /\ offset' = [offset EXCEPT ![i] = 0]
  /\ lost' = lost \cup Losses
  /\ lock' = IF lock = i THEN None ELSE lock
  /\ broken' = broken \ {i}
  /\ UNCHANGED <<mode, updates, bounds, tried, done, late>>

(* main does not wait for the workers.  Its store.Close waits for the       *)
(* connection of the lock, and so for Run, unless the process is killed.    *)
Exit(i) == phase[i] = "stopping" /\ Ends(i)

Returning(i) == phase[i] = "returning" \/ (mode = "polling" /\ phase[i] = "stopping")

Return_Bug(i) ==  \* the lock is released first
  /\ Returning(i)
  /\ \/ ~Busy(i) /\ Ends(i)
     \/ /\ lock' = IF lock = i THEN None ELSE lock
        /\ UNCHANGED <<mode, updates, phase, inside, broken, bounds, history>>

(* runPolling waits for the workers, and releases the lock after them. *)
Return(i) == Returning(i) /\ ~Busy(i) /\ Ends(i)

(* The connection that holds the lock breaks, and nobody notices. *)
Break(i) ==
  /\ lock = i /\ breaks < MaxBreaks
  /\ breaks' = breaks + 1
  /\ lock' = None /\ broken' = broken \cup {i}
  /\ UNCHANGED <<mode, updates, phase, inside, exits, faults, history>>

WorkerStep(i, w) == Take(i, w) \/ Finish(i, w)

Next ==
  \/ Arrive
  \/ \E i \in Instances :
       \/ Launch(i) \/ Start(i) \/ Refused(i)
       \/ \E x \in pending : Post(i, x)
       \/ Poll(i) \/ Push(i)
       \/ \E w \in Workers : WorkerStep(i, w)
       \/ Stop(i) \/ Conflict(i) \/ Exit(i) \/ Return(i) \/ Break(i)

Spec == Init /\ [][Next]_vars

(* Processes are started, workers work, Telegram posts again what was not   *)
(* answered, a stopping process ends.                                       *)
Fairness ==
  /\ \A i \in Instances :
       /\ WF_vars(Launch(i)) /\ WF_vars(Start(i))
       /\ WF_vars(Poll(i)) /\ WF_vars(Push(i))
       /\ WF_vars(Exit(i)) /\ WF_vars(Return(i))
       /\ \A w \in Workers : WF_vars(WorkerStep(i, w))
  /\ \A x \in Id : WF_vars(\E i \in Instances : Post(i, x))

FairSpec == Spec /\ Fairness

----------------------------------------------------------------------------
(* An update is with Telegram, in a process, handled, or was lost by a      *)
(* process that ended: a full queue, a failing call or a lost answer loses  *)
(* none.                                                                    *)
NothingForgotten ==
  1 .. arrived \subseteq pending \cup done \cup lost \cup Memory

(* The end of a process loses no more than its queue and what its workers   *)
(* handle, and what it went on to accept.                                   *)
LossIsBounded ==
  Cardinality(lost \ late) <= exits * (QueueSize + Cardinality(Workers))

(* An update is handled again only for a reason: a lost answer; in polling  *)
(* mode the end of a process that had not confirmed it, or a broken lock.   *)
RepeatsHaveReasons ==
  \A x \in Id :
    tried[x] <= 1 + (IF mode = "webhook" THEN faults ELSE exits + breaks)

(* A polling process begins updates in their order, for any failing calls,  *)
(* fetches and other processes.                                             *)
PolledInOrder ==
  mode = "polling" =>
    \A i \in Instances :
      /\ \A m, n \in 1 .. Len(queue[i]) : m < n => queue[i][m] < queue[i][n]
      /\ \A n \in 1 .. Len(queue[i]), x \in batch[i] : queue[i][n] < x
      /\ \A w \in Workers, n \in 1 .. Len(queue[i]) : hand[i][w] < queue[i][n]

(* Two processes do not work on polled updates at the same time, also while *)
(* one ends and the other starts, unless the connection with the lock of   *)
(* one broke: README, "duplicate Render instances using the same DB do not  *)
(* poll at the same time".                                                  *)
AtWork == {i \in Instances : phase[i] = "up" \/ Busy(i)}
OneAtWork ==
  mode = "polling" => \A i, j \in AtWork \ broken : i = j

(* Every update is handled to the end, or was lost by a process that ended. *)
EveryUpdateEnds == \A x \in Id : x <= arrived ~> x \in done \cup lost
=============================================================================
