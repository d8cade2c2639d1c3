------------------------------ MODULE Strikes ------------------------------
(***************************************************************************)
(* The strikes of one user in one group (internal/bot/security.go): the    *)
(* counter in user_strikes, the mute at the second, the removal at the     *)
(* third with its reset in a goroutine of its own, the unmute task         *)
(* (internal/bot/tasks.go) and the moderators' buttons under a report      *)
(* (internal/bot/report.go), in one process.                               *)
(*                                                                         *)
(* Strikes of one user come from any of the update workers: a message that *)
(* breaks a rule, a flood, a press of "Delete & Strike".  They run at the  *)
(* same time, one step per statement or call.  A failure of a call is      *)
(* logged and the next call is made.                                       *)
(*                                                                         *)
(* Nothing in the code says what Telegram does when the rights of a member *)
(* it has banned are set: both outcomes are in the model.                  *)
(***************************************************************************)
EXTENDS TaskStore

CONSTANTS
  User,         \* unmute:<chat>:<user>
  Workers,      \* update workers
  MuteTime,     \* the two hours of a mute, in clock ticks
  Horizon,      \* bound on the clock for new strikes
  MaxStrikes,   \* bound on strikes
  MaxPardons,   \* bound on administrators' pardons
  MaxCrashes,   \* bound on crashes
  MaxFaults     \* bound on failing calls, to Telegram or the database

ASSUME StrikesAssumption ==
  /\ Keys = {User} /\ MuteTime \in Nat \ {0} /\ Horizon \in Nat
  /\ MaxStrikes \in Nat /\ MaxPardons \in Nat
  /\ MaxCrashes \in Nat /\ MaxFaults \in Nat

VARIABLES
  phase,    \* "down", "starting" (before recovery) or "up"
  count,    \* the row of user_strikes, 0 without one
  member,   \* Telegram: the status in the chat
  until,    \* Telegram: when a mute ends by itself
  handler,  \* per update worker: where issueStrike is, the end of its mute
  resets,   \* goroutines about to delete the row
  job,      \* the unmute task the task worker executes, if any
  step,     \* where it is
  strikes, pardons, crashes, faults,
  since,    \* history: strikes counted since one was last answered with a ban
  late,     \* history: a strike met a ban without its reset, or one was lost
  crossed   \* history: a mute met another, or the task of another

table == <<tasks, nextId>>
telegram == <<member, until>>
worker == <<job, step>>
bounds == <<strikes, pardons, crashes, faults>>
history == <<since, late, crossed>>
vars == <<tasks, nextId, now, phase, count, member, until, handler, resets, job, step,
          strikes, pardons, crashes, faults, since, late, crossed>>

Idle == [at |-> "idle", until |-> 0]

Init ==
  /\ StoreInit
  /\ phase = "starting"
  /\ count = 0 /\ resets = 0
  /\ member = "free" /\ until = 0
  /\ handler = [h \in Workers |-> Idle]
  /\ job = {} /\ step = "idle"
  /\ strikes = 0 /\ pardons = 0 /\ crashes = 0 /\ faults = 0
  /\ since = 0 /\ late = FALSE /\ crossed = FALSE

Works == UNCHANGED bounds
Fails ==
  /\ faults < MaxFaults
  /\ faults' = faults + 1
  /\ UNCHANGED <<strikes, pardons, crashes>>

At(h, s) == handler[h].at = s
Someone(s) == \E h \in Workers : At(h, s)
Outstanding == tasks[User].status \in {"pending", "running"}

----------------------------------------------------------------------------
(* What issueStrike goes on to do; a warning changes nothing here. *)
Answer(total) ==
  CASE total = 1 -> "idle"
    [] total = 2 -> "mute"
    [] OTHER -> "ban"

(* IncrementStrike: one statement counts and tells.  When it fails it has   *)
(* counted or not, and nothing follows.                                     *)
Strike(h) ==
  /\ phase # "down" /\ At(h, "idle")
  /\ strikes < MaxStrikes /\ now < Horizon
  /\ strikes' = strikes + 1
  /\ \/ /\ count' = count + 1
        /\ handler' = [handler EXCEPT ![h] = [at |-> Answer(count + 1), until |-> 0]]
        /\ since' = IF Answer(count + 1) = "ban" THEN 0 ELSE since + 1
        /\ UNCHANGED faults
     \/ /\ faults < MaxFaults /\ faults' = faults + 1
        /\ UNCHANGED handler
        /\ \/ count' = count + 1 /\ since' = since + 1
           \/ UNCHANGED <<count, since>>
  /\ late' = (late \/ Someone("ban") \/ resets > 0)
  /\ UNCHANGED <<table, now, phase, telegram, resets, worker, pardons, crashes, crossed>>

(* The second: until is set, Telegram is asked to mute, ... *)
Mute(h) ==
  /\ At(h, "mute")
  /\ handler' = [handler EXCEPT ![h] = [at |-> "enqueue", until |-> now + MuteTime]]
  /\ \/ /\ member' \in IF member = "banned" THEN {"banned", "muted"} ELSE {"muted"}
        /\ until' = now + MuteTime
        /\ Works
     \/ Fails /\ UNCHANGED telegram
  /\ crossed' = (crossed \/ Someone("enqueue"))
  /\ UNCHANGED <<table, now, phase, count, resets, worker, since, late>>

EnqueueNow_Bug(h) ==  \* due at once
  /\ At(h, "enqueue")
  /\ handler' = [handler EXCEPT ![h] = Idle]
  /\ EnqueueTask(User, [ref |-> nextId, at |-> handler[h].until], now)
  /\ crossed' = (crossed \/ job # {})
  /\ Works
  /\ UNCHANGED <<now, phase, count, telegram, resets, worker, since, late>>

(* ... and the unmute is put in the table: enqueueUnmuteUser. *)
Enqueue(h) ==
  /\ At(h, "enqueue")
  /\ handler' = [handler EXCEPT ![h] = Idle]
  /\ \/ /\ EnqueueTask(User, [ref |-> nextId, at |-> handler[h].until], handler[h].until)
        /\ crossed' = (crossed \/ job # {})
        /\ Works
     \/ Fails /\ UNCHANGED <<table, crossed>>
  /\ UNCHANGED <<now, phase, count, telegram, resets, worker, since, late>>

Banned == member' = "banned" /\ UNCHANGED until

BanKept_Bug(h) ==  \* no goroutine for the reset
  /\ At(h, "ban")
  /\ handler' = [handler EXCEPT ![h] = Idle]
  /\ \/ Banned /\ Works
     \/ Fails /\ UNCHANGED telegram
  /\ UNCHANGED <<table, now, phase, count, resets, worker, since, late, crossed>>

(* The third and every later one: a ban, and a goroutine to reset. *)
Ban(h) ==
  /\ At(h, "ban")
  /\ handler' = [handler EXCEPT ![h] = Idle]
  /\ \/ Banned /\ Works
     \/ Fails /\ UNCHANGED telegram
  /\ resets' = resets + 1
  /\ UNCHANGED <<table, now, phase, count, worker, since, late, crossed>>

(* DeleteUserStrike, with five seconds of its own. *)
Reset ==
  /\ resets > 0
  /\ resets' = resets - 1
  /\ \/ count' = 0 /\ Works /\ UNCHANGED late
     \/ Fails /\ late' = TRUE /\ UNCHANGED count
  /\ UNCHANGED <<table, now, phase, telegram, handler, worker, since, crossed>>

(* "Ban User" under a report: a ban that leaves the strikes alone. *)
ReportBan ==
  /\ phase # "down" /\ now < Horizon
  /\ member # "banned"
  /\ Banned /\ Works
  /\ UNCHANGED <<table, now, phase, count, handler, resets, worker, since, late, crossed>>

(* An administrator lifts the ban, at Telegram. *)
Pardon ==
  /\ member = "banned" /\ pardons < MaxPardons
  /\ pardons' = pardons + 1
  /\ member' = "free"
  /\ UNCHANGED <<table, now, phase, count, until, handler, resets, worker,
                 strikes, crashes, faults, since, late, crossed>>

(* Telegram ends a mute at the time it was given. *)
MuteExpires ==
  /\ member = "muted" /\ until <= now
  /\ member' = "free"
  /\ Works
  /\ UNCHANGED <<table, now, phase, count, until, handler, resets, worker, history>>

----------------------------------------------------------------------------
(* The task worker, with this one row to look after. *)
Recover ==
  /\ phase = "starting"
  /\ phase' = "up"
  /\ \/ RecoverRunningTasks /\ Works
     \/ UNCHANGED table /\ Fails
  /\ UNCHANGED <<now, count, telegram, handler, resets, worker, history>>

ClaimUnmute ==
  /\ phase = "up" /\ job = {} /\ Due # {}
  /\ ClaimDueTasks
  /\ job' = Claimed /\ step' = "lift"
  /\ Works
  /\ UNCHANGED <<now, phase, count, telegram, handler, resets, history>>

(* executeUnmuteUserTask: every right is given back.  It looks at nothing,  *)
(* and an error that is no use retrying completes the task.                 *)
Lift ==
  /\ step = "lift"
  /\ \/ /\ member' \in IF member = "banned" THEN {"banned", "free"} ELSE {"free"}
        /\ step' = "complete"
        /\ Works
     \/ Fails /\ step' \in {"complete", "fail"} /\ UNCHANGED member
  /\ UNCHANGED <<table, now, phase, count, until, handler, resets, job, history>>

(* processDueTasks stores the outcome. *)
Settle ==
  /\ \E c \in job :
       \/ step = "complete" /\ CompleteTask(c.id) /\ Works
       \/ step = "fail" /\ FailTask(c.id, c.attempts) /\ Works
       \/ step \in {"complete", "fail"} /\ UNCHANGED table /\ Fails
  /\ job' = {} /\ step' = "idle"
  /\ UNCHANGED <<now, phase, count, telegram, handler, resets, history>>

Cleanup ==
  /\ phase # "down" /\ Stale(User)
  /\ CleanupFinishedTasks
  /\ Works
  /\ UNCHANGED <<now, phase, count, telegram, handler, resets, worker, history>>

(* The process dies, with its handlers and goroutines. *)
Crash ==
  /\ phase # "down" /\ crashes < MaxCrashes
  /\ crashes' = crashes + 1
  /\ phase' = "down"
  /\ handler' = [h \in Workers |-> Idle]
  /\ resets' = 0 /\ job' = {} /\ step' = "idle"
  /\ late' = (late \/ Someone("ban") \/ resets > 0)
  /\ UNCHANGED <<table, now, count, telegram, strikes, pardons, faults,
                 since, crossed>>

Restart ==
  /\ phase = "down"
  /\ phase' = "starting"
  /\ Works
  /\ UNCHANGED <<table, now, count, telegram, handler, resets, worker, history>>

(* The clock goes on to the horizon, and beyond it while something waits. *)
Tick ==
  /\ \/ now < Horizon
     \/ tasks[User].status = "pending" /\ tasks[User].runAt > now
     \/ member = "muted" /\ until > now
  /\ now' = now + 1
  /\ Works
  /\ UNCHANGED <<table, phase, count, telegram, handler, resets, worker, history>>

HandlerStep(h) == Mute(h) \/ Enqueue(h) \/ Ban(h)

Next ==
  \/ \E h \in Workers : Strike(h) \/ HandlerStep(h)
  \/ Reset \/ ReportBan \/ Pardon \/ MuteExpires
  \/ Recover \/ ClaimUnmute \/ Lift \/ Settle \/ Cleanup
  \/ Crash \/ Restart \/ Tick

Spec == Init /\ [][Next]_vars

(* Goroutines, the task worker, the supervisor and the clock go on.  That   *)
(* Telegram ends mutes by itself is not asked for.                          *)
Fairness ==
  /\ \A h \in Workers : WF_vars(HandlerStep(h))
  /\ WF_vars(Recover) /\ WF_vars(ClaimUnmute) /\ WF_vars(Lift) /\ WF_vars(Settle)
  /\ WF_vars(Restart) /\ WF_vars(Tick)

FairSpec == Spec /\ Fairness

----------------------------------------------------------------------------
(* The count is the strikes since the last one that was answered by a ban,  *)
(* and that is the third, whatever handlers and resets overlap, unless a    *)
(* strike came between a ban and its reset, or a reset was lost.  A failing *)
(* call may let one strike count and leave it unanswered.                   *)
CountIsHonest ==
  late \/ /\ IF Someone("ban") \/ resets > 0 THEN since = 0 ELSE count = since
          /\ since <= 2 + faults

(* A mute has its end in the table, at the time Telegram was given, whatever *)
(* mutes, bans and pardons went before.                                      *)
MuteIsBacked ==
  (member = "muted" /\ now < until /\ ~Someone("enqueue")
   /\ faults = 0 /\ crashes = 0 /\ ~crossed) =>
    Outstanding /\ tasks[User].payload.at = until

(* The task of an older mute does not cut a newer one short: "You have been *)
(* muted for 2 hours".                                                      *)
NoEarlyUnmute ==
  [][member = "muted" /\ member' = "free" =>
       \/ until <= now
       \/ crossed \/ Someone("enqueue")
       \/ faults > 0 \/ crashes > 0]_vars

(* The unmute task ends a mute, even if Telegram did not, across restarts   *)
(* and while no call fails: README, "Mute expiry / unmute".  (A process     *)
(* that dies between the two calls of a newer mute leaves no task for it.)  *)
MuteEnds ==
  (member = "muted" /\ Outstanding) ~>
    (member # "muted" \/ Someone("enqueue") \/ crossed \/ faults > 0)
=============================================================================
