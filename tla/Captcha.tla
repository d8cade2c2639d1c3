------------------------------ MODULE Captcha ------------------------------
(***************************************************************************)
(* The verification of newcomers (internal/bot/captcha.go), the expiry     *)
(* task that bans the ones who do not answer (internal/bot/tasks.go), the  *)
(* captchas the process keeps in memory (CaptchaStore, internal/cache) and *)
(* the task table, in one process and one chat.                            *)
(*                                                                         *)
(* A key of the table stands for the user it names, captcha:<chat>:<user>. *)
(* A join, a press of the button and an expiry run in goroutines of their  *)
(* own, so each is a sequence of steps, one per access to the memory, the  *)
(* table or Telegram.  The notices' and prompts' own deletion tasks are    *)
(* kept as the set toDelete; TaskWorker says what becomes of a task.       *)
(***************************************************************************)
EXTENDS TaskStore

CONSTANTS
  TTL,         \* BOT_CAPTCHA_TTL, in clock ticks
  Horizon,     \* bound on the clock for joins and presses
  MaxJoins,    \* bound on joins
  MaxPresses,  \* bound on presses of a button
  MaxCrashes,  \* bound on crashes
  MaxFaults    \* bound on failing calls, to Telegram or the database

ASSUME CaptchaAssumption ==
  /\ TTL \in Nat \ {0} /\ Horizon \in Nat
  /\ MaxJoins \in Nat /\ MaxPresses \in Nat
  /\ MaxCrashes \in Nat /\ MaxFaults \in Nat

VARIABLES
  phase,     \* "down", "starting" (before recovery) or "up"
  mem,       \* CaptchaStore: per user the prompt waited for, 0 if none
  member,    \* Telegram: per user, the status in the chat
  prompts,   \* Telegram: prompts whose button can be pressed
  nextMsg,   \* Telegram: the next message id
  issue,     \* per user, the join handler
  click,     \* per user, the button handler
  batch,     \* claims the worker has yet to execute
  job,       \* the claim it executes, if any
  step,      \* where executeCaptchaExpireTask is
  toDelete,  \* messages whose deletion is scheduled
  joins, presses, crashes, faults,
  withdrawn, \* history: prompts whose expiry task was cancelled
  contested, \* history: prompts enqueued over a row the worker holds
  welcomed,  \* history: users told that the verification was successful
  overtaken  \* history: users prompted anew when an expiry was past its check

telegram == <<member, prompts, nextMsg>>
worker == <<batch, job, step>>
handlers == <<issue, click>>
bounds == <<joins, presses, crashes, faults>>
history == <<withdrawn, contested, welcomed, overtaken>>
vars == <<tasks, nextId, now, phase, mem, member, prompts, nextMsg, issue, click,
          batch, job, step, toDelete, joins, presses, crashes, faults,
          withdrawn, contested, welcomed, overtaken>>

IdleIssue == [at |-> "idle", msg |-> 0, expires |-> 0]
IdleClick == [at |-> "idle", msg |-> 0, pending |-> FALSE]

Init ==
  /\ StoreInit
  /\ phase = "starting"
  /\ mem = [k \in Keys |-> 0]
  /\ member = [k \in Keys |-> "out"]
  /\ prompts = {} /\ nextMsg = 1 /\ toDelete = {}
  /\ issue = [k \in Keys |-> IdleIssue]
  /\ click = [k \in Keys |-> IdleClick]
  /\ batch = {} /\ job = {} /\ step = "idle"
  /\ joins = 0 /\ presses = 0 /\ crashes = 0 /\ faults = 0
  /\ withdrawn = {} /\ contested = {} /\ welcomed = {}
  /\ overtaken = {}

(* Each call either takes effect, or fails and leaves everything to the      *)
(* caller's error path.                                                      *)
Works == UNCHANGED bounds
Fails ==
  /\ faults < MaxFaults
  /\ faults' = faults + 1
  /\ UNCHANGED <<joins, presses, crashes>>

table == <<tasks, nextId>>

----------------------------------------------------------------------------
(* A user joins, or leaves. *)
Join(k) ==
  /\ phase # "down" /\ joins < MaxJoins /\ now < Horizon
  /\ member[k] = "out" /\ issue[k] = IdleIssue
  /\ member' = [member EXCEPT ![k] = "free"]
  /\ issue' = [issue EXCEPT ![k].at = "restrict"]
  /\ joins' = joins + 1
  /\ welcomed' = welcomed \ {k}
  /\ UNCHANGED <<table, now, phase, mem, prompts, nextMsg, click, worker, toDelete,
                 presses, crashes, faults, withdrawn, contested, overtaken>>

Leave(k) ==
  /\ member[k] \in {"free", "restricted"}
  /\ member' = [member EXCEPT ![k] = "out"]
  /\ UNCHANGED <<table, now, phase, mem, prompts, nextMsg, handlers, worker, toDelete,
                 bounds, history>>

(* issueCaptcha: restrict (a failure is logged), send the prompt (a failure *)
(* ends it), remember it, put its expiry in the table (a failure is logged). *)
IssueRestrict(k) ==
  /\ issue[k].at = "restrict"
  /\ issue' = [issue EXCEPT ![k].at = "send"]
  /\ \/ /\ member' = [member EXCEPT ![k] = IF @ = "free" THEN "restricted" ELSE @]
        /\ Works
     \/ Fails /\ UNCHANGED member
  /\ UNCHANGED <<table, now, phase, mem, prompts, nextMsg, click, worker, toDelete, history>>

IssueSend(k) ==
  /\ issue[k].at = "send"
  /\ \/ /\ issue' = [issue EXCEPT ![k].at = "set", ![k].msg = nextMsg]
        /\ prompts' = prompts \cup {[user |-> k, msg |-> nextMsg]}
        /\ nextMsg' = nextMsg + 1
        /\ Works
     \/ /\ issue' = [issue EXCEPT ![k] = IdleIssue]
        /\ Fails
        /\ UNCHANGED <<prompts, nextMsg>>
  /\ UNCHANGED <<table, now, phase, mem, member, click, worker, toDelete, history>>

(* An expiry of an older prompt is under way, past its look at mem. *)
PastCheck(k) == step # "check" /\ \E c \in job : c.key = k

IssueSet(k) ==
  /\ issue[k].at = "set"
  /\ issue' = [issue EXCEPT ![k].at = "enqueue", ![k].expires = now + TTL]
  /\ mem' = [mem EXCEPT ![k] = issue[k].msg]
  /\ overtaken' = IF PastCheck(k) THEN overtaken \cup {k} ELSE overtaken
  /\ Works
  /\ UNCHANGED <<table, now, phase, telegram, click, worker, toDelete,
                 withdrawn, contested, welcomed>>

HeldRow(k) == Present(k) /\ \E c \in batch \cup job : c.id = tasks[k].id

IssueEnqueue(k) ==
  /\ issue[k].at = "enqueue"
  /\ issue' = [issue EXCEPT ![k] = IdleIssue]
  /\ \/ /\ EnqueueTask(k, [ref |-> issue[k].msg, at |-> issue[k].expires], issue[k].expires)
        /\ contested' = IF HeldRow(k) THEN contested \cup {issue[k].msg} ELSE contested
        /\ Works
     \/ Fails /\ UNCHANGED <<table, contested>>
  /\ UNCHANGED <<now, phase, mem, telegram, click, worker, toDelete,
                 withdrawn, welcomed, overtaken>>

----------------------------------------------------------------------------
(* The user presses the button of a prompt of theirs, the newest or not. *)
Press(k) ==
  /\ phase # "down" /\ presses < MaxPresses
  /\ member[k] \in {"free", "restricted"} /\ click[k] = IdleClick
  /\ \E p \in prompts :
       /\ p.user = k
       /\ click' = [click EXCEPT ![k].at = "get", ![k].msg = p.msg]
  /\ presses' = presses + 1
  /\ UNCHANGED <<table, now, phase, mem, telegram, issue, worker, toDelete,
                 joins, crashes, faults, history>>

(* handleCaptchaCallback: read the memory, cancel the task, and give up if  *)
(* neither had anything; else forget the captcha, restore the user's        *)
(* rights, say so, and have the prompt deleted.                             *)
ClickGet(k) ==
  /\ click[k].at = "get"
  /\ click' = [click EXCEPT ![k].at = "cancel", ![k].pending = (mem[k] # 0)]
  /\ Works
  /\ UNCHANGED <<table, now, phase, mem, telegram, issue, worker, toDelete, history>>

ClickCancel(k) ==
  /\ click[k].at = "cancel"
  /\ \/ /\ CancelTaskByDedupKey(k)
        /\ withdrawn' = IF Cancellable(k) THEN withdrawn \cup {tasks[k].payload.ref}
                        ELSE withdrawn
        /\ click' = [click EXCEPT ![k] = IF click[k].pending \/ Cancellable(k)
                                         THEN [click[k] EXCEPT !.at = "delete"]
                                         ELSE IdleClick]
        /\ Works
     \/ /\ Fails
        /\ click' = [click EXCEPT ![k] = IF click[k].pending
                                         THEN [click[k] EXCEPT !.at = "delete"]
                                         ELSE IdleClick]
        /\ UNCHANGED <<table, withdrawn>>
  /\ UNCHANGED <<now, phase, mem, telegram, issue, worker, toDelete,
                 contested, welcomed, overtaken>>

ClickDelete_Bug(k) ==  \* the captcha stays in memory
  /\ click[k].at = "delete"
  /\ click' = [click EXCEPT ![k].at = "restore"]
  /\ Works
  /\ UNCHANGED <<table, now, phase, mem, telegram, issue, worker, toDelete, history>>

ClickUnrestored_Bug(k) ==  \* the user's rights are not restored
  /\ click[k].at = "delete"
  /\ click' = [click EXCEPT ![k].at = "edit"]
  /\ mem' = [mem EXCEPT ![k] = 0]
  /\ Works
  /\ UNCHANGED <<table, now, phase, telegram, issue, worker, toDelete, history>>

ClickDelete(k) ==
  /\ click[k].at = "delete"
  /\ click' = [click EXCEPT ![k].at = "restore"]
  /\ mem' = [mem EXCEPT ![k] = 0]
  /\ Works
  /\ UNCHANGED <<table, now, phase, telegram, issue, worker, toDelete, history>>

ClickRestore(k) ==
  /\ click[k].at = "restore"
  /\ click' = [click EXCEPT ![k].at = "edit"]
  /\ \/ /\ member' = [member EXCEPT ![k] = IF @ = "restricted" THEN "free" ELSE @]
        /\ Works
     \/ Fails /\ UNCHANGED member
  /\ UNCHANGED <<table, now, phase, mem, prompts, nextMsg, issue, worker, toDelete, history>>

(* The edit turns the prompt into the welcome and takes its button away. *)
ClickEdit(k) ==
  /\ click[k].at = "edit"
  /\ click' = [click EXCEPT ![k] = IdleClick]
  /\ \/ /\ prompts' = prompts \ {[user |-> k, msg |-> click[k].msg]}
        /\ welcomed' = welcomed \cup {k}
        /\ toDelete' = toDelete \cup {click[k].msg}
        /\ Works
     \/ /\ Fails  \* the edit: the deletion is scheduled all the same
        /\ toDelete' = toDelete \cup {click[k].msg}
        /\ UNCHANGED <<prompts, welcomed>>
     \/ /\ Fails  \* scheduling the deletion
        /\ prompts' = prompts \ {[user |-> k, msg |-> click[k].msg]}
        /\ welcomed' = welcomed \cup {k}
        /\ UNCHANGED toDelete
  /\ UNCHANGED <<table, now, phase, mem, member, nextMsg, issue, worker,
                 withdrawn, contested, overtaken>>

----------------------------------------------------------------------------
(* The task worker: recovery, then batches, one claim at a time. *)
Recover ==
  /\ phase = "starting"
  /\ phase' = "up"
  /\ \/ RecoverRunningTasks /\ Works
     \/ UNCHANGED table /\ Fails
  /\ UNCHANGED <<now, mem, telegram, handlers, worker, toDelete, history>>

ClaimBatch ==
  /\ phase = "up" /\ batch = {} /\ job = {} /\ Due # {}
  /\ ClaimDueTasks
  /\ batch' = Claimed
  /\ Works
  /\ UNCHANGED <<now, phase, mem, telegram, handlers, job, step, toDelete, history>>

Execute ==
  /\ phase = "up" /\ job = {}
  /\ \E c \in batch :
       /\ batch' = batch \ {c}
       /\ job' = {c}
  /\ step' = "check"
  /\ Works
  /\ UNCHANGED <<table, now, phase, mem, telegram, handlers, toDelete, history>>

At(c, s) == c \in job /\ step = s

ExpireCheck_Bug(c) ==  \* does not look for a newer prompt
  /\ At(c, "check")
  /\ step' = "load"
  /\ Works
  /\ UNCHANGED <<table, now, phase, mem, telegram, handlers, batch, job, toDelete, history>>

(* executeCaptchaExpireTask skips a captcha that has been re-issued, ... *)
ExpireCheck(c) ==
  /\ At(c, "check")
  /\ step' = IF mem[c.key] \notin {0, c.payload.ref} THEN "complete" ELSE "load"
  /\ Works
  /\ UNCHANGED <<table, now, phase, mem, telegram, handlers, batch, job, toDelete, history>>

(* ... forgets it (DeleteIfMessageID, which loads and then deletes), ... *)
ExpireLoad(c) ==
  /\ At(c, "load")
  /\ step' = IF mem[c.key] = c.payload.ref THEN "drop" ELSE "unprompt"
  /\ Works
  /\ UNCHANGED <<table, now, phase, mem, telegram, handlers, batch, job, toDelete, history>>

ExpireDrop(c) ==
  /\ At(c, "drop")
  /\ step' = "unprompt"
  /\ mem' = [mem EXCEPT ![c.key] = 0]
  /\ Works
  /\ UNCHANGED <<table, now, phase, telegram, handlers, batch, job, toDelete, history>>

(* ... deletes the prompt (that it is gone is no error), ... *)
ExpireUnprompt_Bug(c) ==  \* the prompt stays
  /\ At(c, "unprompt")
  /\ step' = "ban"
  /\ Works
  /\ UNCHANGED <<table, now, phase, mem, telegram, handlers, batch, job, toDelete, history>>

ExpireUnprompt(c) ==
  /\ At(c, "unprompt")
  /\ \/ /\ prompts' = prompts \ {[user |-> c.key, msg |-> c.payload.ref]}
        /\ step' = "ban"
        /\ Works
     \/ Fails /\ step' \in {"ban", "fail"} /\ UNCHANGED prompts
  /\ UNCHANGED <<table, now, phase, mem, member, nextMsg, handlers, batch, job,
                 toDelete, history>>

(* ... bans the user (an error that is no use retrying completes the task), ... *)
ExpireBan(c) ==
  /\ At(c, "ban")
  /\ \/ /\ member' = [member EXCEPT ![c.key] = "banned"]
        /\ step' = "notice"
        /\ Works
     \/ /\ Fails
        /\ step' \in {"complete", "fail"}
        /\ UNCHANGED member
  /\ UNCHANGED <<table, now, phase, mem, prompts, nextMsg, handlers, batch, job,
                 toDelete, withdrawn, contested, welcomed, overtaken>>

(* ... and posts a notice, to be deleted later. *)
ExpireNotice(c) ==
  /\ At(c, "notice")
  /\ \/ /\ toDelete' = toDelete \cup {nextMsg}
        /\ nextMsg' = nextMsg + 1
        /\ step' = "complete"
        /\ Works
     \/ /\ Fails  \* sending it, for good or for now
        /\ step' \in {"complete", "fail"}
        /\ UNCHANGED <<toDelete, nextMsg>>
     \/ /\ Fails  \* scheduling its deletion
        /\ nextMsg' = nextMsg + 1
        /\ step' = "complete"
        /\ UNCHANGED toDelete
  /\ UNCHANGED <<table, now, phase, mem, member, prompts, handlers, batch, job, history>>

(* processDueTasks stores the outcome. *)
Settle(c) ==
  /\ c \in job /\ step \in {"complete", "fail"}
  /\ \/ step = "complete" /\ CompleteTask(c.id) /\ Works
     \/ step = "fail" /\ FailTask(c.id, c.attempts) /\ Works
     \/ UNCHANGED table /\ Fails
  /\ job' = {} /\ step' = "idle"
  /\ UNCHANGED <<now, phase, mem, telegram, handlers, batch, toDelete, history>>

(* scheduledTaskCleanupWorker. *)
Cleanup ==
  /\ phase # "down" /\ \E k \in Keys : Stale(k)
  /\ CleanupFinishedTasks
  /\ Works
  /\ UNCHANGED <<now, phase, mem, telegram, handlers, worker, toDelete, history>>

----------------------------------------------------------------------------
(* The process dies: its memory and its goroutines are gone. *)
Crash ==
  /\ phase # "down" /\ crashes < MaxCrashes
  /\ crashes' = crashes + 1
  /\ phase' = "down"
  /\ mem' = [k \in Keys |-> 0]
  /\ issue' = [k \in Keys |-> IdleIssue]
  /\ click' = [k \in Keys |-> IdleClick]
  /\ batch' = {} /\ job' = {} /\ step' = "idle"
  /\ UNCHANGED <<table, now, telegram, toDelete, joins, presses, faults, history>>

Restart ==
  /\ phase = "down"
  /\ phase' = "starting"
  /\ Works
  /\ UNCHANGED <<table, now, mem, telegram, handlers, worker, toDelete, history>>

(* The clock goes on to the horizon, and beyond it while a row has yet to  *)
(* be due or, with nothing else under way, to be stale.                     *)
Tick ==
  /\ \/ now < Horizon
     \/ \E k \in Keys : tasks[k].status = "pending" /\ tasks[k].runAt > now
     \/ /\ job = {} /\ \A k \in Keys : issue[k].at = "idle" /\ click[k].at = "idle"
        /\ \E k \in Keys : tasks[k].status \in {"done", "cancelled"} /\ ~Stale(k)
  /\ now' = now + 1
  /\ Works
  /\ UNCHANGED <<table, phase, mem, telegram, handlers, worker, toDelete, history>>

IssueStep(k) == IssueRestrict(k) \/ IssueSend(k) \/ IssueSet(k) \/ IssueEnqueue(k)

ClickStep(k) ==
  ClickGet(k) \/ ClickCancel(k) \/ ClickDelete(k) \/ ClickRestore(k) \/ ClickEdit(k)

ExpireStep ==
  \E c \in job :
    \/ ExpireCheck(c) \/ ExpireLoad(c) \/ ExpireDrop(c) \/ ExpireUnprompt(c)
    \/ ExpireBan(c) \/ ExpireNotice(c) \/ Settle(c)

Next ==
  \/ \E k \in Keys : Join(k) \/ Leave(k) \/ Press(k) \/ IssueStep(k) \/ ClickStep(k)
  \/ Recover \/ ClaimBatch \/ Execute \/ ExpireStep \/ Cleanup
  \/ Crash \/ Restart \/ Tick

Spec == Init /\ [][Next]_vars

(* Goroutines, the worker, the supervisor and the clock go on; nothing      *)
(* makes a user join, leave or press a button.                              *)
Fairness ==
  /\ \A k \in Keys : WF_vars(IssueStep(k)) /\ WF_vars(ClickStep(k))
  /\ WF_vars(Recover) /\ WF_vars(ClaimBatch) /\ WF_vars(Execute) /\ WF_vars(ExpireStep)
  /\ WF_vars(Restart) /\ WF_vars(Tick)

FairSpec == Spec /\ Fairness

----------------------------------------------------------------------------
NoHandler(k) == issue[k] = IdleIssue /\ click[k] = IdleClick

Outstanding(k) == tasks[k].status \in {"pending", "running"}

Undisturbed == faults = 0 /\ crashes = 0

(* A prompt whose expiry task a press of the button cancelled does not ban   *)
(* its user afterwards: not through a claim made before, a retry or a        *)
(* recovery.  (A prompt enqueued over a row the worker holds may: the        *)
(* worker's FailTask makes the row pending again whatever became of it.)     *)
CancelledNotBanned ==
  [][\A k \in Keys : member[k] # "banned" /\ member'[k] = "banned" =>
       \A c \in job : c.payload.ref \in withdrawn => c.payload.ref \in contested]_vars

(* A captcha remembered in memory has its expiry task in the table, as      *)
(* long as no call failed: what the button and the worker drop from one     *)
(* they drop from the other.                                                *)
MemoryBacked ==
  \A k \in Keys :
    (faults = 0 /\ NoHandler(k) /\ mem[k] # 0 /\ mem[k] \notin contested) =>
      Outstanding(k) /\ tasks[k].payload.ref = mem[k]

(* Nobody is left restricted with nothing to end it, as long as no call     *)
(* failed and the process did not die between restricting and storing.      *)
NoLimbo ==
  \A k \in Keys :
    (Undisturbed /\ NoHandler(k) /\ member[k] = "restricted") =>
      Outstanding(k) \/ mem[k] \in contested

(* The prompt of a user who joined once is in the chat while its captcha is *)
(* open, and no longer, except while its deletion is under way.  (A prompt  *)
(* that a newer one overtakes is never deleted.)                            *)
PromptsTidied ==
  (Undisturbed /\ joins <= 1) =>
    \A p \in prompts : \/ p.msg \in toDelete \/ ~NoHandler(p.user)
                       \/ Outstanding(p.user)

(* An expiry task on record gets its user out of restriction, verified,     *)
(* banned or gone, across restarts, when calls do not fail: README, "This   *)
(* lets the bot resume pending moderation actions after a restart".  (A     *)
(* process that dies between cancelling the task and restoring the user's   *)
(* rights leaves nothing behind that would restore them, and one that dies  *)
(* while it issues another prompt nothing that would expire it.)            *)
ExpiryDecides ==
  \A k \in Keys :
    (Outstanding(k) /\ member[k] = "restricted") ~>
      \/ member[k] # "restricted"
      \/ tasks[k].payload.ref \in contested \cup withdrawn
      \/ issue[k] # IdleIssue
      \/ faults > 0

(* "Verification successful. Welcome!" is not followed, nor preceded, by a ban. *)
VerifiedIsFinal == \A k \in welcomed : member[k] # "banned"

(* Nobody is banned while a prompt of theirs is waited for: README,         *)
(* "re-issued CAPTCHA prompts replace stale pending expiry tasks".  Other   *)
(* than by the expiry of an older prompt that was past its check when the   *)
(* newer one was remembered.                                                *)
NoHastyBan ==
  [][\A k \in Keys : member[k] # "banned" /\ member'[k] = "banned" =>
       mem[k] = 0 \/ k \in overtaken]_vars
=============================================================================
