------------------------------ MODULE Report ------------------------------
(***************************************************************************)
(* Reports of messages and what rests on the roles of the members of a     *)
(* chat: the command /report with its cooldown (handleReportCommand in     *)
(* internal/bot/report.go, CooldownLimiter in internal/cache/cache.go),    *)
(* the buttons under a report (handleReportCallback), and isGroupModerator *)
(* with its cache (internal/bot/roles.go, AdminCache in cache.go), which   *)
(* also exempts administrators' messages from the security checks          *)
(* (handleMessage in internal/bot/dispatcher.go).  One chat, one process.  *)
(*                                                                         *)
(* A worker reads the clock and waits for the limiter's lock; it asks      *)
(* Telegram for a role and stores the answer when it is there.  Both waits *)
(* are bounded.  What a ban or a strike does to a user is in Strikes.      *)
(*                                                                         *)
(* times, last, missed and rash are history: when there was last a reason  *)
(* to allow a user or to refuse one (a look-up that failed is one); the    *)
(* last report let through; the reports of which a deletion or a strike    *)
(* failed; a decision was made without a recent reason.  So are the marks  *)
(* a handler carries: early and whole.                                     *)
(***************************************************************************)
EXTENDS Integers

CONSTANTS
  Users,
  Workers,       \* update workers
  Reports,       \* reports that reach the log channel
  TTL,           \* the five minutes of AdminCache, in clock ticks
  Cooldown,      \* BOT_REPORT_COOLDOWN, in clock ticks
  MaxWait,       \* bound on the wait for the lock
  MaxLag,        \* bound on the wait for Telegram's answer
  Horizon,       \* bound on the clock
  MaxRoles,      \* bound on changes of roles
  MaxFaults,     \* bound on failing calls
  MaxCrashes     \* bound on crashes

ASSUME ReportAssumption ==
  /\ TTL \in Nat /\ Cooldown \in Nat /\ MaxWait \in Nat /\ MaxLag \in Nat /\ Horizon \in Nat
  /\ MaxRoles \in Nat /\ MaxFaults \in Nat /\ MaxCrashes \in Nat

VARIABLES
  now,
  admins,       \* Telegram: the owner and the administrators
  cached,       \* AdminCache, per user the empty set or a singleton
  nextAllowed,  \* CooldownLimiter.entries, likewise
  sweeping,     \* when Cleanup read the clock, while it waits for the lock
  handler,      \* per worker: what it is doing
  report,       \* per report: its message in the log channel, what was done
  roles, faults, crashes,
  times, last, missed, rash

people == <<admins, roles, times>>
roleCache == <<cached, rash>>
limits == <<nextAllowed, sweeping, last>>
posts == <<report, missed>>
vars == <<now, people, roleCache, limits, handler, posts, faults, crashes>>

Answer == [allowed : BOOLEAN, until : Int]

(* What a role is asked for: to exempt a message, or to press a button. *)
Message == [kind |-> "message"]
Press(r, action) == [kind |-> action, report |-> r]
Wants == {Message} \cup {Press(r, action) : r \in Reports, action \in {"ban", "strike"}}

Idle == [at |-> "idle"]
Reporting(u, t) == [at |-> "allow", user |-> u, time |-> t]
Forwarding(distance) == [at |-> "forward", early |-> distance < Cooldown /\ distance <= Cooldown - MaxWait]
Posting(r) == [at |-> "post", report |-> r]
Asking(step, u, want) == [at |-> step, user |-> u, want |-> want]
Knowing(u, want, ok) == [at |-> "set", user |-> u, want |-> want, allowed |-> ok, time |-> now]
Loading(want) == [at |-> "load", want |-> want]
Acting(step, r, whole) == [at |-> step, report |-> r, whole |-> whole]

(* The buttons are there while the message says "report". *)
NoPost == [says |-> "nothing", done |-> {}]

LongAgo == -(TTL + MaxLag + Cooldown + 1)

Init ==
  /\ now = 0
  /\ admins \in SUBSET Users /\ roles = 0
  /\ cached = [u \in Users |-> {}]
  /\ nextAllowed = [u \in Users |-> {}] /\ sweeping = {}
  /\ handler = [h \in Workers |-> Idle]
  /\ report = [r \in Reports |-> NoPost]
  /\ faults = 0 /\ crashes = 0
  /\ times = [u \in Users |-> [allow |-> LongAgo, refuse |-> LongAgo]]
  /\ last = [u \in Users |-> LongAgo]
  /\ missed = {} /\ rash = FALSE

----------------------------------------------------------------------------
At(h, s) == handler[h].at = s
Go(h, s) == handler' = [handler EXCEPT ![h] = s]
Works == UNCHANGED faults
Fails == faults < MaxFaults /\ faults' = faults + 1
Quiet == UNCHANGED <<now, crashes>>

(* Telegram: a member becomes an administrator or ceases to be one. *)
ChangeRole(u) ==
  /\ roles < MaxRoles
  /\ roles' = roles + 1
  /\ IF u \in admins
     THEN admins' = admins \ {u} /\ times' = [times EXCEPT ![u].allow = now]
     ELSE admins' = admins \cup {u} /\ times' = [times EXCEPT ![u].refuse = now]
  /\ Works /\ Quiet
  /\ UNCHANGED <<roleCache, limits, handler, posts>>

----------------------------------------------------------------------------
(* /report, as a reply, in a group with a log channel. *)
ReceiveReport(h, u) ==
  /\ handler[h] = Idle
  /\ Go(h, Reporting(u, now))
  /\ Works /\ Quiet
  /\ UNCHANGED <<people, roleCache, limits, posts>>

(* CooldownLimiter.Allow, with the time that was read before. *)
Allow(h) ==
  /\ At(h, "allow")
  /\ LET u == handler[h].user
         t == handler[h].time
     IN  IF \E next \in nextAllowed[u] : t < next
         THEN Go(h, Idle) /\ UNCHANGED <<nextAllowed, last>>
         ELSE /\ nextAllowed' = [nextAllowed EXCEPT ![u] = {t + Cooldown}]
              /\ last' = [last EXCEPT ![u] = t]
              /\ Go(h, Forwarding(t - last[u]))
  /\ Works /\ Quiet
  /\ UNCHANGED <<people, roleCache, sweeping, posts>>

(* The message is forwarded; when that fails the user is told so. *)
Forward(h) ==
  /\ At(h, "forward")
  /\ \/ \E r \in Reports :
          /\ report[r].says = "nothing"
          /\ report' = [report EXCEPT ![r].says = "forwarded"]
          /\ Go(h, Posting(r))
          /\ Works
     \/ Go(h, Idle) /\ Fails /\ UNCHANGED report
  /\ Quiet
  /\ UNCHANGED <<people, roleCache, limits, missed>>

(* The buttons follow; when that fails nobody is told. *)
Post(h) ==
  /\ At(h, "post")
  /\ Go(h, Idle)
  /\ \/ report' = [report EXCEPT ![handler[h].report].says = "report"] /\ Works
     \/ Fails /\ UNCHANGED report
  /\ Quiet
  /\ UNCHANGED <<people, roleCache, limits, missed>>

(* memoryCleanupWorker: Cleanup reads the clock, ... (With nothing to forget  *)
(* it does nothing.)                                                         *)
BeginCleanup ==
  /\ sweeping = {} /\ \E u \in Users : nextAllowed[u] # {}
  /\ sweeping' = {now}
  /\ Works /\ Quiet
  /\ UNCHANGED <<people, roleCache, nextAllowed, last, handler, posts>>

(* Mutant: the comparison is turned round, and the running ones are forgotten. *)
Cleanup_Bug ==
  /\ sweeping # {}
  /\ sweeping' = {}
  /\ nextAllowed' =
       [u \in Users |-> {next \in nextAllowed[u] : \A t \in sweeping : t > next}]
  /\ Works /\ Quiet
  /\ UNCHANGED <<people, roleCache, last, handler, posts>>

(* ... gets the lock, and forgets what is over. *)
Cleanup ==
  /\ sweeping # {}
  /\ sweeping' = {}
  /\ nextAllowed' =
       [u \in Users |-> {next \in nextAllowed[u] : \A t \in sweeping : t <= next}]
  /\ Works /\ Quiet
  /\ UNCHANGED <<people, roleCache, last, handler, posts>>

----------------------------------------------------------------------------
(* A decision is founded if there was a reason for it no longer ago than    *)
(* an answer may be used.                                                   *)
Recent(t) == now - t <= TTL + MaxLag
Founded(u, allowed) ==
  IF allowed THEN u \in admins \/ Recent(times[u].allow)
  ELSE u \notin admins \/ Recent(times[u].refuse)

(* The message is let through or checked, or the press refused; one that is *)
(* allowed goes on.                                                         *)
Decide(h, u, want, ok) ==
  /\ rash' = (rash \/ ~Founded(u, ok))
  /\ Go(h, IF ok /\ want # Message THEN Loading(want) ELSE Idle)

(* Mutant: an answer is used however old it is. *)
Begin_Bug(h, u, want) ==
  /\ handler[h] = Idle
  /\ want # Message => report[want.report].says = "report"
  /\ \/ cached[u] = {} /\ Go(h, Asking("ask", u, want)) /\ UNCHANGED rash
     \/ \E a \in cached[u] : Decide(h, u, want, a.allowed)
  /\ Works /\ Quiet
  /\ UNCHANGED <<people, cached, limits, posts>>

(* A message is to be exempted or checked, or a button that is there was    *)
(* pressed: AdminCache.Get.                                                 *)
Begin(h, u, want) ==
  /\ handler[h] = Idle
  /\ want # Message => report[want.report].says = "report"
  /\ \/ cached[u] = {} /\ Go(h, Asking("ask", u, want)) /\ UNCHANGED rash
     \/ \E a \in cached[u] :
          \/ now <= a.until /\ Decide(h, u, want, a.allowed)
          \/ now > a.until /\ Go(h, Asking("evict", u, want)) /\ UNCHANGED rash
  /\ Works /\ Quiet
  /\ UNCHANGED <<people, cached, limits, posts>>

(* An answer that is too old is deleted, or one that came since. *)
Evict(h) ==
  /\ At(h, "evict")
  /\ LET d == handler[h]
     IN  /\ cached' = [cached EXCEPT ![d.user] = {}]
         /\ Go(h, Asking("ask", d.user, d.want))
  /\ Works /\ Quiet
  /\ UNCHANGED <<people, limits, posts, rash>>

(* resolveGroupRole.  When it fails, the user counts as no administrator. *)
Ask(h) ==
  /\ At(h, "ask")
  /\ LET d == handler[h]
     IN  \/ Go(h, Knowing(d.user, d.want, d.user \in admins)) /\ Works /\ UNCHANGED times
         \/ /\ Go(h, Knowing(d.user, d.want, FALSE))
            /\ times' = [times EXCEPT ![d.user].refuse = now]
            /\ Fails
  /\ Quiet
  /\ UNCHANGED <<admins, roles, roleCache, limits, posts>>

(* AdminCache.Set, whatever the answer was. *)
Set(h) ==
  /\ At(h, "set")
  /\ LET d == handler[h]
     IN  /\ cached' = [cached EXCEPT ![d.user] = {[allowed |-> d.allowed, until |-> now + TTL]}]
         /\ Decide(h, d.user, d.want, d.allowed)
  /\ Works /\ Quiet
  /\ UNCHANGED <<people, limits, posts>>

(* The group of the report is loaded, which may fail. *)
Load(h) ==
  /\ At(h, "load")
  /\ LET want == handler[h].want
     IN  \/ Go(h, Acting(IF want.kind = "ban" THEN "ban" ELSE "delete", want.report, TRUE)) /\ Works
         \/ Go(h, Idle) /\ Fails
  /\ Quiet
  /\ UNCHANGED <<people, roleCache, limits, posts>>

(* Mutant: the return after a failed ban is missing. *)
Ban_Bug(h) ==
  /\ At(h, "ban")
  /\ LET r == handler[h].report
     IN  /\ Go(h, Acting("editBanned", r, TRUE))
         /\ \/ report' = [report EXCEPT ![r].done = @ \cup {"banned"}] /\ Works
            \/ Fails /\ UNCHANGED report
  /\ Quiet
  /\ UNCHANGED <<people, roleCache, limits, missed>>

(* "Ban User": a ban that fails is said to have failed, and that is all. *)
Ban(h) ==
  /\ At(h, "ban")
  /\ LET r == handler[h].report
     IN  \/ /\ report' = [report EXCEPT ![r].done = @ \cup {"banned"}]
            /\ Go(h, Acting("editBanned", r, TRUE))
            /\ Works
         \/ Go(h, Idle) /\ Fails /\ UNCHANGED report
  /\ Quiet
  /\ UNCHANGED <<people, roleCache, limits, missed>>

(* "Delete & Strike": deleteAndTrack, which goes on after a failure, ... *)
Delete(h) ==
  /\ At(h, "delete")
  /\ LET r == handler[h].report
     IN  \/ Go(h, Acting("strike", r, TRUE)) /\ Works
         \/ Go(h, Acting("strike", r, FALSE)) /\ Fails
  /\ Quiet
  /\ UNCHANGED <<people, roleCache, limits, posts>>

(* ... and issueStrike, which does so, too. *)
Strike(h) ==
  /\ At(h, "strike")
  /\ LET r == handler[h].report
         whole == handler[h].whole
     IN  /\ Go(h, Acting("editStruck", r, TRUE))
         /\ \/ /\ whole
               /\ report' = [report EXCEPT ![r].done = @ \cup {"struck"}]
               /\ Works /\ UNCHANGED missed
            \/ ~whole /\ missed' = missed \cup {r} /\ Works /\ UNCHANGED report
            \/ missed' = missed \cup {r} /\ Fails /\ UNCHANGED report
  /\ Quiet
  /\ UNCHANGED <<people, roleCache, limits>>

(* editReportActionMessage: another text, and no buttons. *)
Edit(h) ==
  /\ At(h, "editBanned") \/ At(h, "editStruck")
  /\ LET says == IF At(h, "editBanned") THEN "banned" ELSE "struck"
     IN  \/ report' = [report EXCEPT ![handler[h].report].says = says] /\ Works
         \/ Fails /\ UNCHANGED report
  /\ Go(h, Idle)
  /\ Quiet
  /\ UNCHANGED <<people, roleCache, limits, missed>>

----------------------------------------------------------------------------
(* The process dies and is started again; its cooldowns are new ones. *)
Restart ==
  /\ crashes < MaxCrashes
  /\ crashes' = crashes + 1
  /\ cached' = [u \in Users |-> {}]
  /\ nextAllowed' = [u \in Users |-> {}] /\ sweeping' = {}
  /\ last' = [u \in Users |-> LongAgo]
  /\ handler' = [h \in Workers |-> Idle]
  /\ Works
  /\ UNCHANGED <<now, people, posts, rash>>

(* The clock goes on while nobody has waited too long. *)
Tick ==
  /\ now < Horizon
  /\ \A t \in sweeping : now - t < MaxWait
  /\ \A h \in Workers :
       /\ At(h, "allow") => now - handler[h].time < MaxWait
       /\ At(h, "set") => now - handler[h].time < MaxLag
  /\ now' = now + 1
  /\ Works
  /\ UNCHANGED <<people, roleCache, limits, handler, posts, crashes>>

Next ==
  \/ \E u \in Users : ChangeRole(u)
  \/ \E h \in Workers :
       \/ \E u \in Users : ReceiveReport(h, u) \/ \E want \in Wants : Begin(h, u, want)
       \/ Allow(h) \/ Forward(h) \/ Post(h)
       \/ Evict(h) \/ Ask(h) \/ Set(h) \/ Load(h)
       \/ Ban(h) \/ Delete(h) \/ Strike(h) \/ Edit(h)
  \/ BeginCleanup \/ Cleanup \/ Restart \/ Tick

Spec == Init /\ [][Next]_vars

----------------------------------------------------------------------------
(* Whoever presses a button with effect, or sends messages unchecked, was  *)
(* an administrator no longer ago than the cache's five minutes and the    *)
(* wait for Telegram's answer; and who is refused, or checked, was none    *)
(* that recently, or a look-up of the role failed that recently.           *)
RoleIsRecent == ~rash

(* The reports of one user are a cooldown apart, clean-ups and waits for   *)
(* the lock included, but for the longest of those: README, "per-user      *)
(* cooldown".                                                              *)
ReportsSpaced == \A h \in Workers : At(h, "forward") => ~handler[h].early

(* What the log channel is told was done was done: a ban without exception,*)
(* a deletion with a strike unless one of them failed, which is not told.  *)
SaidIsDone ==
  \A r \in Reports :
    /\ report[r].says = "banned" => "banned" \in report[r].done
    /\ report[r].says = "struck" => "struck" \in report[r].done \/ r \in missed
=============================================================================
