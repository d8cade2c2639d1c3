---------------------------- MODULE EventQueues ----------------------------
(***************************************************************************)
(* What the moderation of one group leaves behind: the audit log in its    *)
(* log channel, the counters of its days and the daily report (trackMetric *)
(* Async, routeAuditLog, metricWorker, auditLogWorker and sendDailyReports *)
(* in internal/bot/bot.go, TrackMetric and GetDailyStats in                *)
(* internal/db/store.go).  Handlers put events into two bounded channels   *)
(* and do not wait when these are full; one worker each empties them.      *)
(*                                                                         *)
(* The handlers are those of internal/bot/security.go and report.go that   *)
(* put events there.  A handler is the sequence of calls it has left.      *)
(* Which messages break a rule is in FloodLimiter, Scanner and MessageScan,*)
(* which strike is the third in Strikes: here both may be.                 *)
(*                                                                         *)
(* The dates of the database are days of UTC, as those of the scheduler.   *)
(* Of the counters only the distance to what was done is kept: behind[d][c]*)
(* is what was done up to day d, less what the rows of the dates up to d   *)
(* say.  So is unlogged, the events audited less those in the log channel. *)
(***************************************************************************)
EXTENDS Integers, Sequences, FiniteSets

CONSTANTS
  Workers,           \* update workers
  MetricQueueSize,   \* BOT_METRIC_QUEUE_SIZE
  AuditQueueSize,    \* BOT_AUDIT_QUEUE_SIZE
  LogChannel,        \* whether the group has a log channel
  MaxDeletes,        \* bound on the messages of a flood
  MaxActs,           \* bound on the violations and presses of buttons
  MaxDay,            \* bound on the days
  MaxFaults,         \* bound on failing calls
  MaxCrashes         \* bound on exits and crashes

ASSUME EventQueuesAssumption ==
  /\ IsFiniteSet(Workers) /\ LogChannel \in BOOLEAN
  /\ MetricQueueSize \in Nat \ {0} /\ AuditQueueSize \in Nat \ {0}
  /\ MaxDeletes \in Nat /\ MaxActs \in Nat /\ MaxDay \in Nat
  /\ MaxFaults \in Nat /\ MaxCrashes \in Nat

VARIABLES
  today,        \* CURRENT_DATE
  due,          \* the daily job is to run
  rows,         \* group_stats: the dates of which the group has a row
  behind,       \* ... and how far the counters of a column are behind, per date
  said,         \* the dates the daily report told of
  handler,      \* per update worker: the calls it has left
  metricCh, counting,   \* metricCh, and what metricWorker has in hand
  auditCh, logging,     \* how many events auditCh and auditLogWorker have
  dropped,      \* droppedMetrics and droppedAudits, over all starts
  unlogged,
  acts, faults, crashes

metrics == <<metricCh, counting, rows>>
audits == <<auditCh, logging, unlogged>>
calendar == <<today, due, said>>
vars == <<calendar, metrics, behind, audits, handler, dropped, acts, faults, crashes>>

Days == 0 .. MaxDay
Columns == {"messages_deleted", "strikes_issued", "spammers_kicked"}
Call == Columns \cup {"delete", "audit", "strike", "ban", "kick"}

TypeOK ==
  /\ today \in Days /\ due \in BOOLEAN /\ rows \subseteq Days /\ said \subseteq Days
  /\ behind \in [Days -> [Columns -> Int]]
  /\ handler \in [Workers -> Seq(Call)]
  /\ metricCh \in Seq(Columns) /\ Len(metricCh) <= MetricQueueSize
  /\ counting \in Seq(Columns) /\ Len(counting) <= 1
  /\ auditCh \in 0 .. AuditQueueSize /\ logging \in {0, 1}
  /\ dropped \in [metrics : Nat, audits : Nat] /\ unlogged \in Int
  /\ acts \in Nat /\ faults \in Nat /\ crashes \in Nat

Init ==
  /\ today = 0 /\ due = FALSE
  /\ rows = {} /\ said = {}
  /\ behind = [d \in Days |-> [c \in Columns |-> 0]]
  /\ handler = [h \in Workers |-> <<>>]
  /\ metricCh = <<>> /\ counting = <<>>
  /\ auditCh = 0 /\ logging = 0
  /\ dropped = [metrics |-> 0, audits |-> 0]
  /\ acts = 0 /\ faults = 0 /\ crashes = 0
  /\ unlogged = 0

----------------------------------------------------------------------------
Works == UNCHANGED faults
Fails == faults < MaxFaults /\ faults' = faults + 1
Calls(h, call) == handler[h] # <<>> /\ Head(handler[h]) = call
Goes(h, first) == handler' = [handler EXCEPT ![h] = first \o Tail(@)]
Later == today .. MaxDay
Happens(c) == behind' = [d \in Days |-> [behind[d] EXCEPT ![c] = IF d \in Later THEN @ + 1 ELSE @]]
Counts(c) == behind' = [d \in Days |-> [behind[d] EXCEPT ![c] = IF d \in Later THEN @ - 1 ELSE @]]
Quiet == UNCHANGED <<calendar, acts, crashes>>

(* A flood, another violation, or one of the two buttons of a report. *)
Flood == {[n \in 1 .. k |-> "delete"] \o <<"audit">> : k \in 1 .. MaxDeletes}
Plans ==
  Flood \cup {plan \o <<"strike">> : plan \in Flood}
    \cup {<<"delete", "strike">>, <<"kick">>}

Begin(h) ==
  /\ handler[h] = <<>> /\ acts < MaxActs
  /\ acts' = acts + 1
  /\ \E plan \in Plans : handler' = [handler EXCEPT ![h] = plan]
  /\ Works
  /\ UNCHANGED <<calendar, crashes, metrics, audits, dropped, behind>>

(* deleteAndTrack. *)
Delete(h) ==
  /\ Calls(h, "delete")
  /\ \/ Goes(h, <<"messages_deleted">>) /\ Happens("messages_deleted") /\ Works
     \/ Goes(h, <<>>) /\ Fails /\ UNCHANGED behind
  /\ Quiet
  /\ UNCHANGED <<metrics, audits, dropped>>

(* issueStrike.  IncrementStrike may fail after it counted; a third strike *)
(* bans, ...                                                               *)
Strike(h) ==
  /\ Calls(h, "strike")
  /\ \/ /\ \E first \in {<<"strikes_issued">>, <<"strikes_issued", "ban">>} : Goes(h, first)
        /\ Happens("strikes_issued") /\ Works
     \/ /\ Goes(h, <<>>)
        /\ Happens("strikes_issued") \/ UNCHANGED behind
        /\ Fails
  /\ Quiet
  /\ UNCHANGED <<metrics, audits, dropped>>

(* ... and is counted even if the ban fails, unlike the ban of a report. *)
Ban(h) ==
  /\ \/ Calls(h, "ban") \/ Calls(h, "kick")
  /\ \/ Goes(h, <<"spammers_kicked">>) /\ Happens("spammers_kicked") /\ Works
     \/ /\ Goes(h, IF Calls(h, "ban") THEN <<"spammers_kicked">> ELSE <<>>)
        /\ Fails /\ UNCHANGED behind
  /\ Quiet
  /\ UNCHANGED <<metrics, audits, dropped>>

(* Mutant: the handler waits for room. *)
Track_Bug(h) ==
  /\ handler[h] # <<>> /\ Head(handler[h]) \in Columns
  /\ Len(metricCh) < MetricQueueSize
  /\ metricCh' = Append(metricCh, Head(handler[h]))
  /\ Goes(h, <<>>)
  /\ Works /\ Quiet
  /\ UNCHANGED <<rows, counting, audits, dropped, behind>>

(* trackMetricAsync. *)
Track(h) ==
  /\ handler[h] # <<>> /\ Head(handler[h]) \in Columns
  /\ IF Len(metricCh) < MetricQueueSize
     THEN metricCh' = Append(metricCh, Head(handler[h])) /\ UNCHANGED dropped
     ELSE dropped' = [dropped EXCEPT !.metrics = @ + 1] /\ UNCHANGED metricCh
  /\ Goes(h, <<>>)
  /\ Works /\ Quiet
  /\ UNCHANGED <<rows, counting, audits, behind>>

(* Mutant: what is dropped is not counted as dropped. *)
Audit_Bug(h) ==
  /\ Calls(h, "audit")
  /\ unlogged' = unlogged + 1
  /\ auditCh' = IF auditCh < AuditQueueSize THEN auditCh + 1 ELSE auditCh
  /\ Goes(h, <<>>)
  /\ Works /\ Quiet
  /\ UNCHANGED <<logging, dropped, metrics, behind>>

(* routeAuditLog. *)
Audit(h) ==
  /\ Calls(h, "audit")
  /\ unlogged' = unlogged + 1
  /\ IF auditCh < AuditQueueSize
     THEN auditCh' = auditCh + 1 /\ UNCHANGED dropped
     ELSE dropped' = [dropped EXCEPT !.audits = @ + 1] /\ UNCHANGED auditCh
  /\ Goes(h, <<>>)
  /\ Works /\ Quiet
  /\ UNCHANGED <<logging, metrics, behind>>

HandlerStep(h) == Delete(h) \/ Strike(h) \/ Ban(h) \/ Track(h) \/ Audit(h)

----------------------------------------------------------------------------
(* metricWorker. *)
TakeMetric ==
  /\ counting = <<>> /\ metricCh # <<>>
  /\ counting' = <<Head(metricCh)>> /\ metricCh' = Tail(metricCh)
  /\ Works /\ Quiet
  /\ UNCHANGED <<rows, audits, handler, dropped, behind>>

(* One more in the row of this date, which may be new. *)
CountIt == Counts(Head(counting)) /\ rows' = rows \cup {today}
CountNot == UNCHANGED <<behind, rows>>

(* Mutant: a call that failed is tried again. *)
TrackMetric_Bug ==
  /\ counting # <<>>
  /\ \/ CountIt /\ counting' = <<>> /\ Works
     \/ (CountIt \/ CountNot) /\ UNCHANGED counting /\ Fails
  /\ Quiet
  /\ UNCHANGED <<metricCh, audits, handler, dropped>>

(* TrackMetric, on the day it runs.  A call that fails may have counted, *)
(* and is not tried again.                                               *)
TrackMetric ==
  /\ counting # <<>>
  /\ counting' = <<>>
  /\ \/ CountIt /\ Works
     \/ (CountIt \/ CountNot) /\ Fails
  /\ Quiet
  /\ UNCHANGED <<metricCh, audits, handler, dropped>>

(* auditLogWorker, ... *)
TakeAudit ==
  /\ logging = 0 /\ auditCh > 0
  /\ logging' = 1 /\ auditCh' = auditCh - 1
  /\ Works /\ Quiet
  /\ UNCHANGED <<unlogged, metrics, handler, dropped, behind>>

(* ... which loads the group and sends the event, if there is a channel. *)
Log ==
  /\ logging > 0
  /\ logging' = 0
  /\ \/ unlogged' = (IF LogChannel THEN unlogged - 1 ELSE unlogged) /\ Works
     \/ UNCHANGED unlogged /\ Fails
  /\ Quiet
  /\ UNCHANGED <<auditCh, metrics, handler, dropped, behind>>

----------------------------------------------------------------------------
(* "0 0 * * *": the job is due as the day begins. *)
Midnight ==
  /\ today < MaxDay /\ ~due
  /\ today' = today + 1 /\ due' = TRUE
  /\ Works
  /\ UNCHANGED <<said, metrics, behind, audits, handler, dropped, acts, crashes>>

(* sendDailyReports: a group with a row of this date, and with a log channel. *)
Report ==
  /\ due /\ due' = FALSE
  /\ \/ /\ said' = IF LogChannel THEN said \cup ({today} \cap rows) ELSE said
        /\ Works
     \/ UNCHANGED said /\ Fails
  /\ UNCHANGED <<today, metrics, behind, audits, handler, dropped, acts, crashes>>

(* The process ends, which empties the channels, and is started again. *)
Restart ==
  /\ crashes < MaxCrashes
  /\ crashes' = crashes + 1
  /\ handler' = [h \in Workers |-> <<>>]
  /\ metricCh' = <<>> /\ counting' = <<>>
  /\ auditCh' = 0 /\ logging' = 0
  /\ due' = FALSE
  /\ Works
  /\ UNCHANGED <<today, said, rows, behind, dropped, acts, unlogged>>

Next ==
  \/ \E h \in Workers : Begin(h) \/ HandlerStep(h)
  \/ TakeMetric \/ TrackMetric \/ TakeAudit \/ Log
  \/ Midnight \/ Report \/ Restart

Spec == Init /\ [][Next]_vars

----------------------------------------------------------------------------
(* The counters run behind and never ahead: up to any day, no more is       *)
(* counted than was done by then, for any queueing, failing calls and       *)
(* restarts; only bans that failed are counted as bans.  README: "counted   *)
(* only after a successful Telegram delete request".                        *)
CountsAreHonest ==
  \A d \in Days, c \in Columns :
    behind[d][c] >= IF c = "spammers_kicked" THEN -faults ELSE 0

(* What was done and is neither counted nor on its way was dropped by a     *)
(* full queue, which the bot admits in its statistics, or lost with a       *)
(* failing call or a process; and so for the log channel.                   *)
ToTrack == {h \in Workers : handler[h] # <<>> /\ Head(handler[h]) \in Columns}
OnTheWay == Len(metricCh) + Len(counting) + Cardinality(ToTrack)
Uncounted(at) == at["messages_deleted"] + at["strikes_issued"] + at["spammers_kicked"]
LossesHaveReasons ==
  /\ Uncounted(behind[MaxDay]) - OnTheWay
       <= dropped.metrics + faults + crashes * (MetricQueueSize + 1 + Cardinality(Workers))
  /\ LogChannel =>
       unlogged - auditCh - logging
         <= dropped.audits + faults + crashes * (AuditQueueSize + 1)

(* No handler waits for a queue, however slow the database or Telegram is:  *)
(* README, "bounded update workers", of which there is a fixed number.      *)
NeverHeldUp == \A h \in Workers : handler[h] # <<>> => ENABLED HandlerStep(h)

(* When the job of midnight has run, the group was told of the day that     *)
(* ended: README, "cron-based daily reports", BOT_DAILY_REPORT_CRON being   *)
(* "0 0 * * *".                                                             *)
DaysAreReported ==
  (LogChannel /\ ~due /\ faults = 0 /\ crashes = 0) =>
    \A d \in rows : d < today => d \in said
=============================================================================
