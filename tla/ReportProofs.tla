---------------------------- MODULE ReportProofs ----------------------------
(***************************************************************************)
(* The safety of Report, for any number of users, workers, reports, role   *)
(* changes, failing calls and crashes, and any length of the cooldown, of  *)
(* the cache's life and of the two waits.                                  *)
(***************************************************************************)
EXTENDS Report, TLAPS

(* The constants are numbers. *)
LEMMA Constants ==
  /\ TTL \in Nat /\ Cooldown \in Nat /\ MaxWait \in Nat /\ MaxLag \in Nat
  /\ LongAgo \in Int /\ LongAgo + Cooldown < 0 /\ LongAgo < 0
BY ReportAssumption DEF LongAgo

(* What a worker does is a function of the worker. *)
Shape == handler = [h \in Workers |-> handler[h]]

(* A worker goes on, and the others stay where they are. *)
LEMMA Goes ==
  ASSUME Shape, NEW h \in Workers, NEW s, Go(h, s)
  PROVE  Shape' /\ handler'[h] = s /\ \A g \in Workers \ {h} : handler'[g] = handler[g]
BY DEF Shape, Go

(* After a restart no worker does anything. *)
LEMMA RestartIdles == Restart => Shape' /\ \A h \in Workers : handler'[h] = Idle
BY DEF Restart, Shape

----------------------------------------------------------------------------
(* The steps that have nothing to do with the cooldown. *)
Elsewhere(h) ==
  \/ Forward(h) \/ Post(h) \/ \E u \in Users, want \in Wants : Begin(h, u, want)
  \/ Evict(h) \/ Ask(h) \/ Set(h) \/ Load(h) \/ Ban(h) \/ Delete(h) \/ Strike(h) \/ Edit(h)

(* They lead neither to the limiter nor past it, and leave it alone. *)
LEMMA ElsewhereStep ==
  ASSUME Shape, NEW h \in Workers, Elsewhere(h)
  PROVE  /\ Shape' /\ \A g \in Workers \ {h} : handler'[g] = handler[g]
         /\ ~At(h, "allow")' /\ ~At(h, "forward")'
         /\ UNCHANGED <<now, limits>>
<1>1. UNCHANGED <<now, limits>>
    BY DEF Elsewhere, Forward, Post, Begin, Evict, Ask, Set, Load, Ban, Delete, Strike, Edit, Quiet
<1>2. \E s : Go(h, s) /\ s.at # "allow" /\ s.at # "forward"
  <2> DEFINE Out(s) == s.at # "allow" /\ s.at # "forward"
  <2>1. /\ Out(Idle) /\ \A r : Out(Posting(r)) /\ \A want : Out(Loading(want))
        /\ \A u, want, ok : /\ Out(Asking("ask", u, want)) /\ Out(Asking("evict", u, want))
                            /\ Out(Knowing(u, want, ok))
        /\ \A step, r, whole : step # "allow" /\ step # "forward" => Out(Acting(step, r, whole))
      BY DEF Idle, Posting, Loading, Asking, Knowing, Acting
  <2> SUFFICES \E s : Go(h, s) /\ Out(s)
      OBVIOUS
  <2> HIDE DEF Out
  <2>2. CASE Forward(h) \/ Post(h) \/ Edit(h)
      BY <2>1, <2>2 DEF Forward, Post, Edit
  <2>3. CASE Load(h) \/ Ban(h) \/ Delete(h) \/ Strike(h)
      BY <2>1, <2>3 DEF Load, Ban, Delete, Strike
  <2>4. CASE Evict(h) \/ Ask(h)
      BY <2>1, <2>4 DEF Evict, Ask
  <2>5. ASSUME NEW u, NEW want, NEW ok, Decide(h, u, want, ok) PROVE \E s : Go(h, s) /\ Out(s)
      BY <2>1, <2>5 DEF Decide
  <2>6. CASE Set(h)
      BY <2>5, <2>6 DEF Set
  <2>7. ASSUME NEW u \in Users, NEW want \in Wants, Begin(h, u, want)
        PROVE  \E s : Go(h, s) /\ Out(s)
      BY <2>1, <2>5, <2>7 DEF Begin
  <2> QED BY <2>2, <2>3, <2>4, <2>6, <2>7 DEF Elsewhere
<1> QED BY <1>1, <1>2, Goes DEF At

(* The last report let through still counts, or its cooldown is over: in    *)
(* the first case the limiter knows of it.                                  *)
Limiter ==
  \A u \in Users :
    /\ last[u] <= now
    /\ \/ nextAllowed[u] = {last[u] + Cooldown}
       \/ nextAllowed[u] = {} /\ last[u] + Cooldown < now

(* A report that waits for the limiter came no longer ago than the longest *)
(* wait.                                                                   *)
Waits ==
  \A h \in Workers : At(h, "allow") =>
    /\ handler[h].user \in Users
    /\ handler[h].time \in Nat /\ handler[h].time <= now /\ now - handler[h].time <= MaxWait

LimiterTypes ==
  /\ Shape /\ now \in Nat /\ \A t \in sweeping : t \in Nat /\ t <= now
  /\ last \in [Users -> Int] /\ nextAllowed \in [Users -> SUBSET Int]

SpacingInv == LimiterTypes /\ Limiter /\ Waits /\ ReportsSpaced

(* At the start nobody reported anything. *)
LEMMA SpacingInit == Init => SpacingInv
BY Constants DEF Init, SpacingInv, LimiterTypes, Shape, Limiter, Waits, ReportsSpaced, At, Idle

(* A worker that goes elsewhere, and any step that leaves limiter and      *)
(* workers alone.                                                          *)
LEMMA SpacingElsewhere ==
  ASSUME SpacingInv, NEW h \in Workers, Elsewhere(h)
  PROVE  SpacingInv'
BY ElsewhereStep DEF SpacingInv, LimiterTypes, Limiter, Waits, ReportsSpaced, At, limits

(* A report is received: it came just now. *)
LEMMA SpacingReceive ==
  ASSUME SpacingInv, NEW h \in Workers, NEW u \in Users, ReceiveReport(h, u)
  PROVE  SpacingInv'
<1>1. /\ Shape' /\ handler'[h] = Reporting(u, now)
      /\ \A g \in Workers \ {h} : handler'[g] = handler[g]
    BY Goes DEF ReceiveReport, SpacingInv, LimiterTypes
<1>2. UNCHANGED <<now, limits>>
    BY DEF ReceiveReport, Quiet
<1>3. Waits'
    BY <1>1, <1>2, Constants DEF SpacingInv, LimiterTypes, Waits, At, Reporting
<1>4. ReportsSpaced'
    BY <1>1 DEF SpacingInv, ReportsSpaced, At, Reporting
<1> QED BY <1>1, <1>2, <1>3, <1>4 DEF SpacingInv, LimiterTypes, Limiter, limits

(* The limiter: one that is let through is a cooldown after the last one,   *)
(* or the last one's cooldown was over and forgotten while it waited.       *)
LEMMA SpacingAllow ==
  ASSUME SpacingInv, NEW h \in Workers, Allow(h)
  PROVE  SpacingInv'
<1> DEFINE u == handler[h].user
           t == handler[h].time
<1>1. /\ u \in Users /\ t \in Nat /\ t <= now /\ now - t <= MaxWait
    BY DEF Allow, SpacingInv, Waits
<1>2. UNCHANGED <<now, sweeping>>
    BY DEF Allow, Quiet
<1>3. CASE Go(h, Idle) /\ UNCHANGED <<nextAllowed, last>>
  <2>1. /\ Shape' /\ handler'[h] = Idle /\ \A g \in Workers \ {h} : handler'[g] = handler[g]
      BY <1>3, Goes DEF SpacingInv, LimiterTypes
  <2> QED BY <1>2, <1>3, <2>1
          DEF SpacingInv, LimiterTypes, Limiter, Waits, ReportsSpaced, At, Idle
<1>4. CASE /\ ~(\E next \in nextAllowed[u] : t < next)
           /\ nextAllowed' = [nextAllowed EXCEPT ![u] = {t + Cooldown}]
           /\ last' = [last EXCEPT ![u] = t]
           /\ Go(h, Forwarding(t - last[u]))
  <2>1. /\ Shape' /\ handler'[h] = Forwarding(t - last[u])
        /\ \A g \in Workers \ {h} : handler'[g] = handler[g]
      BY <1>4, Goes DEF SpacingInv, LimiterTypes
  <2>2. last \in [Users -> Int] /\ nextAllowed \in [Users -> SUBSET Int] /\ now \in Nat
      BY DEF SpacingInv, LimiterTypes
  <2>3. last[u] \in Int
      BY <1>1, <2>2
  <2>4. ~(t - last[u] < Cooldown /\ t - last[u] <= Cooldown - MaxWait)
    <3>1. CASE nextAllowed[u] = {last[u] + Cooldown}
        BY <1>1, <1>4, <2>3, <3>1, Constants
    <3>2. CASE last[u] + Cooldown < now
        BY <1>1, <2>2, <2>3, <3>2, Constants
    <3> QED BY <1>1, <3>1, <3>2 DEF SpacingInv, Limiter
  <2>5. ReportsSpaced'
    <3>1. ~Forwarding(t - last[u]).early
        BY <2>4, Zenon DEF Forwarding
    <3>2. ~handler'[h].early
        BY <2>1, <3>1
    <3>3. \A g \in Workers \ {h} : At(g, "forward")' => ~handler'[g].early
        BY <2>1 DEF SpacingInv, ReportsSpaced, At
    <3> QED BY <3>2, <3>3 DEF ReportsSpaced
  <2>6. LimiterTypes'
      BY <1>1, <1>2, <1>4, <2>1, <2>2, Constants DEF SpacingInv, LimiterTypes
  <2>7. Limiter'
      BY <1>1, <1>2, <1>4, <2>2 DEF SpacingInv, Limiter
  <2>8. Waits'
      BY <1>2, <2>1 DEF SpacingInv, Waits, At, Forwarding
  <2> QED BY <2>5, <2>6, <2>7, <2>8 DEF SpacingInv
<1> QED BY <1>3, <1>4 DEF Allow

(* The clean-up forgets what was over when it read the clock. *)
LEMMA SpacingCleanup ==
  ASSUME SpacingInv, BeginCleanup \/ Cleanup
  PROVE  SpacingInv'
<1>1. UNCHANGED <<now, last, handler>>
    BY DEF BeginCleanup, Cleanup, Quiet
<1>2. LimiterTypes'
    BY <1>1 DEF BeginCleanup, Cleanup, SpacingInv, LimiterTypes, Shape
<1>3. Limiter'
  <2>1. CASE BeginCleanup
      BY <1>1, <2>1 DEF BeginCleanup, SpacingInv, Limiter
  <2>2. CASE Cleanup
    <3>1. PICK t \in sweeping : t \in Nat /\ t <= now
        BY <2>2 DEF Cleanup, SpacingInv, LimiterTypes
    <3> SUFFICES ASSUME NEW u \in Users
                 PROVE  /\ last[u] <= now
                        /\ \/ nextAllowed'[u] = {last[u] + Cooldown}
                           \/ nextAllowed'[u] = {} /\ last[u] + Cooldown < now
        BY <1>1 DEF Limiter
    <3>2. nextAllowed'[u] = {next \in nextAllowed[u] : \A s \in sweeping : s <= next}
        BY <2>2 DEF Cleanup
    <3>3. last[u] \in Int /\ now \in Nat /\ last[u] <= now
        BY DEF SpacingInv, LimiterTypes, Limiter
    <3>4. CASE nextAllowed[u] = {last[u] + Cooldown}
      <4>1. CASE \A s \in sweeping : s <= last[u] + Cooldown
          BY <3>2, <3>3, <3>4, <4>1
      <4>2. CASE \E s \in sweeping : ~(s <= last[u] + Cooldown)
        <5>1. nextAllowed'[u] = {}
            BY <3>2, <3>4, <4>2
        <5>2. last[u] + Cooldown < now
            BY <3>3, <4>2, Constants DEF SpacingInv, LimiterTypes
        <5> QED BY <3>3, <5>1, <5>2
      <4> QED BY <4>1, <4>2
    <3>5. CASE nextAllowed[u] = {} /\ last[u] + Cooldown < now
        BY <3>2, <3>3, <3>5
    <3> QED BY <3>4, <3>5 DEF SpacingInv, Limiter
  <2> QED BY <2>1, <2>2
<1> QED BY <1>1, <1>2, <1>3 DEF SpacingInv, Waits, ReportsSpaced, At

(* The clock goes on while no report has waited the longest time. *)
LEMMA SpacingTick ==
  ASSUME SpacingInv, Tick
  PROVE  SpacingInv'
<1>1. now' = now + 1 /\ UNCHANGED <<limits, handler>> /\ now \in Nat
    BY DEF Tick, SpacingInv, LimiterTypes
<1>2. Waits'
    BY <1>1, Constants DEF Tick, SpacingInv, Waits, At
<1>3. LimiterTypes'
    BY <1>1 DEF SpacingInv, LimiterTypes, limits, Shape
<1>4. Limiter'
    BY <1>1, Constants DEF SpacingInv, LimiterTypes, Limiter, limits
<1> QED BY <1>1, <1>2, <1>3, <1>4 DEF SpacingInv, ReportsSpaced, At

(* Every step keeps the invariant. *)
LEMMA SpacingStep == SpacingInv /\ [Next]_vars => SpacingInv'
<1> SUFFICES ASSUME SpacingInv, [Next]_vars PROVE SpacingInv'
    OBVIOUS
<1>1. CASE UNCHANGED vars
    BY <1>1 DEF vars, limits, SpacingInv, LimiterTypes, Shape, Limiter, Waits, ReportsSpaced, At
<1>2. ASSUME NEW u \in Users, ChangeRole(u) PROVE SpacingInv'
    BY <1>2 DEF ChangeRole, Quiet, limits, SpacingInv, LimiterTypes, Shape, Limiter, Waits,
                ReportsSpaced, At
<1>3. ASSUME NEW h \in Workers,
             \/ \E u \in Users : ReceiveReport(h, u) \/ \E want \in Wants : Begin(h, u, want)
             \/ Allow(h) \/ Forward(h) \/ Post(h)
             \/ Evict(h) \/ Ask(h) \/ Set(h) \/ Load(h)
             \/ Ban(h) \/ Delete(h) \/ Strike(h) \/ Edit(h)
      PROVE  SpacingInv'
    BY <1>3, SpacingReceive, SpacingAllow, SpacingElsewhere DEF Elsewhere
<1>4. CASE Restart
  <2>1. /\ UNCHANGED now /\ sweeping' = {}
        /\ last' = [u \in Users |-> LongAgo] /\ nextAllowed' = [u \in Users |-> {}]
      BY <1>4 DEF Restart
  <2>2. now \in Nat
      BY DEF SpacingInv, LimiterTypes
  <2> QED BY <1>4, <2>1, <2>2, RestartIdles, Constants
          DEF SpacingInv, LimiterTypes, Limiter, Waits, ReportsSpaced, At, Idle
<1> QED BY <1>1, <1>2, <1>3, <1>4, SpacingCleanup, SpacingTick DEF Next

(* The reports of a user that are let through are a cooldown apart, but for *)
(* the wait for the lock.                                                   *)
THEOREM ReportsAreSpaced == Spec => []ReportsSpaced
<1>1. SpacingInv => ReportsSpaced
    BY DEF SpacingInv
<1> QED BY <1>1, SpacingInit, SpacingStep, PTL DEF Spec

----------------------------------------------------------------------------
(* An answer about a user is backed since a time if it is right now, or if *)
(* there was a reason for it at that time or later.                        *)
Backed(u, ok, since) ==
  IF ok THEN u \in admins \/ times[u].allow >= since
  ELSE u \notin admins \/ times[u].refuse >= since

RoleTypes ==
  /\ Shape /\ now \in Nat
  /\ times \in [Users -> [allow : Int, refuse : Int]]
  /\ \A u \in Users : times[u].allow <= now /\ times[u].refuse <= now
  /\ cached \in [Users -> SUBSET Answer]

(* Whoever asks for a role asks for that of a user. *)
Asked ==
  \A h \in Workers :
    At(h, "evict") \/ At(h, "ask") \/ At(h, "set") => handler[h].user \in Users

(* An answer on its way is backed since it was asked for, ... *)
Underway(h) ==
  /\ handler[h].time \in Nat /\ handler[h].time <= now /\ now - handler[h].time <= MaxLag
  /\ handler[h].allowed \in BOOLEAN
  /\ Backed(handler[h].user, handler[h].allowed, handler[h].time)
AnswersBacked == \A h \in Workers : At(h, "set") => Underway(h)

(* ... and a cached one since then, too, which is no longer before its end  *)
(* than the cache's life and the longest wait.                              *)
CachedBacked ==
  \A u \in Users : \A a \in cached[u] :
    a.until - TTL <= now /\ Backed(u, a.allowed, a.until - TTL - MaxLag)

RoleInv == RoleTypes /\ Asked /\ AnswersBacked /\ CachedBacked /\ RoleIsRecent

(* At the start nothing was answered. *)
LEMMA RoleInit == Init => RoleInv
BY Constants DEF Init, RoleInv, RoleTypes, Shape, Asked, AnswersBacked, CachedBacked,
                 RoleIsRecent, At, Idle

(* What is backed stays backed, whatever role or look-up changes. *)
LEMMA BackedStays ==
  ASSUME RoleTypes, NEW u \in Users, NEW ok \in BOOLEAN, NEW since \in Int, since <= now,
         Backed(u, ok, since),
         \/ UNCHANGED <<admins, times>>
         \/ \E v \in Users : ChangeRole(v)
         \/ \E v \in Users : UNCHANGED admins /\ times' = [times EXCEPT ![v].refuse = now]
  PROVE  Backed(u, ok, since)'
<1>1. CASE UNCHANGED <<admins, times>>
    BY <1>1 DEF Backed
<1>2. ASSUME NEW v \in Users,
             \/ /\ v \in admins /\ admins' = admins \ {v} /\ times' = [times EXCEPT ![v].allow = now]
             \/ /\ v \notin admins /\ admins' = admins \cup {v}
                /\ times' = [times EXCEPT ![v].refuse = now]
             \/ UNCHANGED admins /\ times' = [times EXCEPT ![v].refuse = now]
      PROVE  Backed(u, ok, since)'
  <2>1. /\ times[u] \in [allow : Int, refuse : Int] /\ times[u].refuse <= now /\ now \in Nat
        /\ times \in [Users -> [allow : Int, refuse : Int]]
      BY DEF RoleTypes
  <2>2. CASE u # v
    <3>1. (u \in admins <=> u \in admins') /\ times'[u] = times[u]
        BY <1>2, <2>1, <2>2
    <3> QED BY <3>1 DEF Backed
  <2>3. CASE u = v
    <3>1. \/ u \notin admins' /\ times'[u].allow = now /\ times'[u].refuse = times[u].refuse
          \/ u \in admins' /\ times'[u].refuse = now /\ times'[u].allow = times[u].allow
          \/ /\ (u \in admins <=> u \in admins')
             /\ times'[u].refuse = now /\ times'[u].allow = times[u].allow
        BY <1>2, <2>1, <2>3
    <3> QED BY <2>1, <3>1 DEF Backed
  <2> QED BY <2>2, <2>3
<1> QED BY <1>1, <1>2 DEF ChangeRole

(* A decision from an answer that is backed since a recent time is founded. *)
LEMMA BackedIsFounded ==
  ASSUME RoleTypes, NEW u \in Users, NEW ok \in BOOLEAN, NEW since \in Int,
         Backed(u, ok, since), since >= now - TTL - MaxLag
  PROVE  Founded(u, ok)
<1>1. /\ times[u].allow \in Int /\ times[u].refuse \in Int /\ now \in Nat
      /\ TTL \in Nat /\ MaxLag \in Nat
    BY Constants DEF RoleTypes
<1> QED BY <1>1 DEF Backed, Founded, Recent

(* The steps at whose end the worker is not asking for a role. *)
LEMMA NotAsking ==
  ASSUME Shape, NEW h \in Workers,
         \/ \E u \in Users : ReceiveReport(h, u)
         \/ Allow(h) \/ Forward(h) \/ Post(h) \/ Load(h)
         \/ Ban(h) \/ Delete(h) \/ Strike(h) \/ Edit(h)
  PROVE  /\ Shape' /\ \A g \in Workers \ {h} : handler'[g] = handler[g]
         /\ ~At(h, "evict")' /\ ~At(h, "ask")' /\ ~At(h, "set")'
         /\ UNCHANGED <<now, people, roleCache>>
<1>1. UNCHANGED <<now, people, roleCache>>
    BY DEF ReceiveReport, Allow, Forward, Post, Load, Ban, Delete, Strike, Edit, Quiet
<1> DEFINE Out(s) == s.at # "evict" /\ s.at # "ask" /\ s.at # "set"
<1>2. \E s : Go(h, s) /\ Out(s)
  <2>1. /\ Out(Idle) /\ \A r : Out(Posting(r)) /\ \A distance : Out(Forwarding(distance))
        /\ \A u, t : Out(Reporting(u, t))
        /\ \A step, r, whole :
             step # "evict" /\ step # "ask" /\ step # "set" => Out(Acting(step, r, whole))
      BY DEF Idle, Posting, Forwarding, Reporting, Acting
  <2> HIDE DEF Out
  <2>2. CASE Forward(h) \/ Post(h) \/ Edit(h) \/ Allow(h) \/ \E u \in Users : ReceiveReport(h, u)
      BY <2>1, <2>2 DEF Forward, Post, Edit, Allow, ReceiveReport
  <2>3. CASE Load(h) \/ Ban(h) \/ Delete(h) \/ Strike(h)
      BY <2>1, <2>3 DEF Load, Ban, Delete, Strike
  <2> QED BY <2>2, <2>3
<1> QED BY <1>1, <1>2, Goes DEF At

(* A worker that holds no answer, while no more is cached than before. *)
LEMMA RoleElsewhere ==
  ASSUME RoleInv, NEW h \in Workers, Shape',
         UNCHANGED <<now, admins, times>>, ~rash',
         \A g \in Workers \ {h} : handler'[g] = handler[g],
         ~At(h, "set")', At(h, "evict")' \/ At(h, "ask")' => handler'[h].user \in Users,
         cached' \in [Users -> SUBSET Answer], \A u \in Users : cached'[u] \subseteq cached[u]
  PROVE  RoleInv'
<1>1. RoleTypes'
    BY DEF RoleInv, RoleTypes
<1>2. Asked'
    BY DEF RoleInv, Asked, At
<1>3. AnswersBacked'
  <2> SUFFICES ASSUME NEW g \in Workers, At(g, "set")' PROVE Underway(g)'
      BY DEF AnswersBacked
  <2>1. g # h /\ handler'[g] = handler[g] /\ At(g, "set")
      BY DEF At
  <2>2. Underway(g)
      BY <2>1 DEF RoleInv, AnswersBacked
  <2> QED BY <2>1, <2>2 DEF Underway, Backed
<1>4. CachedBacked'
    BY DEF RoleInv, CachedBacked, Backed
<1> QED BY <1>1, <1>2, <1>3, <1>4 DEF RoleInv, RoleIsRecent

(* A decision ends the asking. *)
LEMMA DecideStep ==
  ASSUME Shape, NEW h \in Workers, NEW u, NEW want, NEW ok, Decide(h, u, want, ok)
  PROVE  /\ Shape' /\ \A g \in Workers \ {h} : handler'[g] = handler[g]
         /\ ~At(h, "evict")' /\ ~At(h, "ask")' /\ ~At(h, "set")'
<1>1. \E s \in {Idle, Loading(want)} : Go(h, s)
    BY DEF Decide
<1>2. PICK s \in {Idle, Loading(want)} : Go(h, s)
    BY <1>1
<1>3. s.at = "idle" \/ s.at = "load"
    BY <1>2 DEF Idle, Loading
<1> QED BY <1>2, <1>3, Goes DEF At

(* One that is founded raises no alarm. *)
LEMMA DecideQuietly ==
  ASSUME RoleIsRecent, NEW h, NEW u, NEW want, NEW ok, Decide(h, u, want, ok), Founded(u, ok)
  PROVE  ~rash'
BY Zenon DEF RoleIsRecent, Decide

(* An answer is found in the cache, not yet too old, or is not. *)
LEMMA RoleBegin ==
  ASSUME RoleInv, NEW h \in Workers, NEW u \in Users, NEW want \in Wants, Begin(h, u, want)
  PROVE  RoleInv'
<1>1. UNCHANGED <<now, people, cached>>
    BY DEF Begin, Quiet
<1>2. cached \in [Users -> SUBSET Answer] /\ Shape /\ now \in Nat
    BY DEF RoleInv, RoleTypes
<1>3. ASSUME NEW step \in {"ask", "evict"}, Go(h, Asking(step, u, want)), UNCHANGED rash
      PROVE  RoleInv'
  <2>1. /\ Shape' /\ handler'[h] = Asking(step, u, want)
        /\ \A g \in Workers \ {h} : handler'[g] = handler[g]
      BY <1>2, <1>3, Goes
  <2>2. ~At(h, "set")' /\ handler'[h].user = u
      BY <2>1 DEF At, Asking
  <2>3. ~rash'
      BY <1>3 DEF RoleInv, RoleIsRecent
  <2> QED BY <1>1, <1>2, <2>1, <2>2, <2>3, RoleElsewhere DEF people
<1>4. ASSUME NEW a \in cached[u], now <= a.until, Decide(h, u, want, a.allowed)
      PROVE  RoleInv'
  <2>1. a \in Answer
      BY <1>2
  <2>2. a.allowed \in BOOLEAN /\ a.until \in Int
      BY <2>1 DEF Answer
  <2>3. Backed(u, a.allowed, a.until - TTL - MaxLag)
      BY DEF RoleInv, CachedBacked
  <2>4. a.until - TTL - MaxLag \in Int /\ a.until - TTL - MaxLag >= now - TTL - MaxLag
      BY <1>2, <1>4, <2>2, Constants
  <2>5. Founded(u, a.allowed)
      BY <2>2, <2>3, <2>4, BackedIsFounded DEF RoleInv
  <2>6. ~rash'
      BY <1>4, <2>5, DecideQuietly DEF RoleInv
  <2>7. /\ Shape' /\ \A g \in Workers \ {h} : handler'[g] = handler[g]
        /\ ~At(h, "evict")' /\ ~At(h, "ask")' /\ ~At(h, "set")'
      BY <1>2, <1>4, DecideStep
  <2> QED BY <1>1, <1>2, <2>6, <2>7, RoleElsewhere DEF people
<1> QED BY <1>3, <1>4 DEF Begin

(* One that is too old goes. *)
LEMMA RoleEvict ==
  ASSUME RoleInv, NEW h \in Workers, Evict(h)
  PROVE  RoleInv'
<1>1. /\ UNCHANGED <<now, people, rash>> /\ handler[h].user \in Users
      /\ cached' = [cached EXCEPT ![handler[h].user] = {}]
      /\ cached \in [Users -> SUBSET Answer]
    BY DEF Evict, Quiet, RoleInv, RoleTypes, Asked
<1>2. /\ Shape' /\ handler'[h] = Asking("ask", handler[h].user, handler[h].want)
      /\ \A g \in Workers \ {h} : handler'[g] = handler[g]
    BY Goes DEF Evict, RoleInv, RoleTypes
<1>3. ~At(h, "set")' /\ handler'[h].user \in Users
    BY <1>1, <1>2 DEF At, Asking
<1>4. ~rash'
    BY <1>1 DEF RoleInv, RoleIsRecent
<1> QED BY <1>1, <1>2, <1>3, <1>4, RoleElsewhere DEF people

(* Telegram answers what is so now, or the failure is the reason. *)
LEMMA RoleAsk ==
  ASSUME RoleInv, NEW h \in Workers, Ask(h)
  PROVE  RoleInv'
<1>1. PICK u : u = handler[h].user
    OBVIOUS
<1>2. u \in Users /\ RoleTypes /\ now \in Nat
    BY <1>1 DEF Ask, RoleInv, RoleTypes, Asked
<1>3. UNCHANGED <<now, admins, roleCache>>
    BY DEF Ask, Quiet
<1>4. \/ Go(h, Knowing(u, handler[h].want, u \in admins)) /\ UNCHANGED times
      \/ /\ Go(h, Knowing(u, handler[h].want, FALSE))
         /\ times' = [times EXCEPT ![u].refuse = now]
    BY <1>1 DEF Ask
<1>5. PICK ok \in BOOLEAN :
        /\ Go(h, Knowing(u, handler[h].want, ok))
        /\ \/ UNCHANGED times /\ ok = (u \in admins)
           \/ times' = [times EXCEPT ![u].refuse = now] /\ ok = FALSE
  <2>1. (u \in admins) \in BOOLEAN
      BY SMT
  <2> QED BY <1>4, <2>1, Zenon
<1>6. /\ Shape' /\ handler'[h] = Knowing(u, handler[h].want, ok)
      /\ \A g \in Workers \ {h} : handler'[g] = handler[g]
    BY <1>2, <1>5, Goes DEF RoleTypes
<1>7. RoleTypes'
    BY <1>2, <1>3, <1>5, <1>6 DEF RoleTypes, roleCache
<1>8. Asked'
    BY <1>2, <1>6 DEF RoleInv, Asked, At, Knowing
<1>9. PICK t \in Nat : t = now
    BY <1>2
<1>10. Backed(u, ok, t)'
  <2>1. CASE UNCHANGED times /\ ok = (u \in admins)
      BY <1>3, <2>1 DEF Backed
  <2>2. CASE times' = [times EXCEPT ![u].refuse = now] /\ ok = FALSE
    <3>1. times'[u].refuse = t /\ t >= t
        BY <1>2, <1>9, <2>2 DEF RoleTypes
    <3> QED BY <2>2, <3>1 DEF Backed
  <2> QED BY <1>5, <2>1, <2>2
<1>11. ASSUME NEW v \in Users, NEW allowed \in BOOLEAN, NEW since \in Int, since <= now,
             Backed(v, allowed, since)
      PROVE  Backed(v, allowed, since)'
    BY <1>2, <1>3, <1>5, <1>11, BackedStays
<1>12. AnswersBacked'
  <2> SUFFICES ASSUME NEW g \in Workers, At(g, "set")' PROVE Underway(g)'
      BY DEF AnswersBacked
  <2>1. CASE g = h
    <3>1. handler'[h].time = t /\ handler'[h].allowed = ok /\ handler'[h].user = u
        BY <1>6, <1>9 DEF Knowing
    <3>2. t <= now' /\ now' - t <= MaxLag
        BY <1>2, <1>3, <1>9, Constants
    <3> QED BY <1>10, <2>1, <3>1, <3>2 DEF Underway
  <2>2. CASE g # h
    <3>1. handler'[g] = handler[g] /\ At(g, "set")
        BY <1>6, <2>2 DEF At
    <3>2. Underway(g) /\ handler[g].user \in Users
        BY <3>1 DEF RoleInv, AnswersBacked, Asked
    <3>3. PICK v, allowed, since :
            v = handler[g].user /\ allowed = handler[g].allowed /\ since = handler[g].time
        OBVIOUS
    <3>4. Backed(v, allowed, since)'
        BY <1>11, <3>2, <3>3 DEF Underway
    <3> QED BY <1>3, <3>1, <3>2, <3>3, <3>4 DEF Underway
  <2> QED BY <2>1, <2>2
<1>13. CachedBacked'
  <2> SUFFICES ASSUME NEW v \in Users, NEW a \in cached[v]
               PROVE  a.until - TTL <= now /\ Backed(v, a.allowed, a.until - TTL - MaxLag)'
      BY <1>3 DEF CachedBacked, roleCache
  <2>1. a.allowed \in BOOLEAN /\ a.until \in Int
      BY <1>2 DEF RoleTypes, Answer
  <2>2. a.until - TTL <= now /\ Backed(v, a.allowed, a.until - TTL - MaxLag)
      BY DEF RoleInv, CachedBacked
  <2>3. a.until - TTL - MaxLag \in Int /\ a.until - TTL - MaxLag <= now
      BY <1>2, <2>1, <2>2, Constants
  <2> QED BY <1>11, <2>1, <2>2, <2>3
<1>14. ~rash'
    BY <1>3 DEF RoleInv, RoleIsRecent, roleCache
<1> QED BY <1>7, <1>8, <1>12, <1>13, <1>14 DEF RoleInv, RoleIsRecent

(* The answer goes into the cache, and is used. *)
LEMMA RoleSet ==
  ASSUME RoleInv, NEW h \in Workers, Set(h)
  PROVE  RoleInv'
<1>1. PICK u, ok, t, want :
        u = handler[h].user /\ ok = handler[h].allowed /\ t = handler[h].time
        /\ want = handler[h].want
    OBVIOUS
<1>2. /\ u \in Users /\ ok \in BOOLEAN
      /\ t \in Nat /\ t <= now /\ now - t <= MaxLag /\ Backed(u, ok, t)
    BY <1>1 DEF Set, RoleInv, Asked, AnswersBacked, Underway, At
<1>3. /\ cached' = [cached EXCEPT ![u] = {[allowed |-> ok, until |-> now + TTL]}]
      /\ Decide(h, u, want, ok) /\ UNCHANGED <<now, people>>
    BY <1>1 DEF Set, Quiet
<1>4. RoleTypes /\ now \in Nat /\ cached \in [Users -> SUBSET Answer]
    BY DEF RoleInv, RoleTypes
<1>5. ~rash'
  <2>1. t >= now - TTL - MaxLag /\ t \in Int
      BY <1>2, <1>4, Constants
  <2>2. Founded(u, ok)
      BY <1>2, <1>4, <2>1, BackedIsFounded
  <2> QED BY <1>3, <2>2, DecideQuietly DEF RoleInv
<1>6. /\ Shape' /\ \A g \in Workers \ {h} : handler'[g] = handler[g]
      /\ ~At(h, "evict")' /\ ~At(h, "ask")' /\ ~At(h, "set")'
    BY <1>3, <1>4, DecideStep DEF RoleTypes
<1>7. RoleTypes'
  <2>1. [allowed |-> ok, until |-> now + TTL] \in Answer
      BY <1>2, <1>4, Constants DEF Answer
  <2>2. cached' \in [Users -> SUBSET Answer]
      BY <1>2, <1>3, <1>4, <2>1
  <2> QED BY <1>3, <1>4, <1>6, <2>2 DEF RoleTypes, people
<1>8. Asked'
    BY <1>6 DEF RoleInv, Asked, At
<1>9. AnswersBacked'
  <2> SUFFICES ASSUME NEW g \in Workers, At(g, "set")' PROVE Underway(g)'
      BY DEF AnswersBacked
  <2>1. g # h /\ handler'[g] = handler[g] /\ At(g, "set")
      BY <1>6 DEF At
  <2>2. Underway(g)
      BY <2>1 DEF RoleInv, AnswersBacked
  <2> QED BY <1>3, <2>1, <2>2 DEF Underway, Backed, people
<1>10. CachedBacked'
  <2> SUFFICES ASSUME NEW v \in Users, NEW a \in cached'[v]
               PROVE  a.until - TTL <= now' /\ Backed(v, a.allowed, a.until - TTL - MaxLag)'
      BY DEF CachedBacked
  <2>1. CASE a \in cached[v]
      BY <1>3, <2>1 DEF RoleInv, CachedBacked, Backed, people
  <2>2. CASE a \notin cached[v]
    <3>1. v = u /\ a = [allowed |-> ok, until |-> now + TTL]
        BY <1>2, <1>3, <1>4, <2>2
    <3>2. /\ a.until - TTL = now /\ a.until - TTL - MaxLag \in Int
          /\ a.until - TTL - MaxLag <= t
        BY <1>2, <1>4, <3>1, Constants
    <3>3. times[u].allow \in Int /\ times[u].refuse \in Int
        BY <1>2, <1>4 DEF RoleTypes
    <3>4. Backed(v, ok, a.until - TTL - MaxLag)
        BY <1>2, <3>1, <3>2, <3>3 DEF Backed
    <3>5. a.allowed = ok
        BY <3>1
    <3> QED BY <1>3, <1>4, <3>2, <3>4, <3>5 DEF Backed, people
  <2> QED BY <2>1, <2>2
<1> QED BY <1>5, <1>7, <1>8, <1>9, <1>10 DEF RoleInv, RoleIsRecent

(* A role changes: that is a reason from now on. *)
LEMMA RoleChange ==
  ASSUME RoleInv, NEW v \in Users, ChangeRole(v)
  PROVE  RoleInv'
<1>1. UNCHANGED <<now, roleCache, handler>>
    BY DEF ChangeRole, Quiet
<1>2. RoleTypes
    BY DEF RoleInv
<1>3. RoleTypes'
    BY <1>1 DEF ChangeRole, RoleInv, RoleTypes, Shape, roleCache
<1>4. ASSUME NEW u \in Users, NEW ok \in BOOLEAN, NEW since \in Int, since <= now,
             Backed(u, ok, since)
      PROVE  Backed(u, ok, since)'
    BY <1>2, <1>4, BackedStays
<1>5. AnswersBacked'
  <2> SUFFICES ASSUME NEW g \in Workers, At(g, "set") PROVE Underway(g)'
      BY <1>1 DEF AnswersBacked, At
  <2>1. Underway(g) /\ handler[g].user \in Users
      BY DEF RoleInv, AnswersBacked, Asked
  <2>2. PICK u, ok, t : u = handler[g].user /\ ok = handler[g].allowed /\ t = handler[g].time
      OBVIOUS
  <2>3. Backed(u, ok, t)'
      BY <1>4, <2>1, <2>2 DEF Underway
  <2> QED BY <1>1, <2>1, <2>2, <2>3 DEF Underway
<1>6. CachedBacked'
  <2> SUFFICES ASSUME NEW u \in Users, NEW a \in cached[u]
               PROVE  a.until - TTL <= now /\ Backed(u, a.allowed, a.until - TTL - MaxLag)'
      BY <1>1 DEF CachedBacked, roleCache
  <2>1. a.allowed \in BOOLEAN /\ a.until \in Int /\ now \in Nat
      BY <1>2 DEF RoleTypes, Answer
  <2>2. a.until - TTL <= now /\ Backed(u, a.allowed, a.until - TTL - MaxLag)
      BY DEF RoleInv, CachedBacked
  <2>3. a.until - TTL - MaxLag \in Int /\ a.until - TTL - MaxLag <= now
      BY <2>1, <2>2, Constants
  <2> QED BY <1>4, <2>1, <2>2, <2>3
<1> QED BY <1>1, <1>3, <1>5, <1>6 DEF RoleInv, Asked, At, RoleIsRecent, roleCache

(* The clock goes on while no answer has been under way the longest time. *)
LEMMA RoleTick ==
  ASSUME RoleInv, Tick
  PROVE  RoleInv'
<1>1. now' = now + 1 /\ UNCHANGED <<people, roleCache, handler>> /\ now \in Nat
    BY DEF Tick, RoleInv, RoleTypes
<1>2. RoleTypes'
    BY <1>1 DEF RoleInv, RoleTypes, Shape, people, roleCache
<1>3. AnswersBacked'
  <2> SUFFICES ASSUME NEW g \in Workers, At(g, "set") PROVE Underway(g)'
      BY <1>1 DEF AnswersBacked, At
  <2>1. Underway(g) /\ now - handler[g].time < MaxLag
      BY DEF RoleInv, AnswersBacked, Tick
  <2>2. handler'[g] = handler[g] /\ handler[g].time <= now' /\ now' - handler[g].time <= MaxLag
      BY <1>1, <2>1, Constants DEF Underway
  <2> QED BY <1>1, <2>1, <2>2 DEF Underway, Backed, people
<1>4. CachedBacked'
  <2> SUFFICES ASSUME NEW u \in Users, NEW a \in cached[u]
               PROVE  a.until - TTL <= now' /\ Backed(u, a.allowed, a.until - TTL - MaxLag)'
      BY <1>1 DEF CachedBacked, roleCache
  <2>1. a.until \in Int
      BY DEF RoleInv, RoleTypes, Answer
  <2>2. a.until - TTL <= now /\ Backed(u, a.allowed, a.until - TTL - MaxLag)
      BY DEF RoleInv, CachedBacked
  <2>3. a.until - TTL <= now'
      BY <1>1, <2>1, <2>2, Constants
  <2> QED BY <1>1, <2>2, <2>3 DEF Backed, people
<1> QED BY <1>1, <1>2, <1>3, <1>4 DEF RoleInv, Asked, At, RoleIsRecent, roleCache

(* Every step keeps the invariant. *)
LEMMA RoleStep == RoleInv /\ [Next]_vars => RoleInv'
<1> SUFFICES ASSUME RoleInv, [Next]_vars PROVE RoleInv'
    OBVIOUS
<1>1. ASSUME UNCHANGED <<now, people, roleCache, handler>> PROVE RoleInv'
    BY <1>1 DEF people, roleCache, RoleInv, RoleTypes, Shape, Asked, AnswersBacked, Underway,
                CachedBacked, Backed, RoleIsRecent, At
<1>2. CASE UNCHANGED vars \/ BeginCleanup \/ Cleanup
    BY <1>1, <1>2 DEF vars, BeginCleanup, Cleanup, Quiet, roleCache
<1>3. ASSUME NEW h \in Workers,
             \/ \E u \in Users : ReceiveReport(h, u)
             \/ Allow(h) \/ Forward(h) \/ Post(h) \/ Load(h)
             \/ Ban(h) \/ Delete(h) \/ Strike(h) \/ Edit(h)
      PROVE  RoleInv'
  <2>1. Shape /\ cached \in [Users -> SUBSET Answer]
      BY DEF RoleInv, RoleTypes
  <2>2. /\ Shape' /\ \A g \in Workers \ {h} : handler'[g] = handler[g]
        /\ ~At(h, "evict")' /\ ~At(h, "ask")' /\ ~At(h, "set")'
        /\ UNCHANGED <<now, people, roleCache>>
      BY <1>3, <2>1, NotAsking
  <2>3. ~rash'
      BY <2>2 DEF roleCache, RoleInv, RoleIsRecent
  <2> QED BY <2>1, <2>2, <2>3, RoleElsewhere DEF people, roleCache
<1>4. ASSUME NEW h \in Workers,
             \/ \E u \in Users, want \in Wants : Begin(h, u, want)
             \/ Evict(h) \/ Ask(h) \/ Set(h)
      PROVE  RoleInv'
    BY <1>4, RoleBegin, RoleEvict, RoleAsk, RoleSet
<1>5. CASE Restart
  <2>1. /\ UNCHANGED <<now, people, rash>> /\ cached' = [u \in Users |-> {}]
        /\ Shape' /\ \A h \in Workers : handler'[h] = Idle
      BY <1>5, RestartIdles DEF Restart
  <2> QED BY <2>1 DEF people, RoleInv, RoleTypes, Asked, AnswersBacked, CachedBacked,
                      RoleIsRecent, At, Idle
<1> QED BY <1>2, <1>3, <1>4, <1>5, RoleChange, RoleTick DEF Next

(* A decision about an administrator has a reason no older than the cache's *)
(* life and the wait for Telegram.                                          *)
THEOREM RolesAreRecent == Spec => []RoleIsRecent
<1>1. RoleInv => RoleIsRecent
    BY DEF RoleInv
<1> QED BY <1>1, RoleInit, RoleStep, PTL DEF Spec

----------------------------------------------------------------------------
(* What the log channel may be told of report r. *)
Banned(r) == "banned" \in report[r].done
Struck(r) == "struck" \in report[r].done \/ r \in missed

(* A worker that is about to tell it has done it. *)
Telling(h) ==
  \A r \in Reports : handler[h].report = r =>
    (At(h, "editBanned") => Banned(r)) /\ (At(h, "editStruck") => Struck(r))

Sayings == {"nothing", "forwarded", "report", "banned", "struck"}
Told == [says : Sayings, done : SUBSET {"banned", "struck"}]
PostTypes == Shape /\ report \in [Reports -> Told]
SaidInv == PostTypes /\ (\A h \in Workers : Telling(h)) /\ SaidIsDone

(* At the start nothing is told. *)
LEMMA SaidInit == Init => SaidInv
<1> SUFFICES ASSUME Init PROVE SaidInv
    OBVIOUS
<1>1. NoPost \in Told
    BY DEF NoPost, Told, Sayings
<1>2. PostTypes
    BY <1>1 DEF Init, PostTypes, Shape
<1>3. \A h \in Workers : handler[h].at = "idle"
    BY DEF Init, Idle
<1>4. \A r \in Reports : report[r].says = "nothing"
    BY DEF Init, NoPost
<1> QED BY <1>2, <1>3, <1>4 DEF SaidInv, Telling, SaidIsDone, At

(* What is done stays done, and is said only by one that did it. *)
LEMMA SaidElsewhere ==
  ASSUME SaidInv, PostTypes', NEW h \in Workers,
         \A g \in Workers \ {h} : handler'[g] = handler[g], Telling(h)',
         missed \subseteq missed',
         \A r \in Reports :
           /\ report[r].done \subseteq report'[r].done
           /\ \/ report'[r].says = report[r].says \/ report'[r].says \notin {"banned", "struck"}
              \/ report'[r].says = "banned" /\ Banned(r)
              \/ report'[r].says = "struck" /\ Struck(r)
  PROVE  SaidInv'
<1>1. \A r \in Reports : (Banned(r) => Banned(r)') /\ (Struck(r) => Struck(r)')
    BY DEF Banned, Struck
<1>2. \A g \in Workers : Telling(g)'
    BY <1>1 DEF SaidInv, Telling, At
<1>3. SaidIsDone'
    BY <1>1 DEF SaidInv, SaidIsDone, Banned, Struck
<1> QED BY <1>2, <1>3 DEF SaidInv

(* The steps after which the worker tells nothing. *)
LEMMA NotTelling ==
  ASSUME Shape, NEW h \in Workers,
         \/ \E u \in Users : ReceiveReport(h, u) \/ \E want \in Wants : Begin(h, u, want)
         \/ Allow(h) \/ Forward(h) \/ Post(h)
         \/ Evict(h) \/ Ask(h) \/ Set(h) \/ Load(h) \/ Delete(h) \/ Edit(h)
  PROVE  /\ Shape' /\ \A g \in Workers \ {h} : handler'[g] = handler[g]
         /\ Telling(h)' /\ UNCHANGED missed
<1>1. UNCHANGED missed
    BY DEF ReceiveReport, Begin, Allow, Forward, Post, Evict, Ask, Set, Load, Delete, Edit, posts
<1> DEFINE Out(s) == s.at # "editBanned" /\ s.at # "editStruck"
<1>2. \E s : Go(h, s) /\ Out(s)
  <2>1. /\ Out(Idle) /\ \A r : Out(Posting(r)) /\ \A distance : Out(Forwarding(distance))
        /\ \A u, t : Out(Reporting(u, t)) /\ \A want : Out(Loading(want))
        /\ \A u, want, ok : /\ Out(Asking("ask", u, want)) /\ Out(Asking("evict", u, want))
                            /\ Out(Knowing(u, want, ok))
        /\ \A step, r, whole :
             step # "editBanned" /\ step # "editStruck" => Out(Acting(step, r, whole))
      BY DEF Idle, Posting, Forwarding, Reporting, Loading, Asking, Knowing, Acting
  <2> HIDE DEF Out
  <2>2. CASE \/ Forward(h) \/ Post(h) \/ Edit(h) \/ Allow(h)
             \/ \E u \in Users : ReceiveReport(h, u)
      BY <2>1, <2>2 DEF Forward, Post, Edit, Allow, ReceiveReport
  <2>3. CASE Load(h) \/ Delete(h)
      BY <2>1, <2>3 DEF Load, Delete
  <2>4. CASE Evict(h) \/ Ask(h)
      BY <2>1, <2>4 DEF Evict, Ask
  <2>5. ASSUME NEW u, NEW want, NEW ok, Decide(h, u, want, ok) PROVE \E s : Go(h, s) /\ Out(s)
      BY <2>1, <2>5 DEF Decide
  <2>6. CASE Set(h)
      BY <2>5, <2>6 DEF Set
  <2>7. ASSUME NEW u \in Users, NEW want \in Wants, Begin(h, u, want)
        PROVE  \E s : Go(h, s) /\ Out(s)
      BY <2>1, <2>5, <2>7 DEF Begin
  <2> QED BY <2>2, <2>3, <2>4, <2>6, <2>7
<1> QED BY <1>1, <1>2, Goes DEF Telling, At

(* One more thing is done. *)
LEMMA DoneGrows ==
  ASSUME report \in [Reports -> Told], NEW r, NEW what \in {"banned", "struck"},
         report' = [report EXCEPT ![r].done = @ \cup {what}]
  PROVE  /\ report' \in [Reports -> Told]
         /\ \A x \in Reports : /\ report[x].done \subseteq report'[x].done
                               /\ report'[x].says = report[x].says
                               /\ x = r => what \in report'[x].done
<1> SUFFICES ASSUME NEW x \in Reports
             PROVE  /\ report'[x] \in Told
                    /\ report[x].done \subseteq report'[x].done
                    /\ report'[x].says = report[x].says
                    /\ x = r => what \in report'[x].done
    OBVIOUS
<1>1. report[x] \in Told
    OBVIOUS
<1>2. CASE x # r
    BY <1>1, <1>2
<1>3. CASE x = r
  <2>1. report'[x] = [report[x] EXCEPT !.done = @ \cup {what}]
      BY <1>3
  <2> QED BY <1>1, <2>1 DEF Told
<1> QED BY <1>2, <1>3

(* The ban and the strike: what is told next was done, or missed. *)
LEMMA SaidActs ==
  ASSUME SaidInv, NEW h \in Workers, Ban(h) \/ Strike(h)
  PROVE  SaidInv'
<1>1. PICK r : r = handler[h].report
    OBVIOUS
<1>2. Shape /\ report \in [Reports -> Told]
    BY DEF SaidInv, PostTypes
<1>3. CASE Ban(h)
  <2>1. /\ UNCHANGED missed
        /\ \/ /\ report' = [report EXCEPT ![r].done = @ \cup {"banned"}]
              /\ Go(h, Acting("editBanned", r, TRUE))
           \/ Go(h, Idle) /\ UNCHANGED report
      BY <1>1, <1>3 DEF Ban
  <2>2. /\ report' \in [Reports -> Told] /\ missed \subseteq missed'
        /\ \A x \in Reports : /\ report[x].done \subseteq report'[x].done
                              /\ report'[x].says = report[x].says
      BY <1>2, <2>1, DoneGrows
  <2>3. PostTypes' /\ \A g \in Workers \ {h} : handler'[g] = handler[g]
      BY <1>2, <2>1, <2>2, Goes DEF PostTypes
  <2>4. Telling(h)'
    <3>1. CASE Go(h, Idle)
      <4>1. handler'[h].at = "idle"
          BY <1>2, <3>1, Goes DEF Idle
      <4> QED BY <4>1 DEF Telling, At
    <3>2. CASE /\ report' = [report EXCEPT ![r].done = @ \cup {"banned"}]
               /\ Go(h, Acting("editBanned", r, TRUE))
      <4>1. handler'[h].at = "editBanned" /\ handler'[h].report = r
          BY <1>2, <3>2, Goes DEF Acting
      <4> QED BY <1>2, <3>2, <4>1, DoneGrows DEF Telling, At, Banned
    <3> QED BY <2>1, <3>1, <3>2
  <2> QED BY <2>2, <2>3, <2>4, SaidElsewhere
<1>4. CASE Strike(h)
  <2>1. /\ Go(h, Acting("editStruck", r, TRUE))
        /\ \/ /\ report' = [report EXCEPT ![r].done = @ \cup {"struck"}]
              /\ UNCHANGED missed
           \/ missed' = missed \cup {r} /\ UNCHANGED report
      BY <1>1, <1>4 DEF Strike
  <2>2. /\ report' \in [Reports -> Told] /\ missed \subseteq missed'
        /\ \A x \in Reports : /\ report[x].done \subseteq report'[x].done
                              /\ report'[x].says = report[x].says
      BY <1>2, <2>1, DoneGrows
  <2>3. /\ PostTypes' /\ \A g \in Workers \ {h} : handler'[g] = handler[g]
        /\ handler'[h].at = "editStruck" /\ handler'[h].report = r
      BY <1>2, <2>1, <2>2, Goes DEF PostTypes, Acting
  <2>4. \A x \in Reports : x = r => Struck(x)'
      BY <1>2, <2>1, DoneGrows DEF Struck
  <2>5. Telling(h)'
      BY <2>3, <2>4 DEF Telling, At
  <2> QED BY <2>2, <2>3, <2>5, SaidElsewhere
<1> QED BY <1>3, <1>4

(* The messages in the log channel. *)
LEMMA SaidPosts ==
  ASSUME SaidInv, NEW h \in Workers, Forward(h) \/ Post(h) \/ Edit(h)
  PROVE  SaidInv'
<1>1. Shape /\ report \in [Reports -> Told]
    BY DEF SaidInv, PostTypes
<1>2. /\ Shape' /\ \A g \in Workers \ {h} : handler'[g] = handler[g]
      /\ Telling(h)' /\ UNCHANGED missed
    BY <1>1, NotTelling
<1>3. PICK r, says :
        /\ report' = [report EXCEPT ![r].says = says] \/ UNCHANGED report
        /\ \/ says \in {"forwarded", "report"}
           \/ says = "banned" /\ At(h, "editBanned") /\ r = handler[h].report
           \/ says = "struck" /\ At(h, "editStruck") /\ r = handler[h].report
  <2>1. CASE Forward(h)
    <3>1. \/ \E r \in Reports : report' = [report EXCEPT ![r].says = "forwarded"]
          \/ UNCHANGED report
        BY <2>1 DEF Forward
    <3> QED BY <3>1
  <2>2. CASE Post(h)
      BY <2>2 DEF Post
  <2>3. CASE Edit(h)
      BY <2>3 DEF Edit
  <2> QED BY <2>1, <2>2, <2>3
<1>4. PostTypes'
  <2>1. says \in Sayings
      BY <1>3 DEF Sayings
  <2> QED BY <1>1, <1>2, <1>3, <2>1 DEF PostTypes, Told
<1>5. \A x \in Reports :
        /\ report[x].done \subseteq report'[x].done
        /\ \/ report'[x].says = report[x].says \/ report'[x].says \notin {"banned", "struck"}
           \/ report'[x].says = "banned" /\ Banned(x)
           \/ report'[x].says = "struck" /\ Struck(x)
  <2> SUFFICES ASSUME NEW x \in Reports PROVE <1>5!(x)
      OBVIOUS
  <2>1. report'[x].done = report[x].done
      BY <1>1, <1>3 DEF Told
  <2>2. report'[x].says = report[x].says \/ (x = r /\ report'[x].says = says)
      BY <1>1, <1>3 DEF Told
  <2>3. Telling(h)
      BY DEF SaidInv
  <2> QED BY <1>3, <2>1, <2>2, <2>3 DEF Telling
<1> QED BY <1>2, <1>4, <1>5, SaidElsewhere

(* Every step keeps the invariant. *)
LEMMA SaidStep == SaidInv /\ [Next]_vars => SaidInv'
<1> SUFFICES ASSUME SaidInv, [Next]_vars PROVE SaidInv'
    OBVIOUS
<1>1. ASSUME UNCHANGED <<posts, handler>> PROVE SaidInv'
    BY <1>1 DEF posts, SaidInv, PostTypes, Shape, Telling, Banned, Struck, SaidIsDone, At
<1>2. CASE UNCHANGED vars \/ BeginCleanup \/ Cleanup \/ Tick \/ \E u \in Users : ChangeRole(u)
    BY <1>1, <1>2 DEF vars, BeginCleanup, Cleanup, Tick, ChangeRole
<1>3. ASSUME NEW h \in Workers,
             \/ \E u \in Users : ReceiveReport(h, u) \/ \E want \in Wants : Begin(h, u, want)
             \/ Allow(h) \/ Evict(h) \/ Ask(h) \/ Set(h) \/ Load(h) \/ Delete(h)
      PROVE  SaidInv'
  <2>1. Shape
      BY DEF SaidInv, PostTypes
  <2>2. UNCHANGED report
      BY <1>3 DEF ReceiveReport, Begin, Allow, Evict, Ask, Set, Load, Delete, posts
  <2>3. /\ Shape' /\ \A g \in Workers \ {h} : handler'[g] = handler[g]
        /\ Telling(h)' /\ UNCHANGED missed
      BY <1>3, <2>1, NotTelling
  <2>4. PostTypes'
      BY <2>2, <2>3 DEF SaidInv, PostTypes
  <2> QED BY <2>2, <2>3, <2>4, SaidElsewhere
<1>4. ASSUME NEW h \in Workers, Forward(h) \/ Post(h) \/ Ban(h) \/ Strike(h) \/ Edit(h)
      PROVE  SaidInv'
    BY <1>4, SaidPosts, SaidActs
<1>5. CASE Restart
  <2>1. UNCHANGED posts /\ Shape' /\ \A h \in Workers : handler'[h].at = "idle"
      BY <1>5, RestartIdles DEF Restart, Idle
  <2>2. \A h \in Workers : Telling(h)'
      BY <2>1 DEF Telling, At
  <2> QED BY <2>1, <2>2 DEF posts, SaidInv, PostTypes, SaidIsDone
<1> QED BY <1>2, <1>3, <1>4, <1>5 DEF Next

(* What the log channel is told of a report was done. *)
THEOREM WhatIsSaidIsDone == Spec => []SaidIsDone
<1>1. SaidInv => SaidIsDone
    BY DEF SaidInv
<1> QED BY <1>1, SaidInit, SaidStep, PTL DEF Spec
----------------------------------------------------------------------------
(* The types of what the proofs above do not rest on: the counters and the  *)
(* clock keep to their bounds, whoever is asked about is a user, whatever   *)
(* is acted on a report, and there is one of each thing that is kept.       *)
BoundType ==
  /\ now \in 0 .. Horizon /\ roles \in 0 .. MaxRoles
  /\ faults \in 0 .. MaxFaults /\ crashes \in 0 .. MaxCrashes

Doing(d) ==
  \/ d = Idle
  \/ \E u \in Users, t \in Nat : d = Reporting(u, t)
  \/ \E distance \in Int : d = Forwarding(distance)
  \/ \E r \in Reports : d = Posting(r)
  \/ \E step \in {"evict", "ask"}, u \in Users, want \in Wants : d = Asking(step, u, want)
  \/ \E u \in Users, want \in Wants, ok \in BOOLEAN, t \in Nat :
       d = [at |-> "set", user |-> u, want |-> want, allowed |-> ok, time |-> t]
  \/ \E want \in Wants \ {Message} : d = Loading(want)
  \/ \E step \in {"ban", "delete", "strike", "editBanned", "editStruck"} :
       \E r \in Reports, whole \in BOOLEAN : d = Acting(step, r, whole)
HandlerType == Shape /\ \A h \in Workers : Doing(handler[h])

AtMostOne(S) == \A a, b \in S : a = b
KeptType ==
  /\ admins \in SUBSET Users /\ missed \in SUBSET Reports /\ rash \in BOOLEAN
  /\ AtMostOne(sweeping)
  /\ \A u \in Users : AtMostOne(cached[u]) /\ AtMostOne(nextAllowed[u])

OtherTypes == BoundType /\ HandlerType /\ KeptType

TypeOK == LimiterTypes /\ RoleTypes /\ PostTypes /\ OtherTypes

(* What a worker's state has, by where it is. *)
LEMMA DoingHas ==
  ASSUME NEW d, Doing(d)
  PROVE  /\ d.at = "allow" => d.user \in Users /\ d.time \in Nat
         /\ d.at \in {"evict", "ask", "set"} => d.user \in Users /\ d.want \in Wants
         /\ d.at = "set" => d.allowed \in BOOLEAN
         /\ d.at = "load" => d.want \in Wants \ {Message}
         /\ d.at \in {"post", "ban", "delete", "strike", "editBanned", "editStruck"}
              => d.report \in Reports
<1>1. d = Idle => d.at = "idle"
    BY DEF Idle
<1>2. ASSUME NEW u \in Users, NEW t \in Nat, d = Reporting(u, t)
      PROVE  d.at = "allow" /\ d.user \in Users /\ d.time \in Nat
    BY <1>2 DEF Reporting
<1>3. ASSUME NEW distance \in Int, d = Forwarding(distance) PROVE d.at = "forward"
    BY <1>3 DEF Forwarding
<1>4. ASSUME NEW r \in Reports, d = Posting(r) PROVE d.at = "post" /\ d.report \in Reports
    BY <1>4 DEF Posting
<1>5. ASSUME NEW step \in {"evict", "ask"}, NEW u \in Users, NEW want \in Wants, d = Asking(step, u, want)
      PROVE  d.at \in {"evict", "ask"} /\ d.user \in Users /\ d.want \in Wants
    BY <1>5 DEF Asking
<1>6. ASSUME NEW u \in Users, NEW want \in Wants, NEW ok \in BOOLEAN, NEW t \in Nat,
             d = [at |-> "set", user |-> u, want |-> want, allowed |-> ok, time |-> t]
      PROVE  d.at = "set" /\ d.user \in Users /\ d.want \in Wants /\ d.allowed \in BOOLEAN
    BY <1>6
<1>7. ASSUME NEW want \in Wants \ {Message}, d = Loading(want)
      PROVE  d.at = "load" /\ d.want \in Wants \ {Message}
    BY <1>7 DEF Loading
<1>8. ASSUME NEW step \in {"ban", "delete", "strike", "editBanned", "editStruck"},
             NEW r \in Reports, NEW whole \in BOOLEAN, d = Acting(step, r, whole)
      PROVE  d.at \in {"ban", "delete", "strike", "editBanned", "editStruck"} /\ d.report \in Reports
    BY <1>8 DEF Acting
<1>9. \/ d.at = "idle" \/ d.at = "forward"
      \/ d.at = "allow" /\ d.user \in Users /\ d.time \in Nat
      \/ d.at = "post" /\ d.report \in Reports
      \/ d.at \in {"evict", "ask"} /\ d.user \in Users /\ d.want \in Wants
      \/ d.at = "set" /\ d.user \in Users /\ d.want \in Wants /\ d.allowed \in BOOLEAN
      \/ d.at = "load" /\ d.want \in Wants \ {Message}
      \/ d.at \in {"ban", "delete", "strike", "editBanned", "editStruck"} /\ d.report \in Reports
    BY <1>1, <1>2, <1>3, <1>4, <1>5, <1>6, <1>7, <1>8, Zenon DEF Doing
<1> QED BY <1>9

(* A button that was pressed is under a report. *)
LEMMA PressIsOfReport == \A want \in Wants \ {Message} : want.report \in Reports
<1> SUFFICES ASSUME NEW want \in Wants, want # Message PROVE want.report \in Reports
    OBVIOUS
<1>1. PICK r \in Reports, action \in {"ban", "strike"} : want = Press(r, action)
    BY DEF Wants
<1> QED BY <1>1 DEF Press

(* A worker goes on to something it may do. *)
Proceeds(h) == \E d : Go(h, d) /\ Doing(d)

WorkerStep(h) ==
  \/ \E u \in Users : ReceiveReport(h, u) \/ \E want \in Wants : Begin(h, u, want)
  \/ Allow(h) \/ Forward(h) \/ Post(h)
  \/ Evict(h) \/ Ask(h) \/ Set(h) \/ Load(h)
  \/ Ban(h) \/ Delete(h) \/ Strike(h) \/ Edit(h)

LEMMA WorkerProceeds ==
  ASSUME TypeOK, NEW h \in Workers, WorkerStep(h)
  PROVE  Proceeds(h)
<1> DEFINE d == handler[h]
<1>1. /\ now \in Nat /\ last \in [Users -> Int] /\ cached \in [Users -> SUBSET Answer]
      /\ admins \in SUBSET Users /\ Doing(d)
    BY DEF TypeOK, LimiterTypes, RoleTypes, OtherTypes, HandlerType, KeptType
<1>2. Doing(Idle) /\ TRUE \in BOOLEAN /\ FALSE \in BOOLEAN
    BY DEF Doing
<1>3. Go(h, Idle) => Proceeds(h)
    BY <1>2, Zenon DEF Proceeds
<1>4. ASSUME NEW u \in Users, ReceiveReport(h, u) PROVE Proceeds(h)
  <2>1. Doing(Reporting(u, now))
      BY <1>1, Zenon DEF Doing
  <2> QED BY <1>4, <2>1, Zenon DEF ReceiveReport, Proceeds
<1>5. CASE Allow(h)
  <2>1. d.user \in Users /\ d.time \in Nat
      BY <1>1, <1>5, DoingHas DEF Allow, At
  <2>2. d.time - last[d.user] \in Int
      BY <1>1, <2>1
  <2>3. Doing(Forwarding(d.time - last[d.user]))
      BY <2>2, Zenon DEF Doing
  <2>4. Go(h, Idle) \/ Go(h, Forwarding(d.time - last[d.user]))
      BY <1>5 DEF Allow
  <2> QED BY <1>3, <2>3, <2>4, Zenon DEF Proceeds
<1>6. CASE Forward(h) \/ Post(h) \/ Edit(h)
  <2>1. \A r \in Reports : Doing(Posting(r))
      BY Zenon DEF Doing
  <2>2. Go(h, Idle) \/ \E r \in Reports : Go(h, Posting(r))
      BY <1>6 DEF Forward, Post, Edit
  <2> QED BY <1>3, <2>1, <2>2, Zenon DEF Proceeds
<1>7. ASSUME NEW u, NEW want \in Wants, NEW ok, Decide(h, u, want, ok) PROVE Proceeds(h)
  <2>1. want # Message => Doing(Loading(want))
      BY Zenon DEF Doing
  <2>2. Go(h, Idle) \/ (want # Message /\ Go(h, Loading(want)))
      BY <1>7 DEF Decide
  <2> QED BY <1>3, <2>1, <2>2, Zenon DEF Proceeds
<1>8. ASSUME NEW step \in {"evict", "ask"}, NEW u \in Users, NEW want \in Wants,
             Go(h, Asking(step, u, want))
      PROVE  Proceeds(h)
  <2>1. Doing(Asking(step, u, want))
      BY Zenon DEF Doing
  <2> QED BY <1>8, <2>1, Zenon DEF Proceeds
<1>9. ASSUME NEW u \in Users, NEW want \in Wants, Begin(h, u, want) PROVE Proceeds(h)
    BY <1>7, <1>8, <1>9 DEF Begin
<1>10. CASE Evict(h)
  <2>1. d.user \in Users /\ d.want \in Wants
      BY <1>1, <1>10, DoingHas DEF Evict, At
  <2>2. Go(h, Asking("ask", d.user, d.want))
      BY <1>10 DEF Evict
  <2> QED BY <1>8, <2>1, <2>2
<1>11. CASE Ask(h)
  <2>1. d.user \in Users /\ d.want \in Wants
      BY <1>1, <1>11, DoingHas DEF Ask, At
  <2>2. \E ok \in BOOLEAN : Go(h, Knowing(d.user, d.want, ok))
    <3>1. Go(h, Knowing(d.user, d.want, d.user \in admins)) \/ Go(h, Knowing(d.user, d.want, FALSE))
        BY <1>11 DEF Ask
    <3>2. (d.user \in admins) \in BOOLEAN
        OBVIOUS
    <3> QED BY <1>2, <3>1, <3>2, Zenon
  <2>3. ASSUME NEW ok \in BOOLEAN PROVE Doing(Knowing(d.user, d.want, ok))
    <3>1. Knowing(d.user, d.want, ok)
            = [at |-> "set", user |-> d.user, want |-> d.want, allowed |-> ok, time |-> now]
        BY DEF Knowing
    <3> QED BY <1>1, <2>1, <3>1, Zenon DEF Doing
  <2> QED BY <2>2, <2>3, Zenon DEF Proceeds
<1>12. CASE Set(h)
  <2>1. d.want \in Wants
      BY <1>1, <1>12, DoingHas DEF Set, At
  <2>2. Decide(h, d.user, d.want, d.allowed)
      BY <1>12 DEF Set
  <2> QED BY <1>7, <2>1, <2>2
<1>13. ASSUME NEW step \in {"ban", "delete", "strike", "editBanned", "editStruck"},
              NEW r \in Reports, NEW whole \in BOOLEAN, Go(h, Acting(step, r, whole))
       PROVE  Proceeds(h)
  <2>1. Doing(Acting(step, r, whole))
      BY Zenon DEF Doing
  <2> QED BY <1>13, <2>1, Zenon DEF Proceeds
<1>14. CASE Load(h)
  <2>1. d.want \in Wants \ {Message}
      BY <1>1, <1>14, DoingHas DEF Load, At
  <2>2. d.want.report \in Reports
      BY <2>1, PressIsOfReport
  <2>3. Go(h, Idle) \/ \E step \in {"ban", "delete"} : Go(h, Acting(step, d.want.report, TRUE))
      BY <1>14 DEF Load
  <2> QED BY <1>2, <1>3, <1>13, <2>2, <2>3
<1>15. CASE Ban(h) \/ Delete(h) \/ Strike(h)
  <2>1. d.report \in Reports
      BY <1>1, <1>15, DoingHas DEF Ban, Delete, Strike, At
  <2>2. \/ Go(h, Idle)
        \/ \E step \in {"editBanned", "strike", "editStruck"}, whole \in BOOLEAN :
             Go(h, Acting(step, d.report, whole))
      BY <1>2, <1>15 DEF Ban, Delete, Strike
  <2> QED BY <1>3, <1>13, <2>1, <2>2
<1> QED BY <1>4, <1>5, <1>6, <1>9, <1>10, <1>11, <1>12, <1>14, <1>15 DEF WorkerStep

(* The counters and the clock. *)
LEMMA BoundStep == BoundType /\ [Next]_vars => BoundType'
<1> SUFFICES ASSUME BoundType, [Next]_vars PROVE BoundType'
    OBVIOUS
<1>1. /\ Horizon \in Nat /\ MaxRoles \in Nat /\ MaxFaults \in Nat /\ MaxCrashes \in Nat
    BY ReportAssumption
<1>2. Works \/ Fails
    BY DEF Next, ChangeRole, ReceiveReport, Begin, Allow, Forward, Post, Evict, Ask, Set, Load, Ban,
           Delete, Strike, Edit, BeginCleanup, Cleanup, Restart, Tick, vars, Works
<1>3. UNCHANGED now \/ (now < Horizon /\ now' = now + 1)
    BY DEF Next, ChangeRole, ReceiveReport, Begin, Allow, Forward, Post, Evict, Ask, Set, Load, Ban,
           Delete, Strike, Edit, BeginCleanup, Cleanup, Restart, Tick, vars, Quiet
<1>4. UNCHANGED crashes \/ (crashes < MaxCrashes /\ crashes' = crashes + 1)
    BY DEF Next, ChangeRole, ReceiveReport, Begin, Allow, Forward, Post, Evict, Ask, Set, Load, Ban,
           Delete, Strike, Edit, BeginCleanup, Cleanup, Restart, Tick, vars, Quiet
<1>5. UNCHANGED roles \/ (roles < MaxRoles /\ roles' = roles + 1)
    BY DEF Next, ChangeRole, ReceiveReport, Begin, Allow, Forward, Post, Evict, Ask, Set, Load, Ban,
           Delete, Strike, Edit, BeginCleanup, Cleanup, Restart, Tick, vars, people
<1> QED BY <1>1, <1>2, <1>3, <1>4, <1>5 DEF BoundType, Works, Fails

(* The workers. *)
LEMMA HandlerTypeStep == TypeOK /\ [Next]_vars => HandlerType'
<1> SUFFICES ASSUME TypeOK, [Next]_vars PROVE HandlerType'
    OBVIOUS
<1>1. Shape /\ \A h \in Workers : Doing(handler[h])
    BY DEF TypeOK, OtherTypes, HandlerType
<1>2. ASSUME NEW h \in Workers, WorkerStep(h) PROVE HandlerType'
  <2>1. PICK d : Go(h, d) /\ Doing(d)
      BY <1>2, WorkerProceeds DEF Proceeds
  <2>2. Shape' /\ handler'[h] = d /\ \A g \in Workers \ {h} : handler'[g] = handler[g]
      BY <1>1, <2>1, Goes
  <2>3. \A g \in Workers : Doing(handler'[g])
      BY <1>1, <2>1, <2>2
  <2> QED BY <2>2, <2>3 DEF HandlerType, Doing
<1>3. CASE \/ \E u \in Users : ChangeRole(u)
           \/ BeginCleanup \/ Cleanup \/ Tick \/ UNCHANGED vars
  <2>1. UNCHANGED handler
      BY <1>3 DEF ChangeRole, BeginCleanup, Cleanup, Tick, vars
  <2> QED BY <1>1, <2>1 DEF HandlerType, Shape, Doing
<1>4. CASE Restart
  <2>1. Shape' /\ \A h \in Workers : handler'[h] = Idle
      BY <1>4, RestartIdles
  <2> QED BY <2>1 DEF HandlerType, Doing
<1> QED BY <1>2, <1>3, <1>4 DEF Next, WorkerStep

(* What is kept of each user and report. *)
LEMMA KeptStep == TypeOK /\ [Next]_vars => KeptType'
<1> SUFFICES ASSUME TypeOK, [Next]_vars PROVE KeptType'
    OBVIOUS
<1>1. /\ admins \in SUBSET Users /\ missed \in SUBSET Reports /\ rash \in BOOLEAN
      /\ AtMostOne(sweeping)
      /\ \A u \in Users : AtMostOne(cached[u]) /\ AtMostOne(nextAllowed[u])
      /\ cached \in [Users -> SUBSET Answer] /\ nextAllowed \in [Users -> SUBSET Int]
      /\ \A h \in Workers : Doing(handler[h])
    BY DEF TypeOK, OtherTypes, KeptType, RoleTypes, LimiterTypes, HandlerType
<1>2. admins' \in SUBSET Users
    BY <1>1 DEF Next, ChangeRole, ReceiveReport, Begin, Allow, Forward, Post, Evict, Ask, Set, Load, Ban,
                Delete, Strike, Edit, BeginCleanup, Cleanup, Restart, Tick, vars, people
<1>3. missed' \in SUBSET Reports
  <2>1. ASSUME NEW h \in Workers, Strike(h) PROVE missed' \in SUBSET Reports
    <3>1. handler[h].report \in Reports
        BY <1>1, <2>1, DoingHas DEF Strike, At
    <3> QED BY <1>1, <2>1, <3>1 DEF Strike
  <2>2. (\E h \in Workers : Strike(h)) \/ missed' = missed
      BY DEF Next, ChangeRole, ReceiveReport, Begin, Allow, Forward, Post, Evict, Ask, Set, Load, Ban,
             Delete, Edit, BeginCleanup, Cleanup, Restart, Tick, vars, posts
  <2> QED BY <1>1, <2>1, <2>2
<1>4. rash' \in BOOLEAN
  <2>1. ASSUME NEW h, NEW u, NEW want, NEW ok, Decide(h, u, want, ok) PROVE rash' \in BOOLEAN
    <3>1. rash' = (rash \/ ~Founded(u, ok))
        BY <2>1, Zenon DEF Decide
    <3> QED BY <3>1, Zenon
  <2>2. \/ rash' = rash
        \/ \E h \in Workers : \E u, want, ok : Decide(h, u, want, ok)
    <3>1. ASSUME NEW h \in Workers, NEW u \in Users, NEW want \in Wants, Begin(h, u, want)
          PROVE  rash' = rash \/ \E ok : Decide(h, u, want, ok)
        BY <3>1, Zenon DEF Begin
    <3>2. ASSUME NEW h \in Workers, Set(h) PROVE \E u, want, ok : Decide(h, u, want, ok)
        BY <3>2, Zenon DEF Set
    <3>3. \/ rash' = rash
          \/ \E h \in Workers : Set(h) \/ \E u \in Users, want \in Wants : Begin(h, u, want)
        BY DEF Next, ChangeRole, ReceiveReport, Allow, Forward, Post, Evict, Ask, Load, Ban,
               Delete, Strike, Edit, BeginCleanup, Cleanup, Restart, Tick, vars, roleCache
    <3> QED BY <3>1, <3>2, <3>3, Zenon
  <2> QED BY <1>1, <2>1, <2>2, Zenon
<1>5. AtMostOne(sweeping)'
  <2>1. sweeping' = sweeping \/ sweeping' = {} \/ sweeping' = {now}
      BY DEF Next, ChangeRole, ReceiveReport, Begin, Allow, Forward, Post, Evict, Ask, Set, Load, Ban,
             Delete, Strike, Edit, BeginCleanup, Cleanup, Restart, Tick, vars, limits
  <2> QED BY <1>1, <2>1 DEF AtMostOne
<1>6. ASSUME NEW u \in Users PROVE AtMostOne(cached[u])'
  <2>1. \/ cached' = cached \/ cached' = [v \in Users |-> {}]
        \/ \E v : cached' = [cached EXCEPT ![v] = {}]
        \/ \E v, a : cached' = [cached EXCEPT ![v] = {a}]
    <3>1. ASSUME NEW h \in Workers, Evict(h) \/ Set(h)
          PROVE  \E v : cached' = [cached EXCEPT ![v] = {}] \/ \E a : cached' = [cached EXCEPT ![v] = {a}]
        BY <3>1, Zenon DEF Evict, Set
    <3>2. \/ cached' = cached \/ cached' = [v \in Users |-> {}]
          \/ \E h \in Workers : Evict(h) \/ Set(h)
        BY DEF Next, ChangeRole, ReceiveReport, Begin, Allow, Forward, Post, Ask, Load, Ban,
               Delete, Strike, Edit, BeginCleanup, Cleanup, Restart, Tick, vars, roleCache
    <3> QED BY <3>1, <3>2, Zenon
  <2> QED BY <1>1, <2>1 DEF AtMostOne
<1>7. ASSUME NEW u \in Users PROVE AtMostOne(nextAllowed[u])'
  <2>1. ASSUME NEW h \in Workers, Allow(h) PROVE AtMostOne(nextAllowed[u])'
    <3>1. PICK v, n : nextAllowed' = nextAllowed \/ nextAllowed' = [nextAllowed EXCEPT ![v] = {n}]
        BY <2>1 DEF Allow
    <3> QED BY <1>1, <3>1 DEF AtMostOne
  <2>2. CASE Cleanup
    <3>1. nextAllowed'[u] \subseteq nextAllowed[u]
        BY <2>2 DEF Cleanup
    <3> QED BY <1>1, <3>1 DEF AtMostOne
  <2>3. \/ nextAllowed' = nextAllowed \/ nextAllowed' = [v \in Users |-> {}]
        \/ Cleanup \/ \E h \in Workers : Allow(h)
      BY DEF Next, ChangeRole, ReceiveReport, Begin, Forward, Post, Evict, Ask, Set, Load, Ban,
             Delete, Strike, Edit, BeginCleanup, Restart, Tick, vars, limits
  <2> QED BY <1>1, <2>1, <2>2, <2>3 DEF AtMostOne
<1> QED BY <1>2, <1>3, <1>4, <1>5, <1>6, <1>7 DEF KeptType

TypeInv == SpacingInv /\ RoleInv /\ SaidInv /\ OtherTypes

LEMMA TypesTogether == TypeInv => TypeOK
BY DEF TypeInv, TypeOK, SpacingInv, RoleInv, SaidInv

LEMMA TypesInit == Init => TypeInv
<1> SUFFICES ASSUME Init PROVE TypeInv
    OBVIOUS
<1>1. BoundType
    BY ReportAssumption DEF Init, BoundType
<1>2. HandlerType
    BY DEF Init, HandlerType, Shape, Doing
<1>3. KeptType
  <2>1. rash = FALSE
      BY Zenon DEF Init
  <2>2. rash \in BOOLEAN
      BY <2>1
  <2> QED BY <2>2 DEF Init, KeptType, AtMostOne
<1> QED BY <1>1, <1>2, <1>3, SpacingInit, RoleInit, SaidInit DEF TypeInv, OtherTypes

LEMMA TypesStep == TypeInv /\ [Next]_vars => TypeInv'
<1> SUFFICES ASSUME TypeInv, [Next]_vars PROVE TypeInv'
    OBVIOUS
<1>1. TypeOK /\ BoundType
    BY TypesTogether DEF TypeInv, OtherTypes
<1>2. SpacingInv' /\ RoleInv' /\ SaidInv'
    BY SpacingStep, RoleStep, SaidStep DEF TypeInv
<1> QED BY <1>1, <1>2, BoundStep, HandlerTypeStep, KeptStep DEF TypeInv, OtherTypes

(* The clock, the roles, the caches, the workers and the reports keep their *)
(* types under every step.                                                  *)
THEOREM TypeCorrect == Spec => []TypeOK
BY TypesTogether, TypesInit, TypesStep, PTL DEF Spec
=============================================================================
