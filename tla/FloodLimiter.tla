---------------------------- MODULE FloodLimiter ----------------------------
(***************************************************************************)
(* The flood limiter (FloodLimiter, internal/cache/cache.go) for one user  *)
(* of one chat: the update workers that report the user's messages to it   *)
(* (applyFloodLimiter, internal/bot/security.go), and the clean-up that    *)
(* memoryCleanupWorker runs against it (internal/bot/bot.go).              *)
(*                                                                         *)
(* A worker reads the clock and then waits for the limiter's lock, so that *)
(* messages may be added in another order than that of their times.  An    *)
(* edited message is reported again under the same id, so events carry a   *)
(* number of their own.  The map has no entry for the user exactly when    *)
(* events is empty and lastStrike is zero.                                 *)
(*                                                                         *)
(* log, strikes, late and last are history: all events ever added, the     *)
(* strikes decided, whether an event was added after a later one, and the  *)
(* last decision together with the event it was made on.                   *)
(***************************************************************************)
EXTENDS Integers, FiniteSets

CONSTANTS
  Ids,          \* message ids
  Limit,        \* BOT_FLOOD_LIMIT
  Window,       \* BOT_FLOOD_WINDOW, in clock ticks, and the strikes' cooldown
  MaxAge,       \* the five minutes of memoryCleanupWorker, in clock ticks
  MaxLag,       \* bound on the wait for the lock
  Horizon,      \* bound on the clock
  MaxMessages   \* bound on messages

ASSUME FloodAssumption ==
  /\ Limit \in Nat \ {0} /\ Window \in Nat \ {0} /\ MaxAge \in Nat \ {0}
  /\ MaxLag \in Nat /\ Horizon \in Nat /\ MaxMessages \in Nat

VARIABLES
  now,
  waiting,     \* events whose worker waits for the lock
  events,      \* entry.events
  lastStrike,  \* entry.lastStrike, Zero if there was none
  received,    \* messages so far
  log, strikes, late, last

floodVars == <<now, waiting, events, lastStrike, received, log, strikes, late, last>>
history == <<log, strikes, late, last>>

Event == [n : Nat, at : Nat, id : Ids]

Zero == -1

Quiet == [flooded |-> FALSE, strike |-> FALSE, ids |-> {}]

(* No decision yet counts as one on an event long past. *)
NoDecision == [event |-> [n |-> 0, at |-> 0], decision |-> Quiet]

FloodTypeOK ==
  /\ now \in Nat
  /\ waiting \subseteq Event /\ events \subseteq Event /\ log \subseteq Event
  /\ lastStrike \in Nat \cup {Zero}
  /\ received \in Nat
  /\ strikes \subseteq Nat
  /\ late \in BOOLEAN
  /\ \A e \in waiting \cup log : e.at <= now

FloodInit ==
  /\ now = 0
  /\ waiting = {} /\ events = {} /\ lastStrike = Zero /\ received = 0
  /\ log = {} /\ strikes = {} /\ late = FALSE /\ last = NoDecision

----------------------------------------------------------------------------

(* A message comes in, or is edited, and its worker reads the clock. *)
Receive(id) ==
  /\ received < MaxMessages
  /\ received' = received + 1
  /\ waiting' = waiting \cup {[n |-> received + 1, at |-> now, id |-> id]}
  /\ UNCHANGED <<now, events, lastStrike, history>>

After(set, cutoff) == {e \in set : e.at > cutoff}

(* The events that count with e: those the Add of e keeps, and e. *)
Counted(e) == After(events, e.at - Window) \cup {e}

ShouldStrike_Bug(e) ==  \* every flooded message strikes
  TRUE

ShouldStrike(e) == lastStrike = Zero \/ e.at - lastStrike >= Window

Decision_Bug(e) ==  \* the message itself is not counted
  IF Cardinality(Counted(e) \ {e}) <= Limit THEN Quiet
  ELSE [flooded |-> TRUE, strike |-> ShouldStrike(e), ids |-> {m.id : m \in Counted(e)}]

Decision(e) ==
  IF Cardinality(Counted(e)) <= Limit THEN Quiet
  ELSE [flooded |-> TRUE, strike |-> ShouldStrike(e), ids |-> {m.id : m \in Counted(e)}]

Add_Bug(e) ==  \* the cooldown starts although nobody was struck
  /\ e \in waiting
  /\ waiting' = waiting \ {e}
  /\ events' = Counted(e)
  /\ lastStrike' = IF ShouldStrike(e) THEN e.at ELSE lastStrike
  /\ log' = log \cup {e}
  /\ late' = (late \/ \E m \in log : m.at > e.at)
  /\ last' = [event |-> e, decision |-> Decision(e)]
  /\ strikes' = IF Decision(e).strike THEN strikes \cup {e.at} ELSE strikes
  /\ UNCHANGED <<now, received>>

Add(e) ==
  /\ e \in waiting
  /\ waiting' = waiting \ {e}
  /\ events' = Counted(e)
  /\ lastStrike' = IF Decision(e).strike THEN e.at ELSE lastStrike
  /\ log' = log \cup {e}
  /\ late' = (late \/ \E m \in log : m.at > e.at)
  /\ last' = [event |-> e, decision |-> Decision(e)]
  /\ strikes' = IF Decision(e).strike THEN strikes \cup {e.at} ELSE strikes
  /\ UNCHANGED <<now, received>>

(* CleanupOlderThan, which reads the clock before it waits for the lock: an *)
(* empty entry with an old strike goes, any other loses its old events.     *)
CleanupOlderThan(cutoff) ==
  /\ IF events = {} /\ lastStrike < cutoff
     THEN lastStrike' = Zero /\ UNCHANGED events
     ELSE events' = After(events, cutoff) /\ UNCHANGED lastStrike
  /\ UNCHANGED <<now, waiting, received, history>>

Tick ==
  /\ now < Horizon
  /\ \A e \in waiting : now < e.at + MaxLag
  /\ now' = now + 1
  /\ UNCHANGED <<waiting, events, lastStrike, received, history>>

FloodNext ==
  \/ \E id \in Ids : Receive(id)
  \/ \E e \in waiting : Add(e)
  \/ \E lag \in 0..MaxLag : CleanupOlderThan(now - lag - MaxAge)
  \/ Tick

FloodSpec == FloodInit /\ [][FloodNext]_floodVars

----------------------------------------------------------------------------
(* All messages within Window before the time of e, the pruned ones too. *)
Recent(e) == After(log, e.at - Window)

(* Whatever the order the workers get the lock in, a flood is only declared *)
(* over more than Limit messages that did come within Window, and only such *)
(* messages are deleted.  As long as messages are added in the order of     *)
(* their times, it is declared exactly then, and every one of them is       *)
(* deleted: pruning and clean-up make no difference.                        *)
(* README: "more than 5 messages in 3 seconds triggers deletion and a       *)
(* strike.  Configure flood behavior with" the limit and the window.        *)
DecisionIsExact ==
  last # NoDecision =>
    LET recent == Recent(last.event)
        ids == {m.id : m \in recent}
    IN  /\ last.decision.flooded =>
             Cardinality(recent) > Limit /\ last.decision.ids \subseteq ids
        /\ ~late =>
             /\ last.decision.flooded <=> Cardinality(recent) > Limit
             /\ last.decision.flooded => last.decision.ids = ids

(* One strike per Window: strikes are never closer, in any order of the     *)
(* messages and with any clean-up between them (the entry that remembers    *)
(* the last one may be gone), ...                                           *)
StrikesSpaced ==
  [][\A s \in strikes : strikes' # strikes => last'.event.at - s >= Window]_strikes

(* ... and a flood that does not strike follows one that did within Window, *)
(* or was overtaken by it.                                                  *)
FloodsStrike ==
  last.decision.flooded => \E s \in strikes : last.event.at < s + Window
=============================================================================
