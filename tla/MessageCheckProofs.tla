------------------------- MODULE MessageCheckProofs -------------------------
(***************************************************************************)
(* The safety of what runSecurityChecks goes by when a message comes in:   *)
(* FloodLimiter, for every limit, window, set of message ids and number of *)
(* messages; WordLists, for every set of words, instances and workers and  *)
(* every mix of loads, changes, failing calls and crashes; and MessageScan, *)
(* for every alphabet, every spelling of the words, every set of labels and *)
(* texts and hosts of any length.                                          *)
(* Where the clean-up of floods matters, the window and the longest wait   *)
(* for the lock together must not exceed the clean-up's age.               *)
(***************************************************************************)
EXTENDS FloodLimiter, MessageScan, FiniteSetTheorems, SequenceTheorems, WellFoundedInduction, TLAPS

AgeSuffices == Window + MaxLag <= MaxAge

(* The constants are numbers. *)
LEMMA FloodConstants ==
  /\ Limit \in Nat /\ Window \in Nat /\ Window >= 1 /\ MaxAge \in Nat
  /\ MaxLag \in Nat /\ Horizon \in Nat
BY FloodAssumption

(* The clean-up's cutoff. *)
LEMMA CutoffType ==
  ASSUME FloodTypeOK, NEW lag \in 0..MaxLag
  PROVE  now - lag - MaxAge \in Int /\ now - lag - MaxAge <= now - MaxAge
BY FloodConstants DEF FloodTypeOK

(* Init gives the types. *)
LEMMA FloodTypeInit == FloodInit => FloodTypeOK
<1> SUFFICES ASSUME FloodInit PROVE FloodTypeOK
  OBVIOUS
<1>1. late \in BOOLEAN
  BY Zenon DEF FloodInit
<1>2. /\ now \in Nat /\ received \in Nat /\ lastStrike \in Nat \cup {Zero}
      /\ waiting = {} /\ events = {} /\ log = {} /\ strikes = {}
  BY DEF FloodInit
<1> QED
  BY <1>1, <1>2 DEF FloodTypeOK

(* Every step keeps the types: one case per action. *)
LEMMA FloodTypeStep == FloodTypeOK /\ [FloodNext]_floodVars => FloodTypeOK'
<1> SUFFICES ASSUME FloodTypeOK, [FloodNext]_floodVars PROVE FloodTypeOK'
  OBVIOUS
<1>1. ASSUME NEW id \in Ids, Receive(id) PROVE FloodTypeOK'
  <2>1. [n |-> received + 1, at |-> now, id |-> id] \in Event
    BY DEF FloodTypeOK, Event
  <2> QED
    BY <1>1, <2>1 DEF Receive, FloodTypeOK, history
<1>2. ASSUME NEW e \in waiting, Add(e) PROVE FloodTypeOK'
  <2>1. e \in Event /\ e.at \in Nat /\ e.at <= now
    BY DEF FloodTypeOK, Event
  <2>2. events' \subseteq Event
    BY <1>2, <2>1 DEF Add, Counted, After, FloodTypeOK
  <2>3. lastStrike' \in Nat \cup {Zero} /\ strikes' \subseteq Nat
    BY <1>2, <2>1 DEF Add, FloodTypeOK
  <2>4. late' \in BOOLEAN
    BY <1>2, Zenon DEF Add
  <2> QED
    BY <1>2, <2>1, <2>2, <2>3, <2>4 DEF Add, FloodTypeOK
<1>3. ASSUME NEW lag \in 0..MaxLag, CleanupOlderThan(now - lag - MaxAge) PROVE FloodTypeOK'
  BY <1>3 DEF CleanupOlderThan, After, FloodTypeOK, history
<1>4. CASE Tick
  <2>1. \A e \in waiting \cup log : e.at \in Nat
    BY DEF FloodTypeOK, Event
  <2> QED
    BY <1>4, <2>1 DEF Tick, FloodTypeOK, history
<1>5. CASE UNCHANGED floodVars
  BY <1>5 DEF floodVars, FloodTypeOK
<1> QED
  BY <1>1, <1>2, <1>3, <1>4, <1>5 DEF FloodNext

(* The clock, the entry and the history keep their types. *)
THEOREM FloodTypeCorrect == FloodSpec => []FloodTypeOK
  BY FloodTypeInit, FloodTypeStep, PTL DEF FloodSpec

----------------------------------------------------------------------------
(* A last strike that is remembered was one. *)
LastIsStrike == lastStrike # Zero => lastStrike \in strikes

StrikeInv == FloodTypeOK /\ LastIsStrike /\ FloodsStrike

(* At first there is no strike. *)
LEMMA StrikeInit == FloodInit => StrikeInv
BY FloodTypeInit DEF FloodInit, StrikeInv, LastIsStrike, FloodsStrike, NoDecision, Quiet

(* Only Add decides; it remembers the strike it decides on, or finds one. *)
LEMMA StrikeStep == StrikeInv /\ [FloodNext]_floodVars => StrikeInv'
<1> SUFFICES ASSUME StrikeInv, [FloodNext]_floodVars PROVE LastIsStrike' /\ FloodsStrike'
  BY FloodTypeStep DEF StrikeInv
<1>1. ASSUME NEW e \in waiting, Add(e) PROVE LastIsStrike' /\ FloodsStrike'
  <2>1. e.at \in Nat /\ lastStrike \in Nat \cup {Zero}
    BY DEF StrikeInv, FloodTypeOK, Event
  <2>2. LastIsStrike'
    BY <1>1 DEF Add, StrikeInv, LastIsStrike
  <2>3. FloodsStrike'
    <3> SUFFICES ASSUME Decision(e).flooded
                 PROVE  \E s \in strikes' : e.at < s + Window
      BY <1>1 DEF Add, FloodsStrike
    <3>1. Decision(e).strike = ShouldStrike(e)
      BY DEF Decision, Quiet
    <3>2. CASE ShouldStrike(e)
      BY <1>1, <2>1, <3>1, <3>2, FloodConstants DEF Add
    <3>3. CASE ~ShouldStrike(e)
      <4>1. lastStrike \in strikes /\ lastStrike \in Nat /\ e.at < lastStrike + Window
        BY <2>1, <3>3, FloodConstants DEF ShouldStrike, StrikeInv, LastIsStrike
      <4> QED
        BY <1>1, <3>1, <3>3, <4>1 DEF Add
    <3> QED
      BY <3>2, <3>3
  <2> QED
    BY <2>2, <2>3
<1>2. ASSUME NEW lag \in 0..MaxLag, CleanupOlderThan(now - lag - MaxAge)
      PROVE  LastIsStrike' /\ FloodsStrike'
  BY <1>2 DEF CleanupOlderThan, StrikeInv, LastIsStrike, FloodsStrike, history
<1>3. CASE Tick \/ UNCHANGED floodVars \/ \E id \in Ids : Receive(id)
  BY <1>3 DEF Tick, floodVars, Receive, StrikeInv, LastIsStrike, FloodsStrike, history
<1> QED
  BY <1>1, <1>2, <1>3 DEF FloodNext

(* A flood that does not strike is covered by a strike within the window,  *)
(* whatever the clean-up does.                                             *)
THEOREM FloodsAreStruck == FloodSpec => []FloodsStrike
<1>1. StrikeInv => FloodsStrike
  BY DEF StrikeInv
<1> QED
  BY <1>1, StrikeInit, StrikeStep, PTL DEF FloodSpec

----------------------------------------------------------------------------
(* No worker waits for the lock longer than MaxLag. *)
InTime == \A e \in waiting : now <= e.at + MaxLag

(* Every strike is remembered until it cannot matter any more, ... *)
Remembered == \A s \in strikes : s <= lastStrike \/ s + Window + MaxLag <= now

(* ... and so is every event, or one overtook it by a window. *)
Kept ==
  \A m \in log \ events :
    \/ m.at + Window + MaxLag <= now
    \/ \E k \in log : m.at + Window <= k.at

Logged == IsFiniteSet(log) /\ events \subseteq log

Memory == FloodTypeOK /\ InTime /\ Remembered /\ Kept /\ Logged

(* At first there is nothing to remember. *)
LEMMA MemoryInit == FloodInit => Memory
<1> SUFFICES ASSUME FloodInit PROVE Memory
  OBVIOUS
<1>1. waiting = {} /\ strikes = {} /\ log = {} /\ events = {}
  BY DEF FloodInit
<1> QED
  BY <1>1, FloodTypeInit, FS_EmptySet DEF Memory, InTime, Remembered, Kept, Logged

(* What an event that is added finds: it is in time, and whatever strike or  *)
(* event was forgotten is at least a window older.                           *)
LEMMA WhatAddFinds ==
  ASSUME Memory, NEW e \in waiting
  PROVE  /\ e \in Event /\ e.at \in Nat /\ e.at <= now /\ now <= e.at + MaxLag
         /\ now \in Nat /\ lastStrike \in Nat \cup {Zero}
         /\ \A s \in strikes : s \in Nat /\ (s <= lastStrike \/ s + Window <= e.at)
         /\ \A m \in log : m \in Event /\ m.at \in Nat
BY FloodConstants DEF Memory, FloodTypeOK, Event, InTime, Remembered, Zero

(* A strike that is decided is a window after any other. *)
LEMMA StrikeIsSpaced ==
  ASSUME Memory, NEW e \in waiting, ShouldStrike(e), NEW s \in strikes
  PROVE  e.at - s >= Window
<1>1. CASE lastStrike = Zero
  BY <1>1, WhatAddFinds, FloodConstants DEF Zero
<1>2. CASE lastStrike # Zero
  BY <1>2, WhatAddFinds, FloodConstants DEF ShouldStrike, Zero
<1> QED
  BY <1>1, <1>2

(* Every step keeps it: one case per action. *)
LEMMA MemoryStep ==
  ASSUME AgeSuffices, Memory, [FloodNext]_floodVars
  PROVE  Memory'
<1> SUFFICES InTime' /\ Remembered' /\ Kept' /\ Logged'
  BY FloodTypeStep DEF Memory
<1>0. /\ now \in Nat /\ lastStrike \in Nat \cup {Zero} /\ strikes \subseteq Nat
      /\ \A m \in log \cup waiting : m.at \in Nat
  BY DEF Memory, FloodTypeOK, Event
<1>1. ASSUME NEW id \in Ids, Receive(id) PROVE InTime' /\ Remembered' /\ Kept' /\ Logged'
  BY <1>0, <1>1, FloodConstants DEF Receive, Memory, InTime, Remembered, Kept, Logged, history
<1>2. ASSUME NEW e \in waiting, Add(e) PROVE InTime' /\ Remembered' /\ Kept' /\ Logged'
  <2>1. InTime' /\ Logged'
    BY <1>2, FS_AddElement DEF Add, Counted, After, Memory, InTime, Logged
  <2>2. Remembered'
    <3>1. CASE Decision(e).strike
      <4>1. ShouldStrike(e)
        BY <3>1 DEF Decision, Quiet
      <4>2. \A s \in strikes : s <= e.at
        BY <4>1, StrikeIsSpaced, WhatAddFinds, FloodConstants
      <4> QED
        BY <1>2, <3>1, <4>2, WhatAddFinds DEF Add, Remembered
    <3>2. CASE ~Decision(e).strike
      BY <1>2, <3>2 DEF Add, Memory, Remembered
    <3> QED
      BY <3>1, <3>2
  <2>3. Kept'
    <3> SUFFICES ASSUME NEW m \in log', m \notin events'
                 PROVE  \/ m.at + Window + MaxLag <= now'
                        \/ \E k \in log' : m.at + Window <= k.at
      BY DEF Kept
    <3>1. m \in log /\ now' = now /\ log' = log \cup {e}
      BY <1>2 DEF Add, Counted
    <3>2. CASE m \in events
      <4>1. m.at + Window <= e.at
        BY <1>2, <3>1, <3>2, WhatAddFinds, FloodConstants DEF Add, Counted, After
      <4> QED
        BY <3>1, <4>1
    <3>3. CASE m \notin events
      BY <3>1, <3>3 DEF Memory, Kept
    <3> QED
      BY <3>2, <3>3
  <2> QED
    BY <2>1, <2>2, <2>3
<1>3. ASSUME NEW lag \in 0..MaxLag, CleanupOlderThan(now - lag - MaxAge)
      PROVE  InTime' /\ Remembered' /\ Kept' /\ Logged'
  <2>1. UNCHANGED <<now, waiting, log, strikes>>
    BY <1>3 DEF CleanupOlderThan, history
  <2>2. Remembered'
    <3>1. CASE events = {} /\ lastStrike < now - lag - MaxAge
      BY <1>0, <2>1, <3>1, FloodConstants DEF AgeSuffices, Memory, Remembered, Zero
    <3>2. CASE ~(events = {} /\ lastStrike < now - lag - MaxAge)
      BY <1>3, <2>1, <3>2 DEF CleanupOlderThan, Memory, Remembered
    <3> QED
      BY <3>1, <3>2
  <2>3. Kept' /\ Logged'
    <3>1. \A m \in events \ events' : m \in log /\ m.at <= now - lag - MaxAge
      BY <1>0, <1>3, FloodConstants DEF CleanupOlderThan, After, Memory, Logged
    <3>2. events' \subseteq events
      BY <1>3 DEF CleanupOlderThan, After
    <3>3. \A m \in events \ events' : m.at + Window + MaxLag <= now
      BY <1>0, <3>1, FloodConstants DEF AgeSuffices
    <3> QED
      BY <2>1, <3>2, <3>3 DEF Memory, Kept, Logged
  <2> QED
    BY <2>1, <2>2, <2>3 DEF Memory, InTime
<1>4. CASE Tick
  <2>1. /\ now' = now + 1 /\ \A e \in waiting : now < e.at + MaxLag
        /\ UNCHANGED <<waiting, events, lastStrike, log, strikes>>
    BY <1>4 DEF Tick, history
  <2> QED
    BY <1>0, <2>1, FloodConstants DEF Memory, InTime, Remembered, Kept, Logged
<1>5. CASE UNCHANGED floodVars
  BY <1>5 DEF floodVars, Memory, InTime, Remembered, Kept, Logged
<1> QED
  BY <1>1, <1>2, <1>3, <1>4, <1>5 DEF FloodNext

(* What the limiter remembers suffices, throughout. *)
LEMMA MemoryInvariant ==
  ASSUME AgeSuffices
  PROVE  FloodSpec => []Memory
<1>1. Memory /\ [FloodNext]_floodVars => Memory'
  BY MemoryStep
<1> QED
  BY <1>1, MemoryInit, PTL DEF FloodSpec

(* Strikes are a window apart, in any order of the messages and with any   *)
(* clean-up between them.                                                  *)
THEOREM StrikesAreSpaced ==
  ASSUME AgeSuffices
  PROVE  FloodSpec => StrikesSpaced
<1>1. Memory /\ [FloodNext]_floodVars =>
        [\A s \in strikes : strikes' # strikes => last'.event.at - s >= Window]_strikes
  <2> SUFFICES ASSUME Memory, [FloodNext]_floodVars, strikes' # strikes, NEW s \in strikes
               PROVE  last'.event.at - s >= Window
    OBVIOUS
  <2>1. PICK e \in waiting : Add(e)
    BY DEF FloodNext, Receive, CleanupOlderThan, Tick, floodVars, history
  <2>2. ShouldStrike(e) /\ last'.event = e
    BY <2>1 DEF Add, Decision, Quiet
  <2> QED
    BY <2>2, StrikeIsSpaced
<1> QED
  BY <1>1, MemoryInvariant, PTL DEF FloodSpec, StrikesSpaced

----------------------------------------------------------------------------
(* The events that count are recent ones, and if e is the latest they are  *)
(* all of them.                                                            *)
LEMMA CountedIsRecent ==
  ASSUME Memory, NEW e \in waiting, NEW all, all = log \cup {e}
  PROVE  /\ IsFiniteSet(After(all, e.at - Window))
         /\ Counted(e) \subseteq After(all, e.at - Window)
         /\ (\A m \in log : m.at <= e.at) => Counted(e) = After(all, e.at - Window)
<1>1. IsFiniteSet(After(all, e.at - Window))
  <2>1. IsFiniteSet(all) /\ After(all, e.at - Window) \subseteq all
    BY FS_AddElement DEF Memory, Logged, After
  <2> QED
    BY <2>1, FS_Subset
<1>2. Counted(e) \subseteq After(all, e.at - Window)
  BY WhatAddFinds, FloodConstants DEF Counted, After, Memory, Logged
<1>3. ASSUME \A m \in log : m.at <= e.at, NEW m \in After(all, e.at - Window), m # e
      PROVE  m \in Counted(e)
  <2>1. m \in log /\ m.at > e.at - Window
    BY <1>3 DEF After
  <2>2. m \in events
    <3> SUFFICES ASSUME m \notin events PROVE FALSE
      OBVIOUS
    <3>1. \/ m.at + Window + MaxLag <= now
          \/ \E k \in log : m.at + Window <= k.at
      BY <2>1 DEF Memory, Kept
    <3>2. ~(m.at + Window + MaxLag <= now)
      BY <2>1, WhatAddFinds, FloodConstants
    <3>3. \A k \in log : ~(m.at + Window <= k.at)
      BY <1>3, <2>1, WhatAddFinds, FloodConstants
    <3> QED
      BY <3>1, <3>2, <3>3
  <2> QED
    BY <2>1, <2>2 DEF Counted, After
<1> QED
  BY <1>1, <1>2, <1>3 DEF Counted

(* A decision is exact when it is made. *)
LEMMA AddIsExact ==
  ASSUME Memory, NEW e \in waiting, Add(e)
  PROVE  DecisionIsExact'
<1> DEFINE recent == After(log \cup {e}, e.at - Window)
<1>1. last' = [event |-> e, decision |-> Decision(e)] /\ log' = log \cup {e}
  BY DEF Add
<1>2. /\ IsFiniteSet(recent) /\ Counted(e) \subseteq recent
      /\ (\A m \in log : m.at <= e.at) => Counted(e) = recent
  BY CountedIsRecent
<1>3. Recent(e)' = recent
  BY <1>1 DEF Recent, After
<1>4. ~late' => Counted(e) = recent
  <2>1. ~late' => ~ \E m \in log : m.at > e.at
    BY Zenon DEF Add
  <2> QED
    BY <1>2, <2>1, WhatAddFinds
<1> HIDE DEF recent
<1>5. /\ Cardinality(recent) \in Nat /\ Cardinality(Counted(e)) \in Nat
      /\ Cardinality(Counted(e)) <= Cardinality(recent)
  BY <1>2, FS_Subset, FS_CardinalityType
<1>6. /\ Decision(e).flooded <=> Cardinality(Counted(e)) > Limit
      /\ Decision(e).flooded => Decision(e).ids = {m.id : m \in Counted(e)}
  BY <1>5, FloodConstants DEF Decision, Quiet
<1>7. Decision(e).flooded =>
        /\ Cardinality(recent) > Limit
        /\ Decision(e).ids \subseteq {m.id : m \in recent}
  BY <1>2, <1>5, <1>6, FloodConstants
<1>8. ~late' =>
        /\ Decision(e).flooded <=> Cardinality(recent) > Limit
        /\ Decision(e).flooded => Decision(e).ids = {m.id : m \in recent}
  BY <1>4, <1>6
<1> QED
  BY <1>1, <1>3, <1>7, <1>8 DEF DecisionIsExact, Recent

(* A flood is declared only over messages that came within the window, and *)
(* exactly then as long as messages are added in the order of their times. *)
THEOREM DecisionsAreExact ==
  ASSUME AgeSuffices
  PROVE  FloodSpec => []DecisionIsExact
<1>1. FloodInit => DecisionIsExact
  BY DEF FloodInit, DecisionIsExact
<1>2. Memory /\ DecisionIsExact /\ [FloodNext]_floodVars => DecisionIsExact'
  <2> SUFFICES ASSUME Memory, DecisionIsExact, [FloodNext]_floodVars PROVE DecisionIsExact'
    OBVIOUS
  <2>1. CASE \E e \in waiting : Add(e)
    BY <2>1, AddIsExact
  <2>2. CASE ~ \E e \in waiting : Add(e)
    <3>1. UNCHANGED <<last, log, late>>
      BY <2>2, Zenon DEF FloodNext, Receive, CleanupOlderThan, Tick, floodVars, history
    <3> QED
      BY <3>1 DEF DecisionIsExact, Recent, After
  <2> QED
    BY <2>1, <2>2
<1> QED
  BY <1>1, <1>2, MemoryInvariant, PTL DEF FloodSpec

----------------------------------------------------------------------------
(* What a handler may be doing. *)
Doing ==
  {Idle, Loading, Dropping} \cup {Filling(list) : list \in SUBSET Words}
  \cup {Writing(e) : e \in Edits}

(* A handler at a step has what the step needs. *)
LEMMA DoingIs ==
  ASSUME NEW d \in Doing
  PROVE  /\ d.at = "fill" => \E list \in SUBSET Words : d = Filling(list) /\ d.list = list
         /\ d.at = "write" => \E e \in Edits : d = Writing(e) /\ d.edit = e
         /\ d.at = "fill" => d # Dropping
BY DEF Doing, Idle, Loading, Dropping, Filling, Writing

(* What becomes of the handlers when one of them moves. *)
LEMMA BecomesType ==
  ASSUME TypeOK, NEW h \in Handlers, NEW d \in Doing, Becomes(h, d)
  PROVE  /\ handler' \in [Handlers -> Doing]
         /\ handler'[h] = d
         /\ \A g \in Handlers : g # h => handler'[g] = handler[g]
<1>1. handler \in [Handlers -> Doing]
  BY DEF TypeOK, Doing
<1> QED
  BY <1>1 DEF Becomes

(* The states a handler moves to. *)
LEMMA States ==
  /\ Idle \in Doing /\ Loading \in Doing /\ Dropping \in Doing
  /\ \A list \in SUBSET Words : Filling(list) \in Doing
  /\ \A e \in Edits : Writing(e) \in Doing
BY DEF Doing

(* Every step keeps the types: one case per action. *)
LEMMA ListTypeStep == TypeOK /\ [Next]_vars => TypeOK'
<1> SUFFICES ASSUME TypeOK, [Next]_vars PROVE TypeOK'
  OBVIOUS
<1>0. handler \in [Handlers -> Doing] /\ \A h \in Handlers : h[1] \in Instances
  BY DEF TypeOK, Doing, Handlers
<1> USE DEF NoFault, Fault, Table
<1>1. ASSUME NEW i \in Instances, Restart(i) PROVE TypeOK'
  <2>1. handler' \in [Handlers -> Doing]
    BY <1>0, <1>1, States DEF Restart
  <2>2. cached' \in [Instances -> {{}} \cup {{list} : list \in SUBSET Words}]
    BY <1>1 DEF Restart, TypeOK
  <2>3. /\ words' = words /\ changes' = changes /\ faults' = faults
        /\ stored' = stored /\ crossed' = crossed /\ crashes' = crashes + 1
    BY <1>1 DEF Restart
  <2> QED
    BY <2>1, <2>2, <2>3 DEF TypeOK, Doing
<1>2. ASSUME NEW h \in Handlers, BeginLoad(h) PROVE TypeOK'
  <2>1. handler' \in [Handlers -> Doing]
    BY <1>2, States, BecomesType DEF BeginLoad
  <2> QED
    BY <1>2, <2>1 DEF BeginLoad, TypeOK, Doing
<1>3. ASSUME NEW h \in Handlers, NEW e \in Edits, BeginChange(h, e) PROVE TypeOK'
  <2>1. handler' \in [Handlers -> Doing]
    BY <1>3, States, BecomesType DEF BeginChange
  <2> QED
    BY <1>3, <2>1 DEF BeginChange, TypeOK, Doing
<1>4. ASSUME NEW h \in Handlers, Load(h) PROVE TypeOK'
  <2>1. handler' \in [Handlers -> Doing]
    BY <1>4, States, BecomesType DEF Load, TypeOK
  <2> QED
    BY <1>4, <2>1 DEF Load, TypeOK, Doing
<1>5. ASSUME NEW h \in Handlers, Fill(h) PROVE TypeOK'
  <2>1. handler' \in [Handlers -> Doing]
    BY <1>5, States, BecomesType DEF Fill
  <2>2. handler[h].list \in SUBSET Words
    BY <1>0, <1>5, DoingIs DEF Fill
  <2>3. cached' \in [Instances -> {{}} \cup {{list} : list \in SUBSET Words}]
    BY <1>0, <1>5, <2>2 DEF Fill, TypeOK
  <2> QED
    BY <1>5, <2>1, <2>3 DEF Fill, TypeOK, Doing
<1>6. ASSUME NEW h \in Handlers, Write(h) PROVE TypeOK'
  <2>1. handler' \in [Handlers -> Doing]
    BY <1>6, States, BecomesType DEF Write
  <2>2. handler[h].edit \in Edits
    BY <1>0, <1>6, DoingIs DEF Write
  <2>3. Edited(handler[h].edit) \subseteq Words
    BY <2>2 DEF Edited, Edits, TypeOK
  <2>4. crossed' \in BOOLEAN
    BY <1>6, Zenon DEF Write, TypeOK, Crosses
  <2>5. words' \subseteq Words /\ stored' \subseteq SUBSET Words
    BY <1>6, <2>3 DEF Write, TypeOK
  <2> QED
    BY <1>6, <2>1, <2>4, <2>5 DEF Write, TypeOK, Doing
<1>7. ASSUME NEW h \in Handlers, Drop(h) PROVE TypeOK'
  <2>1. handler' \in [Handlers -> Doing]
    BY <1>7, States, BecomesType DEF Drop
  <2>2. cached' \in [Instances -> {{}} \cup {{list} : list \in SUBSET Words}]
    BY <1>7 DEF Drop, TypeOK
  <2> QED
    BY <1>7, <2>1, <2>2 DEF Drop, TypeOK, Doing
<1>8. CASE UNCHANGED vars
  BY <1>8 DEF vars, TypeOK
<1> QED
  BY <1>1, <1>2, <1>3, <1>4, <1>5, <1>6, <1>7, <1>8 DEF Next, Step

(* At first the table and the caches are empty. *)
LEMMA ListTypeInit == Init => TypeOK
<1> SUFFICES ASSUME Init PROVE TypeOK
  OBVIOUS
<1>1. handler \in [Handlers -> Doing]
  BY States DEF Init
<1>2. cached \in [Instances -> {{}} \cup {{list} : list \in SUBSET Words}]
  BY DEF Init
<1>3. words \subseteq Words /\ stored \subseteq SUBSET Words
  BY DEF Init
<1> QED
  BY <1>1, <1>2, <1>3 DEF Init, TypeOK, Doing

(* The table, the caches and the handlers keep their types. *)
THEOREM ListTypeCorrect == Spec => []TypeOK
  BY ListTypeInit, ListTypeStep, PTL DEF Spec

----------------------------------------------------------------------------
(* A loaded list was the table's, and while no change is crossed it still   *)
(* is; a list in a cache is one of the two properties' business.            *)
LoadedWasStored ==
  /\ words \in stored
  /\ \A h \in Handlers : handler[h].at = "fill" => handler[h].list \in stored

LoadedIsCurrent ==
  \A h \in Handlers : handler[h].at = "fill" => crossed \/ handler[h].list = words

ListInv == TypeOK /\ CachedWasStored /\ CachedIsCurrent /\ LoadedWasStored /\ LoadedIsCurrent

(* A step that moves one handler and leaves the table and the caches alone. *)
LEMMA QuietStep ==
  ASSUME ListInv, NEW h \in Handlers, NEW d \in Doing, Becomes(h, d),
         handler[h] # Dropping,
         d.at = "fill" => d.list = words,
         UNCHANGED <<words, stored, crossed, cached>>
  PROVE  CachedWasStored' /\ CachedIsCurrent' /\ LoadedWasStored' /\ LoadedIsCurrent'
<1>1. /\ handler'[h] = d
      /\ \A g \in Handlers : g # h => handler'[g] = handler[g]
  BY BecomesType DEF ListInv
<1>2. CachedWasStored'
  BY DEF ListInv, CachedWasStored
<1>3. LoadedWasStored' /\ LoadedIsCurrent'
  BY <1>1 DEF ListInv, LoadedWasStored, LoadedIsCurrent
<1>4. CachedIsCurrent'
  <2>1. \A i \in Instances, w \in Workers :
          handler[<<i, w>>] = Dropping => handler'[<<i, w>>] = Dropping
    BY <1>1 DEF Handlers
  <2> QED
    BY <2>1 DEF ListInv, CachedIsCurrent
<1> QED
  BY <1>2, <1>3, <1>4

(* The invariant survives every step: one case per action. *)
LEMMA ListStep == ListInv /\ [Next]_vars => ListInv'
<1> SUFFICES ASSUME ListInv, [Next]_vars
             PROVE  CachedWasStored' /\ CachedIsCurrent' /\ LoadedWasStored' /\ LoadedIsCurrent'
  BY ListTypeStep DEF ListInv
<1>0. /\ TypeOK
      /\ handler \in [Handlers -> Doing]
      /\ cached \in [Instances -> SUBSET SUBSET Words]
      /\ \A h \in Handlers : h[1] \in Instances /\ h[2] \in Workers /\ h = <<h[1], h[2]>>
      /\ Idle.at = "idle" /\ Loading.at = "load" /\ Dropping.at = "drop"
      /\ \A e \in Edits : Writing(e).at = "write"
      /\ \A list \in SUBSET Words : Filling(list).list = list
  BY DEF ListInv, TypeOK, Doing, Handlers, Idle, Loading, Dropping, Writing, Filling
<1> USE DEF NoFault, Fault, Table
<1>1. ASSUME NEW i \in Instances, Restart(i)
      PROVE  CachedWasStored' /\ CachedIsCurrent' /\ LoadedWasStored' /\ LoadedIsCurrent'
  <2>1. /\ UNCHANGED <<words, stored, crossed>>
        /\ cached'[i] = {} /\ \A j \in Instances : j # i => cached'[j] = cached[j]
        /\ \A h \in Handlers : handler'[h] = IF h[1] = i THEN Idle ELSE handler[h]
    BY <1>0, <1>1 DEF Restart, TypeOK
  <2>2. CachedWasStored' /\ LoadedWasStored' /\ LoadedIsCurrent'
    BY <1>0, <2>1 DEF ListInv, CachedWasStored, LoadedWasStored, LoadedIsCurrent
  <2>3. CachedIsCurrent'
    BY <2>1 DEF ListInv, CachedIsCurrent, Handlers
  <2> QED
    BY <2>2, <2>3
<1>2. ASSUME NEW h \in Handlers, BeginLoad(h)
      PROVE  CachedWasStored' /\ CachedIsCurrent' /\ LoadedWasStored' /\ LoadedIsCurrent'
  BY <1>0, <1>2, States, QuietStep DEF BeginLoad
<1>3. ASSUME NEW h \in Handlers, NEW e \in Edits, BeginChange(h, e)
      PROVE  CachedWasStored' /\ CachedIsCurrent' /\ LoadedWasStored' /\ LoadedIsCurrent'
  BY <1>0, <1>3, States, QuietStep DEF BeginChange
<1>4. ASSUME NEW h \in Handlers, Load(h)
      PROVE  CachedWasStored' /\ CachedIsCurrent' /\ LoadedWasStored' /\ LoadedIsCurrent'
  <2>1. handler[h] # Dropping /\ words \in SUBSET Words
    BY <1>0, <1>4 DEF Load, TypeOK
  <2> QED
    BY <1>0, <1>4, <2>1, States, QuietStep DEF Load
<1>5. ASSUME NEW h \in Handlers, Fill(h)
      PROVE  CachedWasStored' /\ CachedIsCurrent' /\ LoadedWasStored' /\ LoadedIsCurrent'
  <2>1. /\ UNCHANGED <<words, stored, crossed>> /\ handler[h].at = "fill"
        /\ cached'[h[1]] = {handler[h].list}
        /\ \A j \in Instances : j # h[1] => cached'[j] = cached[j]
        /\ handler'[h] = Idle /\ \A g \in Handlers : g # h => handler'[g] = handler[g]
        /\ handler[h] # Dropping
    <3>1. UNCHANGED <<words, stored, crossed>> /\ handler[h].at = "fill" /\ Becomes(h, Idle)
      BY <1>5 DEF Fill
    <3>2. /\ cached'[h[1]] = {handler[h].list}
          /\ \A j \in Instances : j # h[1] => cached'[j] = cached[j]
      BY <1>0, <1>5 DEF Fill
    <3> QED
      BY <1>0, <3>1, <3>2, States, BecomesType
  <2>2. handler[h].list \in stored /\ (crossed \/ handler[h].list = words)
    BY <2>1 DEF ListInv, LoadedWasStored, LoadedIsCurrent
  <2>3. CachedWasStored' /\ LoadedWasStored' /\ LoadedIsCurrent'
    BY <1>0, <2>1, <2>2 DEF ListInv, CachedWasStored, LoadedWasStored, LoadedIsCurrent
  <2>4. CachedIsCurrent'
    <3> SUFFICES ASSUME NEW i \in Instances, ~crossed, i # h[1], cached[i] \notin SUBSET {words}
                 PROVE  \E w \in Workers : handler'[<<i, w>>] = Dropping
      BY <2>1, <2>2 DEF CachedIsCurrent
    <3>1. PICK w \in Workers : handler[<<i, w>>] = Dropping
      BY DEF ListInv, CachedIsCurrent
    <3>2. <<i, w>> \in Handlers /\ <<i, w>> # h
      BY DEF Handlers
    <3> QED
      BY <2>1, <3>1, <3>2
  <2> QED
    BY <2>3, <2>4
<1>6. ASSUME NEW h \in Handlers, Write(h)
      PROVE  CachedWasStored' /\ CachedIsCurrent' /\ LoadedWasStored' /\ LoadedIsCurrent'
  <2> DEFINE list == Edited(handler[h].edit)
  <2>1. /\ handler[h].at = "write" /\ handler[h] # Dropping /\ cached' = cached
        /\ \/ /\ words' = list /\ stored' = stored \cup {list}
              /\ \/ Becomes(h, Dropping) /\ crossed' = (crossed \/ Crosses(h))
                 \/ Becomes(h, Idle) /\ crossed'
           \/ Becomes(h, Idle) /\ UNCHANGED <<words, stored, crossed>>
    BY <1>0, <1>6 DEF Write
  <2> HIDE DEF list
  <2>2. CASE Becomes(h, Idle) /\ UNCHANGED <<words, stored, crossed>>
    BY <1>0, <2>1, <2>2, States, QuietStep
  <2>3. CASE words' = list /\ stored' = stored \cup {list} /\ Becomes(h, Idle) /\ crossed'
    <3>1. \A g \in Handlers : handler'[g].at = "fill" => handler'[g] = handler[g]
      BY <1>0, <2>3, States, BecomesType
    <3> QED
      BY <2>1, <2>3, <3>1
      DEF ListInv, CachedWasStored, CachedIsCurrent, LoadedWasStored, LoadedIsCurrent
  <2>4. CASE /\ words' = list /\ stored' = stored \cup {list}
             /\ Becomes(h, Dropping) /\ crossed' = (crossed \/ Crosses(h))
    <3>1. /\ handler'[h] = Dropping
          /\ \A g \in Handlers : g # h => handler'[g] = handler[g]
      BY <1>0, <2>4, States, BecomesType
    <3>2. CachedWasStored' /\ LoadedWasStored'
      BY <1>0, <2>1, <2>4, <3>1 DEF ListInv, CachedWasStored, LoadedWasStored
    <3>3. LoadedIsCurrent'
      BY <1>0, <2>4, <3>1 DEF ListInv, LoadedIsCurrent, Crosses
    <3>4. CachedIsCurrent'
      <4> SUFFICES ASSUME NEW i \in Instances, ~crossed', i # h[1]
                   PROVE  cached'[i] = {}
        BY <1>0, <3>1 DEF CachedIsCurrent
      <4> QED
        BY <2>1, <2>4 DEF Crosses
    <3> QED
      BY <3>2, <3>3, <3>4
  <2> QED
    BY <2>1, <2>2, <2>3, <2>4
<1>7. ASSUME NEW h \in Handlers, Drop(h)
      PROVE  CachedWasStored' /\ CachedIsCurrent' /\ LoadedWasStored' /\ LoadedIsCurrent'
  <2>1. /\ UNCHANGED <<words, stored, crossed>>
        /\ cached'[h[1]] = {}
        /\ \A j \in Instances : j # h[1] => cached'[j] = cached[j]
        /\ handler'[h] = Idle /\ \A g \in Handlers : g # h => handler'[g] = handler[g]
    <3>1. UNCHANGED <<words, stored, crossed>> /\ Becomes(h, Idle)
      BY <1>7 DEF Drop
    <3>2. /\ cached'[h[1]] = {}
          /\ \A j \in Instances : j # h[1] => cached'[j] = cached[j]
      BY <1>0, <1>7 DEF Drop
    <3> QED
      BY <1>0, <3>1, <3>2, States, BecomesType
  <2>2. CachedWasStored' /\ LoadedWasStored' /\ LoadedIsCurrent'
    BY <1>0, <2>1 DEF ListInv, CachedWasStored, LoadedWasStored, LoadedIsCurrent
  <2>3. CachedIsCurrent'
    <3> SUFFICES ASSUME NEW i \in Instances, ~crossed, i # h[1], cached[i] \notin SUBSET {words}
                 PROVE  \E w \in Workers : handler'[<<i, w>>] = Dropping
      BY <2>1 DEF CachedIsCurrent
    <3>1. PICK w \in Workers : handler[<<i, w>>] = Dropping
      BY DEF ListInv, CachedIsCurrent
    <3>2. <<i, w>> \in Handlers /\ <<i, w>> # h
      BY DEF Handlers
    <3> QED
      BY <2>1, <3>1, <3>2
  <2> QED
    BY <2>2, <2>3
<1>8. CASE UNCHANGED vars
  BY <1>8 DEF vars, ListInv, CachedWasStored, CachedIsCurrent, LoadedWasStored, LoadedIsCurrent
<1> QED
  BY <1>1, <1>2, <1>3, <1>4, <1>5, <1>6, <1>7, <1>8 DEF Next, Step

(* An empty list is stored, and nothing is loaded or cached. *)
LEMMA ListInit == Init => ListInv
<1> SUFFICES ASSUME Init
             PROVE  CachedWasStored /\ CachedIsCurrent /\ LoadedWasStored /\ LoadedIsCurrent
  BY ListTypeInit DEF ListInv
<1> QED
  BY DEF Init, CachedWasStored, CachedIsCurrent, LoadedWasStored, LoadedIsCurrent, Idle

(* The invariant holds throughout. *)
LEMMA ListInvariant == Spec => []ListInv
  BY ListInit, ListStep, PTL DEF Spec

(* A scan never goes by a list that was not the table's at some time. *)
THEOREM ListsWereStored == Spec => []CachedWasStored
<1>1. ListInv => CachedWasStored
  BY DEF ListInv
<1> QED
  BY <1>1, ListInvariant, PTL

(* Unless a change was crossed, a cached list differs from the table's only *)
(* until the command that changed it drops it.                              *)
THEOREM ListsAreCurrent == Spec => []CachedIsCurrent
<1>1. ListInv => CachedIsCurrent
  BY DEF ListInv
<1> QED
  BY <1>1, ListInvariant, PTL

----------------------------------------------------------------------------
(***************************************************************************)
(* Numbers and recursive functions: induction over sets.                   *)
(***************************************************************************)

Below == {p \in Nat \X Nat : p[1] < p[2]}
(* The order of the natural numbers, as a relation. *)
LEMMA BelowIsWellFounded == IsWellFoundedOn(Below, Nat)
<1>1. OpToRel(<, Nat) = Below
  BY DEF OpToRel, Below
<1> QED BY <1>1, NatLessThanWellFounded

(* Some number of a set is the least. *)
LEMMA LeastNatural ==
  ASSUME NEW T, T \subseteq Nat, T # {}
  PROVE  \E n \in T : \A m \in T : n <= m
<1>1. PICK n \in T : \A m \in T : ~ (<<m, n>> \in Below)
  BY BelowIsWellFounded, WFMin
<1>2. \A m \in T : n <= m
  <2> SUFFICES ASSUME NEW m \in T, ~ (n <= m) PROVE FALSE
    OBVIOUS
  <2>1. m \in Nat /\ n \in Nat /\ m < n
    OBVIOUS
  <2>2. <<m, n>> \in Below
    BY <2>1 DEF Below
  <2> QED BY <1>1, <2>2
<1> QED BY <1>2

(* What holds of 0, and of n + 1 if of n, holds up to N: the induction of  *)
(* this module, over a set in the place of a predicate.                    *)
LEMMA Upward ==
  ASSUME NEW N \in Nat, NEW T, 0 \in T, \A n \in 0 .. N : n \in T /\ n < N => n + 1 \in T
  PROVE  0 .. N \subseteq T
<1> SUFFICES ASSUME (0 .. N) \ T # {} PROVE FALSE
  OBVIOUS
<1>1. PICK n \in (0 .. N) \ T : \A m \in (0 .. N) \ T : n <= m
  <2>1. (0 .. N) \ T \subseteq Nat
    OBVIOUS
  <2> QED BY <2>1, LeastNatural
<1>2. n - 1 \in 0 .. N /\ n - 1 < n /\ n - 1 < N
  BY <1>1
<1>3. n - 1 \in T
  BY <1>1, <1>2
<1> QED BY <1>1, <1>2, <1>3

(* A recursive function on 0 .. N whose step takes values of T to T exists. *)
Recursive(f, N, T, base, G) ==
  f \in [0 .. N -> T] /\ f[0] = base /\ \A i \in 1 .. N : f[i] = G[i][f[i - 1]]

(* There is such a function.  So a recursive definition of Scanner or      *)
(* MessageScan, which TLA+ reads as a choice, chooses what its equation says. *)
LEMMA Recursion ==
  ASSUME NEW N \in Nat, NEW T, NEW base \in T, NEW G \in [1 .. N -> [T -> T]]
  PROVE  \E f : Recursive(f, N, T, base, G)
<1> DEFINE Good(n, f) == f[0] = base /\ \A i \in 1 .. n : f[i] = G[i][f[i - 1]]
           Reached == {n \in 0 .. N : \E f \in [0 .. n -> T] : Good(n, f)}
<1>1. 0 \in Reached
  <2> DEFINE f == [i \in 0 .. 0 |-> base]
  <2>1. f \in [0 .. 0 -> T] /\ f[0] = base /\ 1 .. 0 = {}
    OBVIOUS
  <2> HIDE DEF f
  <2>2. Good(0, f)
    BY <2>1
  <2>3. 0 \in 0 .. N
    OBVIOUS
  <2> QED BY <2>1, <2>2, <2>3
<1>2. ASSUME NEW n \in 0 .. N, n \in Reached, n < N PROVE n + 1 \in Reached
  <2>1. PICK f \in [0 .. n -> T] : Good(n, f)
    BY <1>2
  <2> DEFINE g == [i \in 0 .. n + 1 |-> IF i = n + 1 THEN G[n + 1][f[n]] ELSE f[i]]
  <2>2. n + 1 \in 1 .. N /\ n \in 0 .. n /\ n \in Nat
    BY <1>2
  <2>3. G[n + 1][f[n]] \in T
    BY <2>2
  <2>4. g \in [0 .. n + 1 -> T]
    <3>1. \A i \in 0 .. n + 1 : i # n + 1 => i \in 0 .. n
      BY <2>2
    <3> QED BY <2>3, <3>1
  <2>5. Good(n + 1, g)
    <3>1. g[0] = base
      BY <2>1, <2>2
    <3>2. ASSUME NEW i \in 1 .. n + 1 PROVE g[i] = G[i][g[i - 1]]
      <4>1. i - 1 \in 0 .. n /\ i - 1 # n + 1 /\ i \in 0 .. n + 1
        BY <2>2
      <4>2. g[i - 1] = f[i - 1]
        BY <4>1
      <4>3. CASE i = n + 1
        BY <2>2, <4>2, <4>3
      <4>4. CASE i # n + 1
        <5>1. i \in 1 .. n
          BY <2>2, <4>4
        <5> QED BY <2>1, <4>1, <4>2, <4>4, <5>1
      <4> QED BY <4>3, <4>4
    <3> QED BY <3>1, <3>2
  <2> HIDE DEF Good, g
  <2> QED BY <2>2, <2>4, <2>5
<1> HIDE DEF Reached
<1>3. 0 .. N \subseteq Reached
  BY <1>1, <1>2, Upward
<1>4. N \in Reached
  BY <1>3
<1> QED BY <1>4 DEF Reached, Good, Recursive

----------------------------------------------------------------------------
(***************************************************************************)
(* Hosts and domains as names, with dots, and as labels.                   *)
(***************************************************************************)

(* Two sequences with a dot between. *)
LEMMA DotBetween ==
  ASSUME NEW S, "." \in S, NEW u \in Seq(S), NEW x \in Seq(S)
  PROVE  /\ u \o <<".">> \o x \in Seq(S)
         /\ Len(u \o <<".">> \o x) = Len(u) + 1 + Len(x)
         /\ \A i \in 1 .. Len(u) : (u \o <<".">> \o x)[i] = u[i]
         /\ (u \o <<".">> \o x)[Len(u) + 1] = "."
         /\ \A i \in 1 .. Len(x) : (u \o <<".">> \o x)[Len(u) + 1 + i] = x[i]
<1>1. <<".">> \in Seq(S) /\ Len(<<".">>) = 1 /\ <<".">>[1] = "."
  OBVIOUS
<1>2. Len(u) \in Nat /\ Len(x) \in Nat
  BY LenProperties
<1> DEFINE v == u \o <<".">>
<1>3. /\ v \in Seq(S) /\ Len(v) = Len(u) + 1
      /\ \A i \in 1 .. Len(u) + 1 : v[i] = IF i <= Len(u) THEN u[i] ELSE <<".">>[i - Len(u)]
  BY <1>1, ConcatProperties
<1> HIDE DEF v
<1>4. /\ v \o x \in Seq(S) /\ Len(v \o x) = Len(v) + Len(x)
      /\ \A i \in 1 .. Len(v) + Len(x) : (v \o x)[i] = IF i <= Len(v) THEN v[i] ELSE x[i - Len(v)]
  <2>1. v \in Seq(S) /\ x \in Seq(S)
    BY <1>3
  <2> QED BY <2>1, ConcatProperties
<1>5. \A i \in 1 .. Len(u) : (v \o x)[i] = u[i]
  BY <1>2, <1>3, <1>4
<1>6. (v \o x)[Len(u) + 1] = "."
  <2>1. Len(u) + 1 \in 1 .. Len(v) + Len(x) /\ Len(u) + 1 \in 1 .. Len(u) + 1
    BY <1>2, <1>3
  <2> QED BY <1>1, <1>2, <1>3, <1>4, <2>1
<1>7. \A i \in 1 .. Len(x) : (v \o x)[Len(u) + 1 + i] = x[i]
  <2> SUFFICES ASSUME NEW i \in 1 .. Len(x) PROVE (v \o x)[Len(u) + 1 + i] = x[i]
    OBVIOUS
  <2>1. Len(u) + 1 + i \in 1 .. Len(v) + Len(x) /\ ~ (Len(u) + 1 + i <= Len(v)) /\ (Len(u) + 1 + i) - Len(v) = i
    BY <1>2, <1>3
  <2> QED BY <1>4, <2>1
<1> QED BY <1>3, <1>4, <1>5, <1>6, <1>7 DEF v

Undotted(S) == Seq(S \ {"."})

(* What follows the last dot, and what is before it, is told by the whole. *)
LEMMA LastDot ==
  ASSUME NEW S, "." \in S, NEW u \in Seq(S), NEW v \in Seq(S),
         NEW x \in Undotted(S), NEW y \in Undotted(S),
         u \o <<".">> \o x = v \o <<".">> \o y
  PROVE  u = v /\ x = y
<1>1. /\ x \in Seq(S) /\ y \in Seq(S)
      /\ \A i \in 1 .. Len(x) : x[i] # "."
      /\ \A i \in 1 .. Len(y) : y[i] # "."
  <2>1. x \in Seq(S) /\ y \in Seq(S)
    BY SeqMonotonic DEF Undotted
  <2>2. \A i \in 1 .. Len(x) : x[i] \in S \ {"."}
    BY ElementOfSeq DEF Undotted
  <2>3. \A i \in 1 .. Len(y) : y[i] \in S \ {"."}
    BY ElementOfSeq DEF Undotted
  <2> QED BY <2>1, <2>2, <2>3
<1>2. Len(u) \in Nat /\ Len(x) \in Nat /\ Len(v) \in Nat /\ Len(y) \in Nat
  BY <1>1, LenProperties
<1> DEFINE s == u \o <<".">> \o x
           t == v \o <<".">> \o y
<1>3. s = t
  OBVIOUS
<1>4. /\ Len(s) = Len(u) + 1 + Len(x) /\ s[Len(u) + 1] = "."
      /\ \A i \in 1 .. Len(u) : s[i] = u[i]
      /\ \A i \in 1 .. Len(x) : s[Len(u) + 1 + i] = x[i]
  BY <1>1, DotBetween
<1>5. /\ Len(t) = Len(v) + 1 + Len(y) /\ t[Len(v) + 1] = "."
      /\ \A i \in 1 .. Len(v) : t[i] = v[i]
      /\ \A i \in 1 .. Len(y) : t[Len(v) + 1 + i] = y[i]
  BY <1>1, DotBetween
<1> HIDE DEF s, t
<1>6. ~ (Len(u) < Len(v))
  <2> SUFFICES ASSUME Len(u) < Len(v) PROVE FALSE
    OBVIOUS
  <2>1. Len(v) - Len(u) \in 1 .. Len(x)
    BY <1>2, <1>3, <1>4, <1>5
  <2>2. Len(u) + 1 + (Len(v) - Len(u)) = Len(v) + 1
    BY <1>2
  <2>3. s[Len(v) + 1] = x[Len(v) - Len(u)]
    BY <1>4, <2>1, <2>2
  <2> QED BY <1>1, <1>3, <1>5, <2>1, <2>3
<1>7. ~ (Len(v) < Len(u))
  <2> SUFFICES ASSUME Len(v) < Len(u) PROVE FALSE
    OBVIOUS
  <2>1. Len(u) - Len(v) \in 1 .. Len(y)
    BY <1>2, <1>3, <1>4, <1>5
  <2>2. Len(v) + 1 + (Len(u) - Len(v)) = Len(u) + 1
    BY <1>2
  <2>3. t[Len(u) + 1] = y[Len(u) - Len(v)]
    BY <1>5, <2>1, <2>2
  <2> QED BY <1>1, <1>3, <1>4, <2>1, <2>3
<1>8. Len(u) = Len(v) /\ Len(x) = Len(y)
  BY <1>2, <1>3, <1>4, <1>5, <1>6, <1>7
<1>9. u = v
  <2>1. \A i \in 1 .. Len(u) : u[i] = v[i]
    BY <1>3, <1>4, <1>5, <1>8
  <2> QED BY <1>8, <2>1, SeqEqual
<1>10. x = y
  <2>1. \A i \in 1 .. Len(x) : x[i] = y[i]
    BY <1>3, <1>4, <1>5, <1>8
  <2> QED BY <1>1, <1>8, <2>1, SeqEqual
<1> QED BY <1>9, <1>10

(* The names of the first labels. *)
LEMMA DotsStep ==
  ASSUME NEW S, "." \in S, NEW labels \in Seq(Seq(S))
  PROVE  /\ Dots(labels) \in [0 .. Len(labels) -> Seq(S)]
         /\ Dots(labels)[0] = <<>>
         /\ \A i \in 1 .. Len(labels) :
              Dots(labels)[i] = Dots(labels)[i - 1] \o <<".">> \o labels[i]
<1> DEFINE N == Len(labels)
           G == [i \in 1 .. N |-> [s \in Seq(S) |-> s \o <<".">> \o labels[i]]]
           Eq(f) == f = [i \in 0 .. N |->
                           IF i = 0 THEN <<>> ELSE f[i - 1] \o <<".">> \o labels[i]]
<1>1. N \in Nat /\ <<>> \in Seq(S)
  BY LenProperties
<1>2. \A i \in 1 .. N : labels[i] \in Seq(S)
  BY ElementOfSeq
<1>3. G \in [1 .. N -> [Seq(S) -> Seq(S)]]
  BY <1>2, DotBetween
<1>4. \E f : Eq(f)
  <2>1. PICK f \in [0 .. N -> Seq(S)] : f[0] = <<>> /\ \A i \in 1 .. N : f[i] = G[i][f[i - 1]]
    <3>1. \E f : Recursive(f, N, Seq(S), <<>>, G)
      <4> HIDE DEF N, G
      <4> QED BY <1>1, <1>3, Recursion
    <3> HIDE DEF N, G
    <3> QED BY <3>1 DEF Recursive
  <2>2. \A i \in 1 .. N : f[i] = f[i - 1] \o <<".">> \o labels[i]
    <3> SUFFICES ASSUME NEW i \in 1 .. N PROVE f[i] = f[i - 1] \o <<".">> \o labels[i]
      OBVIOUS
    <3>1. i - 1 \in 0 .. N
      BY <1>1
    <3>2. f[i - 1] \in Seq(S)
      BY <3>1
    <3> QED BY <2>1, <3>2
  <2>3. Eq(f)
    <3>1. \A i \in 0 .. N : i # 0 => i \in 1 .. N
      BY <1>1
    <3> QED BY <2>1, <2>2, <3>1
  <2> QED BY <2>3
<1>5. Eq(Dots(labels))
  <2> HIDE DEF G
  <2> QED BY <1>4 DEF Dots
<1> DEFINE f == Dots(labels)
<1>6. f[0] = <<>> /\ DOMAIN f = 0 .. N /\ \A i \in 1 .. N : f[i] = f[i - 1] \o <<".">> \o labels[i]
  <2> HIDE DEF f
  <2>0. Eq(f)
    BY <1>5 DEF f
  <2>1. 0 \in 0 .. N /\ \A i \in 1 .. N : i \in 0 .. N /\ i # 0
    BY <1>1
  <2> HIDE DEF N
  <2> QED BY <2>0, <2>1
<1> HIDE DEF f
<1> DEFINE Typed == {i \in 0 .. N : f[i] \in Seq(S)}
<1>7. 0 .. N \subseteq Typed
  <2>1. 0 \in Typed
    <3>1. 0 \in 0 .. N /\ f[0] \in Seq(S)
      BY <1>1, <1>6
    <3> QED BY <3>1
  <2>2. \A i \in 0 .. N : i \in Typed /\ i < N => i + 1 \in Typed
    <3> SUFFICES ASSUME NEW i \in 0 .. N, i \in Typed, i < N PROVE f[i + 1] \in Seq(S) /\ i + 1 \in 0 .. N
      OBVIOUS
    <3>1. i + 1 \in 1 .. N /\ (i + 1) - 1 = i
      BY <1>1
    <3>2. f[i] \in Seq(S)
      OBVIOUS
    <3>3. f[i] \o <<".">> \o labels[i + 1] \in Seq(S)
      BY <1>2, <3>1, <3>2, DotBetween
    <3>4. f[i + 1] = f[i] \o <<".">> \o labels[i + 1]
      BY <1>6, <3>1
    <3> QED BY <3>1, <3>3, <3>4
  <2> HIDE DEF Typed, N
  <2> QED BY <1>1, <2>1, <2>2, Upward
<1>8. f \in [0 .. N -> Seq(S)]
  <2>1. \A i \in 0 .. N : f[i] \in Seq(S)
    BY <1>7
  <2>2. f = [i \in 0 .. N |-> f[i]]
    <3>1. Eq(f)
      BY <1>5 DEF f
    <3> HIDE DEF N
    <3> QED BY <3>1
  <2> HIDE DEF N
  <2> QED BY <2>1, <2>2
<1> QED BY <1>6, <1>8 DEF f

(* A sequence from its end. *)
LEMMA ReverseProperties ==
  ASSUME NEW S, NEW s \in Seq(S)
  PROVE  /\ Reverse(s) \in Seq(S) /\ Len(Reverse(s)) = Len(s)
         /\ \A i \in 1 .. Len(s) : Reverse(s)[i] = s[Len(s) - i + 1]
<1>1. Len(s) \in Nat
  BY LenProperties
<1>2. \A i \in 1 .. Len(s) : s[(Len(s) - i) + 1] \in S
  <2> SUFFICES ASSUME NEW i \in 1 .. Len(s) PROVE s[(Len(s) - i) + 1] \in S
    OBVIOUS
  <2>1. (Len(s) - i) + 1 \in 1 .. Len(s)
    BY <1>1
  <2> QED BY <2>1, ElementOfSeq
<1> QED BY <1>1, <1>2 DEF Reverse

(* A suffix, position by position. *)
LEMMA SuffixIsTheEnd ==
  ASSUME NEW S, NEW s \in Seq(S), NEW t \in Seq(S)
  PROVE  IsSuffix(s, t) <=>
           Len(s) <= Len(t) /\ \A i \in 1 .. Len(s) : t[Len(t) - Len(s) + i] = s[i]
<1> DEFINE r == Reverse(s)
           q == Reverse(t)
           n == Len(s)
           m == Len(t)
<1>1. n \in Nat /\ m \in Nat
  BY LenProperties
<1>2. r \in Seq(S) /\ Len(r) = n /\ \A i \in 1 .. n : r[i] = s[n - i + 1]
  BY ReverseProperties
<1>3. q \in Seq(S) /\ Len(q) = m /\ \A i \in 1 .. m : q[i] = t[m - i + 1]
  BY ReverseProperties
<1>4. IsSuffix(s, t) <=> n <= m /\ SubSeq(r, 1, n) = SubSeq(q, 1, n)
  BY <1>2, <1>3 DEF IsSuffix, IsPrefix
<1> HIDE DEF r, q
<1>5. ASSUME n <= m PROVE SubSeq(r, 1, n) = SubSeq(q, 1, n) <=> \A i \in 1 .. n : t[m - n + i] = s[i]
  <2>1. \A i \in 1 .. n : SubSeq(r, 1, n)[i] = s[n - i + 1] /\ SubSeq(q, 1, n)[i] = t[m - i + 1]
    <3>1. \A i \in 1 .. n : r[i] \in S /\ q[i] \in S
      BY <1>1, <1>2, <1>3, <1>5, ElementOfSeq
    <3>2. \A i \in 1 .. n - 1 + 1 : SubSeq(r, 1, n)[i] = r[1 + i - 1]
      BY <1>1, <3>1, SubSeqProperties
    <3>3. \A i \in 1 .. n - 1 + 1 : SubSeq(q, 1, n)[i] = q[1 + i - 1]
      BY <1>1, <3>1, SubSeqProperties
    <3> QED BY <1>1, <1>2, <1>3, <1>5, <3>2, <3>3
  <2>2. SubSeq(r, 1, n) \in Seq(S) /\ SubSeq(q, 1, n) \in Seq(S)
        /\ Len(SubSeq(r, 1, n)) = n /\ Len(SubSeq(q, 1, n)) = n
    <3>1. \A i \in 1 .. n : r[i] \in S /\ q[i] \in S
      BY <1>1, <1>2, <1>3, <1>5, ElementOfSeq
    <3> QED BY <1>1, <3>1, SubSeqProperties
  <2>3. SubSeq(r, 1, n) = SubSeq(q, 1, n) <=> \A i \in 1 .. n : s[n - i + 1] = t[m - i + 1]
    BY <2>1, <2>2, SeqEqual
  <2>4. ASSUME \A i \in 1 .. n : s[n - i + 1] = t[m - i + 1], NEW i \in 1 .. n
        PROVE t[m - n + i] = s[i]
    <3>1. n - i + 1 \in 1 .. n /\ n - (n - i + 1) + 1 = i /\ m - (n - i + 1) + 1 = m - n + i
      BY <1>1
    <3>2. s[n - (n - i + 1) + 1] = t[m - (n - i + 1) + 1]
      BY <2>4, <3>1
    <3> QED BY <3>1, <3>2
  <2>5. ASSUME \A i \in 1 .. n : t[m - n + i] = s[i], NEW i \in 1 .. n
        PROVE s[n - i + 1] = t[m - i + 1]
    <3>1. n - i + 1 \in 1 .. n /\ m - n + (n - i + 1) = m - i + 1
      BY <1>1
    <3>2. t[m - n + (n - i + 1)] = s[n - i + 1]
      BY <2>5, <3>1
    <3> QED BY <3>1, <3>2
  <2> QED BY <2>3, <2>4, <2>5
<1> QED BY <1>4, <1>5

(* A suffix, with what is before it. *)
LEMMA SuffixIsWhatFollows ==
  ASSUME NEW S, NEW s \in Seq(S), NEW t \in Seq(S)
  PROVE  IsSuffix(s, t) <=> \E p \in Seq(S) : t = p \o s
<1>1. Len(s) \in Nat /\ Len(t) \in Nat
  BY LenProperties
<1>2. ASSUME NEW p \in Seq(S), t = p \o s PROVE IsSuffix(s, t)
  <2>1. Len(p) \in Nat /\ Len(t) = Len(p) + Len(s)
        /\ \A i \in 1 .. Len(p) + Len(s) : t[i] = IF i <= Len(p) THEN p[i] ELSE s[i - Len(p)]
    BY <1>2, ConcatProperties, LenProperties
  <2>2. ASSUME NEW i \in 1 .. Len(s) PROVE t[Len(t) - Len(s) + i] = s[i]
    <3>1. Len(t) - Len(s) + i \in 1 .. Len(p) + Len(s) /\ Len(t) - Len(s) + i - Len(p) = i
          /\ ~ (Len(t) - Len(s) + i <= Len(p))
      BY <1>1, <2>1
    <3> QED BY <2>1, <3>1
  <2>3. Len(s) <= Len(t)
    BY <1>1, <2>1
  <2> QED BY <2>2, <2>3, SuffixIsTheEnd
<1>3. ASSUME IsSuffix(s, t) PROVE \E p \in Seq(S) : t = p \o s
  <2>1. Len(s) <= Len(t) /\ \A i \in 1 .. Len(s) : t[Len(t) - Len(s) + i] = s[i]
    BY <1>3, SuffixIsTheEnd
  <2> DEFINE k == Len(t) - Len(s)
             p == SubSeq(t, 1, k)
  <2>2. k \in Nat /\ k <= Len(t)
    BY <1>1, <2>1
  <2>3. p \in Seq(S) /\ Len(p) = k /\ \A i \in 1 .. k : p[i] = t[i]
    <3>1. \A i \in 1 .. k : t[i] \in S
      BY <1>1, <2>2, ElementOfSeq
    <3>2. /\ SubSeq(t, 1, k) \in Seq(S) /\ Len(SubSeq(t, 1, k)) = IF 1 <= k THEN k - 1 + 1 ELSE 0
          /\ \A i \in 1 .. k - 1 + 1 : SubSeq(t, 1, k)[i] = t[1 + i - 1]
      BY <2>2, <3>1, SubSeqProperties
    <3> QED BY <2>2, <3>2
  <2> HIDE DEF p
  <2>4. /\ p \o s \in Seq(S) /\ Len(p \o s) = Len(t)
        /\ \A i \in 1 .. Len(t) : (p \o s)[i] = IF i <= k THEN p[i] ELSE s[i - k]
    BY <1>1, <2>2, <2>3, ConcatProperties
  <2>5. ASSUME NEW i \in 1 .. Len(t) PROVE t[i] = (p \o s)[i]
    <3>1. CASE i <= k
      BY <2>2, <2>3, <2>4, <3>1
    <3>2. CASE ~ (i <= k)
      <4>1. i - k \in 1 .. Len(s) /\ k + (i - k) = i
        BY <1>1, <2>2, <3>2
      <4>2. t[k + (i - k)] = s[i - k]
        BY <2>1, <4>1
      <4> QED BY <2>4, <3>2, <4>1, <4>2
    <3> QED BY <3>1, <3>2
  <2>6. t = p \o s
    BY <2>4, <2>5, SeqEqual
  <2> QED BY <2>3, <2>6
<1> QED BY <1>2, <1>3

(* Four sequences one after the other, the first two together. *)
LEMMA Regroup3 ==
  ASSUME NEW S, NEW p \in Seq(S), NEW x \in Seq(S), NEW y \in Seq(S), NEW z \in Seq(S)
  PROVE  p \o (x \o y \o z) = (p \o x) \o y \o z /\ p \o x \in Seq(S)
<1>1. p \o x \in Seq(S) /\ x \o y \in Seq(S)
  BY ConcatProperties
<1>2. p \o ((x \o y) \o z) = (p \o (x \o y)) \o z
  BY <1>1, ConcatAssociative, SMTT(30)
<1>3. p \o (x \o y) = (p \o x) \o y
  BY ConcatAssociative, SMTT(30)
<1> QED BY <1>1, <1>2, <1>3

(* The same, with a dot for the third. *)
LEMMA Regroup ==
  ASSUME NEW S, "." \in S, NEW p \in Seq(S), NEW x \in Seq(S), NEW y \in Seq(S)
  PROVE  p \o (x \o <<".">> \o y) = (p \o x) \o <<".">> \o y /\ p \o x \in Seq(S)
<1> DEFINE dot == <<".">>
<1>1. dot \in Seq(S)
  OBVIOUS
<1> HIDE DEF dot
<1>2. p \o (x \o dot \o y) = (p \o x) \o dot \o y /\ p \o x \in Seq(S)
  BY <1>1, Regroup3
<1> QED BY <1>2 DEF dot

(* A name with a dot before it ends as another one exactly if its labels do. *)
LEMMA DotsEndAsLabels ==
  ASSUME NEW S, "." \in S, NEW d \in Seq(Undotted(S)), NEW l \in Seq(Undotted(S))
  PROVE  IsSuffix(Dots(d)[Len(d)], Dots(l)[Len(l)]) <=> IsSuffix(d, l)
<1> DEFINE n == Len(d)
           m == Len(l)
           D == Dots(d)
           L == Dots(l)
<1>0. Undotted(S) \subseteq Seq(S)
  BY SeqMonotonic DEF Undotted
<1>1. n \in Nat /\ m \in Nat /\ d \in Seq(Seq(S)) /\ l \in Seq(Seq(S))
  BY <1>0, LenProperties, SeqMonotonic
<1>2. (\A i \in 1 .. n : d[i] \in Undotted(S)) /\ (\A i \in 1 .. m : l[i] \in Undotted(S))
  BY ElementOfSeq
<1>3. /\ D \in [0 .. n -> Seq(S)] /\ D[0] = <<>>
      /\ \A i \in 1 .. n : D[i] = D[i - 1] \o <<".">> \o d[i]
  BY <1>1, DotsStep
<1>4. /\ L \in [0 .. m -> Seq(S)] /\ L[0] = <<>>
      /\ \A i \in 1 .. m : L[i] = L[i - 1] \o <<".">> \o l[i]
  BY <1>1, DotsStep
<1> HIDE DEF n, m, D, L
<1>5. ASSUME NEW p \in Seq(S), L[m] = p \o D[n]
      PROVE  n <= m /\ \A k \in 1 .. n : l[m - n + k] = d[k]
  <2> DEFINE T == {i \in 0 .. n : /\ i <= m /\ L[m - i] = p \o D[n - i]
                                  /\ \A k \in 1 .. n : k > n - i => l[m - n + k] = d[k]}
  <2>1. 0 \in T
    <3>1. 0 \in 0 .. n /\ 0 <= m /\ m - 0 = m /\ n - 0 = n /\ \A k \in 1 .. n : ~ (k > n)
      BY <1>1
    <3> QED BY <1>5, <3>1
  <2>2. ASSUME NEW i \in 0 .. n, i \in T, i < n PROVE i + 1 \in T
    <3> DEFINE a == m - i
               b == n - i
    <3>1. i \in Nat /\ i <= m /\ L[a] = p \o D[b] /\ (\A k \in 1 .. n : k > b => l[m - n + k] = d[k])
      BY <2>2
    <3>2. b \in 1 .. n /\ b - 1 \in 0 .. n /\ b - 1 = n - (i + 1) /\ a \in 0 .. m
      BY <1>1, <2>2, <3>1
    <3>3. D[b] = D[b - 1] \o <<".">> \o d[b] /\ D[b - 1] \in Seq(S) /\ d[b] \in Seq(S)
      BY <1>0, <1>2, <1>3, <3>2
    <3>4. p \o D[b] = (p \o D[b - 1]) \o <<".">> \o d[b] /\ p \o D[b - 1] \in Seq(S)
      <4> DEFINE x == D[b - 1]
                 y == d[b]
      <4>1. x \in Seq(S) /\ y \in Seq(S) /\ D[b] = x \o <<".">> \o y
        BY <3>3
      <4> HIDE DEF b, x, y
      <4>2. p \o (x \o <<".">> \o y) = (p \o x) \o <<".">> \o y /\ p \o x \in Seq(S)
        <5>1. x \in Seq(S) /\ y \in Seq(S) /\ p \in Seq(S) /\ "." \in S
          BY <4>1
        <5> QED BY <5>1, Regroup, SMTT(30)
      <4>3. p \o D[b] = (p \o x) \o <<".">> \o y /\ p \o x \in Seq(S)
        BY <4>1, <4>2, Zenon
      <4> QED BY <4>3 DEF x, y
    <3>5. a # 0
      <4> SUFFICES ASSUME a = 0 PROVE FALSE
        OBVIOUS
      <4>1. Len(L[a]) = 0
        BY <1>4
      <4>2. Len((p \o D[b - 1]) \o <<".">> \o d[b]) = Len(p \o D[b - 1]) + 1 + Len(d[b])
        BY <3>3, <3>4, DotBetween
      <4>3. Len(p \o D[b - 1]) \in Nat /\ Len(d[b]) \in Nat
        BY <3>3, <3>4, LenProperties
      <4> HIDE DEF a, b
      <4>4. L[a] = (p \o D[b - 1]) \o <<".">> \o d[b]
        BY <3>1, <3>4
      <4>5. Len(L[a]) = Len(p \o D[b - 1]) + 1 + Len(d[b])
        BY <4>2, <4>4
      <4> DEFINE k == Len(L[a])
                 i1 == Len(p \o D[b - 1])
                 j1 == Len(d[b])
      <4>6. k = 0 /\ i1 \in Nat /\ j1 \in Nat /\ k = i1 + 1 + j1
        BY <4>1, <4>3, <4>5
      <4> HIDE DEF k, i1, j1
      <4> QED BY <4>6
    <3>6. a \in 1 .. m /\ a - 1 \in 0 .. m /\ a - 1 = m - (i + 1) /\ i + 1 <= m
      BY <1>1, <3>1, <3>2, <3>5
    <3>7. L[a] = L[a - 1] \o <<".">> \o l[a] /\ L[a - 1] \in Seq(S)
      BY <1>4, <3>6
    <3>8. L[a - 1] \o <<".">> \o l[a] = (p \o D[b - 1]) \o <<".">> \o d[b]
      BY <3>1, <3>4, <3>7
    <3>9. L[a - 1] = p \o D[b - 1] /\ l[a] = d[b]
      <4>1. l[a] \in Undotted(S) /\ d[b] \in Undotted(S)
        BY <1>2, <3>2, <3>6
      <4> DEFINE u == L[a - 1]
                 v == p \o D[b - 1]
      <4>2. u \in Seq(S) /\ v \in Seq(S) /\ u \o <<".">> \o l[a] = v \o <<".">> \o d[b]
        BY <3>4, <3>7, <3>8
      <4> HIDE DEF a, b, u, v
      <4>3. u = v /\ l[a] = d[b]
        BY <4>1, <4>2, LastDot
      <4> QED BY <4>3 DEF u, v
    <3>10. ASSUME NEW k \in 1 .. n, k > n - (i + 1) PROVE l[m - n + k] = d[k]
      <4>1. k > b \/ (k = b /\ m - n + k = a)
        BY <1>1, <3>1, <3>10
      <4> QED BY <3>1, <3>9, <4>1
    <3>11. i + 1 \in 0 .. n
      BY <1>1, <2>2
    <3> QED BY <3>2, <3>6, <3>9, <3>10, <3>11
  <2>3. n \in T
    <3> HIDE DEF T
    <3>1. 0 .. n \subseteq T
      BY <1>1, <2>1, <2>2, Upward
    <3> QED BY <1>1, <3>1
  <2>4. \A k \in 1 .. n : k > n - n
    BY <1>1
  <2> QED BY <2>3, <2>4
<1>6. ASSUME n <= m, \A k \in 1 .. n : l[m - n + k] = d[k]
      PROVE  \E p \in Seq(S) : L[m] = p \o D[n]
  <2> DEFINE c == m - n
             p == L[c]
             T == {i \in 0 .. n : L[c + i] = p \o D[i]}
  <2>0. c \in 0 .. m /\ p \in Seq(S)
    BY <1>1, <1>4, <1>6
  <2>1. 0 \in T
    <3>1. p \o <<>> = p /\ c + 0 = c /\ 0 \in 0 .. n
      BY <1>1, <2>0, ConcatEmptySeq
    <3> QED BY <1>3, <3>1
  <2>2. ASSUME NEW i \in 0 .. n, i \in T, i < n PROVE i + 1 \in T
    <3>1. /\ i + 1 \in 1 .. n /\ (i + 1) - 1 = i
          /\ c + i + 1 \in 1 .. m /\ (c + i + 1) - 1 = c + i /\ c + i + 1 = c + (i + 1)
      <4>1. n \in Nat /\ m \in Nat /\ c \in 0 .. m /\ c + n = m /\ i \in 0 .. n /\ i < n
        BY <1>1, <1>6, <2>0, <2>2
      <4> HIDE DEF n, m, c, p, T
      <4> QED BY <4>1
    <3>2. D[i + 1] = D[i] \o <<".">> \o d[i + 1] /\ D[i] \in Seq(S) /\ d[i + 1] \in Seq(S)
      BY <1>0, <1>2, <1>3, <3>1
    <3>3. L[c + i + 1] = L[c + i] \o <<".">> \o l[c + i + 1] /\ l[c + i + 1] = d[i + 1]
      <4>1. l[m - n + (i + 1)] = d[i + 1]
        BY <1>6, <3>1
      <4>2. l[c + (i + 1)] = d[i + 1]
        BY <4>1
      <4> HIDE DEF c
      <4> QED BY <1>4, <3>1, <4>2
    <3>4. L[c + i] = p \o D[i]
      BY <2>2
    <3> HIDE DEF p, c
    <3>5. p \o (D[i] \o <<".">> \o d[i + 1]) = (p \o D[i]) \o <<".">> \o d[i + 1]
      <4> DEFINE x == D[i]
                 y == d[i + 1]
      <4>1. x \in Seq(S) /\ y \in Seq(S)
        BY <3>2
      <4> HIDE DEF x, y
      <4>2. p \in Seq(S) /\ "." \in S
        BY <2>0
      <4>3. p \o (x \o <<".">> \o y) = (p \o x) \o <<".">> \o y
        BY <4>1, <4>2, Regroup, SMTT(30)
      <4> QED BY <4>3 DEF x, y
    <3>6. i + 1 \in 0 .. n
      BY <1>1, <3>1
    <3> QED BY <3>1, <3>2, <3>3, <3>4, <3>5, <3>6
  <2>3. n \in T
    <3> HIDE DEF T
    <3>1. 0 .. n \subseteq T
      BY <1>1, <2>1, <2>2, Upward
    <3> QED BY <1>1, <3>1
  <2>4. c + n = m
    BY <1>1
  <2> QED BY <2>0, <2>3, <2>4
<1>7. D[n] \in Seq(S) /\ L[m] \in Seq(S)
  BY <1>1, <1>3, <1>4
<1>8. IsSuffix(D[n], L[m]) <=> \E p \in Seq(S) : L[m] = p \o D[n]
  BY <1>7, SuffixIsWhatFollows
<1>9. IsSuffix(d, l) <=> n <= m /\ \A k \in 1 .. n : l[m - n + k] = d[k]
  BY SuffixIsTheEnd DEF n, m
<1>10. IsSuffix(D[n], L[m]) <=> IsSuffix(d, l)
  BY <1>5, <1>6, <1>8, <1>9
<1> QED BY <1>10 DEF n, m, D, L

Lower(c) == IF c \in DOMAIN LowerCase THEN LowerCase[c] ELSE c

(* A text in lower case, character by character. *)
LEMMA ToLowerProperties ==
  ASSUME NEW S, NEW T, NEW s \in Seq(S), \A c \in S : Lower(c) \in T
  PROVE  /\ ToLower(s) \in Seq(T) /\ Len(ToLower(s)) = Len(s)
         /\ \A i \in 1 .. Len(s) : ToLower(s)[i] = Lower(s[i])
<1>1. Len(s) \in Nat /\ DOMAIN s = 1 .. Len(s)
  BY LenProperties
<1>2. \A i \in 1 .. Len(s) : Lower(s[i]) \in T
  BY ElementOfSeq
<1>3. ToLower(s) = [i \in 1 .. Len(s) |-> Lower(s[i])]
  BY <1>1 DEF ToLower, Lower
<1> HIDE DEF Lower
<1>4. [i \in 1 .. Len(s) |-> Lower(s[i])] \in Seq(T)
  BY <1>1, <1>2
<1> QED BY <1>1, <1>3, <1>4

(* Upper and lower case of two texts one after the other. *)
LEMMA ToLowerConcat ==
  ASSUME NEW S, NEW s \in Seq(S), NEW t \in Seq(S)
  PROVE  ToLower(s \o t) = ToLower(s) \o ToLower(t)
<1> DEFINE T == {Lower(c) : c \in S}
           n == Len(s)
           m == Len(t)
<1>1. \A c \in S : Lower(c) \in T
  OBVIOUS
<1> HIDE DEF T
<1>2. n \in Nat /\ m \in Nat
  BY LenProperties
<1>3. /\ s \o t \in Seq(S) /\ Len(s \o t) = n + m
      /\ \A i \in 1 .. n + m : (s \o t)[i] = IF i <= n THEN s[i] ELSE t[i - n]
  BY ConcatProperties
<1>4. /\ ToLower(s \o t) \in Seq(T) /\ Len(ToLower(s \o t)) = n + m
      /\ \A i \in 1 .. n + m : ToLower(s \o t)[i] = Lower((s \o t)[i])
  BY <1>1, <1>3, ToLowerProperties, ZenonT(40)
<1>5. /\ ToLower(s) \in Seq(T) /\ Len(ToLower(s)) = n
      /\ \A i \in 1 .. n : ToLower(s)[i] = Lower(s[i])
  BY <1>1, ToLowerProperties
<1>6. /\ ToLower(t) \in Seq(T) /\ Len(ToLower(t)) = m
      /\ \A i \in 1 .. m : ToLower(t)[i] = Lower(t[i])
  BY <1>1, ToLowerProperties
<1> DEFINE u == ToLower(s)
           v == ToLower(t)
           w == ToLower(s \o t)
<1>7. u \in Seq(T) /\ v \in Seq(T)
  BY <1>5, <1>6
<1>8. /\ u \o v \in Seq(T) /\ Len(u \o v) = n + m
      /\ \A i \in 1 .. n + m : (u \o v)[i] = IF i <= n THEN u[i] ELSE v[i - n]
  <2> HIDE DEF u, v
  <2>1. Len(u) = n /\ Len(v) = m
    BY <1>5, <1>6 DEF u, v
  <2>2. /\ u \o v \in Seq(T) /\ Len(u \o v) = Len(u) + Len(v)
        /\ \A i \in 1 .. Len(u) + Len(v) : (u \o v)[i] = IF i <= Len(u) THEN u[i] ELSE v[i - Len(u)]
    BY <1>7, ConcatProperties
  <2> HIDE DEF n, m
  <2> QED BY <2>1, <2>2
<1>9. ASSUME NEW i \in 1 .. n + m PROVE w[i] = (u \o v)[i]
  <2>1. CASE i <= n
    <3>1. i \in 1 .. n
      BY <1>2, <2>1
    <3> QED BY <1>3, <1>4, <1>5, <1>8, <2>1, <3>1
  <2>2. CASE ~ (i <= n)
    <3>1. i - n \in 1 .. m
      BY <1>2, <2>2
    <3> QED BY <1>3, <1>4, <1>6, <1>8, <2>2, <3>1
  <2> QED BY <2>1, <2>2
<1> HIDE DEF u, v, w
<1>10. w = u \o v
  <2>1. w \in Seq(T) /\ Len(w) = n + m
    BY <1>4 DEF w
  <2> QED BY <1>8, <1>9, <2>1, SeqEqual
<1> QED BY <1>10 DEF u, v, w

NameChars == HostChars \cup {"."}

(* The marks are no characters of hosts. *)
LEMMA MarksAreNoHostChars ==
  /\ \A c \in {" ", ".", ":", "?", "/", "#", "https://", "www."} :
       c \notin HostChars /\ Lower(c) = c
  /\ \A c \in HostChars : Lower(c) \in HostChars /\ Lower(Lower(c)) = Lower(c)
  /\ \A c \in NameChars : Lower(c) \in NameChars /\ Lower(Lower(c)) = Lower(c)
<1> DEFINE D == DOMAIN LowerCase
           M == {" ", ".", ":", "?", "/", "#", "https://", "www."}
<1>1. /\ \A c \in D : LowerCase[c] \in Letters
      /\ \A c \in Letters : c \notin D
      /\ \A c \in M : c \notin Letters /\ c \notin D
  BY ScannerAssumption DEF Marks
<1>2. \A c \in M : c # "-"
  OBVIOUS
<1>3. \A c : Lower(c) = IF c \in D THEN LowerCase[c] ELSE c
  BY DEF Lower
<1>4. \A c : c \in HostChars <=> (c \in Letters \/ c \in D \/ c = "-")
  BY DEF HostChars
<1>5. \A c \in M : c \notin HostChars /\ Lower(c) = c
  <2> HIDE DEF D, M
  <2> QED BY <1>1, <1>2, <1>3, <1>4
<1>6. \A c \in HostChars : Lower(c) \in HostChars /\ Lower(Lower(c)) = Lower(c)
  <2> HIDE DEF D, M
  <2> QED BY <1>1, <1>3, <1>4
<1>7. "." \in M
  OBVIOUS
<1>8. \A c \in NameChars : Lower(c) \in NameChars /\ Lower(Lower(c)) = Lower(c)
  <2> HIDE DEF D, M
  <2> QED BY <1>5, <1>6, <1>7 DEF NameChars
<1> QED BY <1>5, <1>6, <1>8

(* A label has no dot in it. *)
LEMMA LabelsAreUndotted ==
  /\ Undotted(NameChars) = Seq(HostChars)
  /\ Label \subseteq Undotted(NameChars)
  /\ Seq(HostChars) \subseteq Seq(NameChars)
  /\ Seq(Label) \subseteq Seq(Undotted(NameChars)) /\ Seq(Label) \subseteq Seq(Seq(NameChars))
<1>1. NameChars \ {"."} = HostChars
  BY MarksAreNoHostChars DEF NameChars
<1>2. Undotted(NameChars) = Seq(HostChars)
  BY <1>1 DEF Undotted
<1>3. Label \subseteq Undotted(NameChars)
  BY <1>2 DEF Label
<1>4. Seq(HostChars) \subseteq Seq(NameChars)
  <2>1. HostChars \subseteq NameChars
    BY DEF NameChars
  <2> QED BY <2>1, SeqMonotonic
<1>5. Label \subseteq Seq(NameChars)
  BY <1>2, <1>3, <1>4
<1>6. Seq(Label) \subseteq Seq(Undotted(NameChars)) /\ Seq(Label) \subseteq Seq(Seq(NameChars))
  BY <1>3, <1>5, SeqMonotonic
<1> QED BY <1>2, <1>3, <1>4, <1>6

(* A label: its characters, and itself in lower case. *)
LEMMA LabelProperties ==
  ASSUME NEW x \in Label
  PROVE  /\ x \in Seq(HostChars) /\ x \in Seq(NameChars) /\ Len(x) \in Nat /\ Len(x) >= 1
         /\ \A i \in 1 .. Len(x) : x[i] \in HostChars
         /\ ToLower(x) \in Label /\ Len(ToLower(x)) = Len(x)
         /\ ToLower(ToLower(x)) = ToLower(x)
<1>1. x \in Seq(HostChars) /\ x # <<>>
  BY DEF Label
<1>2. Len(x) \in Nat /\ Len(x) >= 1 /\ \A i \in 1 .. Len(x) : x[i] \in HostChars
  BY <1>1, LenProperties, ElementOfSeq, EmptySeq
<1>3. x \in Seq(NameChars)
  BY <1>1, LabelsAreUndotted
<1>4. /\ ToLower(x) \in Seq(HostChars) /\ Len(ToLower(x)) = Len(x)
      /\ \A i \in 1 .. Len(x) : ToLower(x)[i] = Lower(x[i])
  BY <1>1, ToLowerProperties, MarksAreNoHostChars, ZenonT(40)
<1>5. ToLower(x) \in Label
  <2>1. ToLower(x) # <<>>
    BY <1>2, <1>4, EmptySeq
  <2> QED BY <1>4, <2>1 DEF Label
<1>6. ToLower(ToLower(x)) = ToLower(x)
  <2> DEFINE y == ToLower(x)
  <2>1. y \in Seq(HostChars) /\ Len(y) = Len(x) /\ \A i \in 1 .. Len(x) : y[i] = Lower(x[i])
    BY <1>4
  <2> HIDE DEF y
  <2>2. /\ ToLower(y) \in Seq(HostChars) /\ Len(ToLower(y)) = Len(y)
        /\ \A i \in 1 .. Len(y) : ToLower(y)[i] = Lower(y[i])
    <3>1. \A c \in HostChars : Lower(c) \in HostChars
      BY MarksAreNoHostChars
    <3>2. y \in Seq(HostChars)
      BY <2>1
    <3> QED BY <3>1, <3>2, ToLowerProperties
  <2>3. ASSUME NEW i \in 1 .. Len(y) PROVE ToLower(y)[i] = y[i]
    <3>1. x[i] \in HostChars /\ y[i] = Lower(x[i]) /\ ToLower(y)[i] = Lower(y[i])
      BY <1>2, <2>1, <2>2, <2>3
    <3>2. Lower(Lower(x[i])) = Lower(x[i])
      BY <3>1, MarksAreNoHostChars
    <3> QED BY <3>1, <3>2
  <2>4. ToLower(y) = y
    BY <2>1, <2>2, <2>3, SeqEqual
  <2> QED BY <2>4 DEF y
<1> QED BY <1>1, <1>2, <1>3, <1>4, <1>5, <1>6

(* Labels in lower case are labels. *)
LEMMA LoweredLabels ==
  ASSUME NEW l \in Seq(Label)
  PROVE  /\ Lowered(l) \in Seq(Label) /\ Len(Lowered(l)) = Len(l)
         /\ \A i \in 1 .. Len(l) : Lowered(l)[i] = ToLower(l[i])
<1>1. Len(l) \in Nat /\ DOMAIN l = 1 .. Len(l)
  BY LenProperties
<1>2. \A i \in 1 .. Len(l) : ToLower(l[i]) \in Label
  BY ElementOfSeq, LabelProperties
<1>3. Lowered(l) = [i \in 1 .. Len(l) |-> ToLower(l[i])]
  BY <1>1 DEF Lowered
<1>4. [i \in 1 .. Len(l) |-> ToLower(l[i])] \in Seq(Label)
  BY <1>1, <1>2
<1> QED BY <1>1, <1>3, <1>4

(* Lower case of a name is the name of its labels in lower case. *)
LEMMA DotsInLowerCase ==
  ASSUME NEW l \in Seq(Label)
  PROVE  ToLower(Dots(l)[Len(l)]) = Dots(Lowered(l))[Len(l)]
<1> DEFINE m == Len(l)
           k == Lowered(l)
           L == Dots(l)
           K == Dots(k)
           S == NameChars
<1>1. k \in Seq(Label) /\ Len(k) = m /\ \A i \in 1 .. m : k[i] = ToLower(l[i])
  BY LoweredLabels
<1>2. m \in Nat /\ "." \in S
  BY LenProperties DEF NameChars
<1>3. l \in Seq(Seq(S)) /\ k \in Seq(Seq(S))
  BY <1>1, LabelsAreUndotted
<1>4. /\ L \in [0 .. m -> Seq(S)] /\ L[0] = <<>>
      /\ \A i \in 1 .. m : L[i] = L[i - 1] \o <<".">> \o l[i]
  BY <1>2, <1>3, DotsStep
<1> HIDE DEF k
<1>5. /\ K \in [0 .. m -> Seq(S)] /\ K[0] = <<>>
      /\ \A i \in 1 .. m : K[i] = K[i - 1] \o <<".">> \o k[i]
  BY <1>1, <1>2, <1>3, DotsStep
<1>6. \A i \in 1 .. m : l[i] \in Seq(S)
  BY <1>3, ElementOfSeq
<1>7. \A c \in S : Lower(c) \in S
  BY MarksAreNoHostChars
<1> HIDE DEF m, L, K, S
<1> DEFINE T == {i \in 0 .. m : ToLower(L[i]) = K[i]}
<1>8. 0 \in T
  <2>1. ToLower(<<>>) = <<>>
    <3>1. <<>> \in Seq(S)
      BY EmptySeq
    <3> DEFINE e == <<>>
    <3>2. e \in Seq(S) /\ Len(e) = 0
      BY EmptySeq
    <3> HIDE DEF e
    <3>3. ToLower(e) \in Seq(S) /\ Len(ToLower(e)) = 0
      BY <1>7, <3>2, ToLowerProperties
    <3>4. ToLower(e) = <<>>
      BY <3>3, EmptySeq
    <3> QED BY <3>4 DEF e
  <2>2. 0 \in 0 .. m
    BY <1>2
  <2> QED BY <1>4, <1>5, <2>1, <2>2
<1>9. ASSUME NEW i \in 0 .. m, i \in T, i < m PROVE i + 1 \in T
  <2>1. i + 1 \in 1 .. m /\ i + 1 \in 0 .. m /\ (i + 1) - 1 = i
    BY <1>2, <1>9
  <2> DEFINE dot == <<".">>
             x == L[i]
             y == l[i + 1]
  <2>2. x \in Seq(S) /\ y \in Seq(S) /\ ToLower(x) = K[i] /\ ToLower(y) = k[i + 1]
    BY <1>1, <1>4, <1>6, <1>9, <2>1
  <2>3. L[i + 1] = x \o dot \o y /\ K[i + 1] = K[i] \o dot \o k[i + 1]
    BY <1>4, <1>5, <2>1
  <2>4. dot \in Seq(S) /\ Len(dot) = 1 /\ dot[1] = "."
    BY <1>2
  <2>5. ToLower(dot) = dot
    <3> HIDE DEF dot
    <3>1. /\ ToLower(dot) \in Seq(S) /\ Len(ToLower(dot)) = 1
          /\ \A j \in 1 .. 1 : ToLower(dot)[j] = Lower(dot[j])
      BY <1>7, <2>4, ToLowerProperties, ZenonT(40)
    <3>2. \A j \in 1 .. 1 : ToLower(dot)[j] = dot[j]
      <4>1. Lower(".") = "."
        BY MarksAreNoHostChars
      <4>2. \A j \in 1 .. 1 : j = 1
        OBVIOUS
      <4> QED BY <2>4, <3>1, <4>1, <4>2
    <3> QED BY <2>4, <3>1, <3>2, SeqEqual
  <2> HIDE DEF dot, x, y
  <2>6. x \o dot \in Seq(S) /\ ToLower(x \o dot) = ToLower(x) \o dot
    BY <2>2, <2>4, <2>5, ConcatProperties, ToLowerConcat, ZenonT(40)
  <2>7. ToLower((x \o dot) \o y) = ToLower(x \o dot) \o ToLower(y)
    BY <2>2, <2>6, ToLowerConcat
  <2>8. ToLower(L[i + 1]) = K[i + 1]
    BY <2>2, <2>3, <2>6, <2>7
  <2> QED BY <2>1, <2>8
<1>10. 0 .. m \subseteq T
  <2> HIDE DEF T
  <2> QED BY <1>2, <1>8, <1>9, Upward
<1>11. ToLower(L[m]) = K[m]
  BY <1>2, <1>10
<1> QED BY <1>11 DEF m, L, K, k

(* One character before a text. *)
LEMMA CharBefore ==
  ASSUME NEW S, NEW c \in S, NEW s \in Seq(S)
  PROVE  /\ <<c>> \o s \in Seq(S) /\ Len(<<c>> \o s) = Len(s) + 1
         /\ (<<c>> \o s)[1] = c
         /\ \A i \in 1 .. Len(s) : (<<c>> \o s)[i + 1] = s[i]
         /\ <<c>> \o s # <<>> /\ Head(<<c>> \o s) = c /\ Tail(<<c>> \o s) = s
<1> DEFINE e == <<c>>
<1>1. e \in Seq(S) /\ Len(e) = 1 /\ e[1] = c
  OBVIOUS
<1> HIDE DEF e
<1>2. Len(s) \in Nat
  BY LenProperties
<1> DEFINE t == e \o s
<1>3. /\ t \in Seq(S) /\ Len(t) = Len(s) + 1
      /\ \A i \in 1 .. Len(s) + 1 : t[i] = IF i <= 1 THEN e[i] ELSE s[i - 1]
  <2>1. /\ e \o s \in Seq(S) /\ Len(e \o s) = Len(e) + Len(s)
        /\ \A i \in 1 .. Len(e) + Len(s) : (e \o s)[i] = IF i <= Len(e) THEN e[i] ELSE s[i - Len(e)]
    BY <1>1, ConcatProperties
  <2> QED BY <1>1, <1>2, <2>1
<1> HIDE DEF t
<1>4. t[1] = c
  <2>1. 1 \in 1 .. Len(s) + 1
    BY <1>2
  <2> QED BY <1>1, <1>3, <2>1
<1>5. ASSUME NEW i \in 1 .. Len(s) PROVE t[i + 1] = s[i]
  <2>1. i + 1 \in 1 .. Len(s) + 1 /\ ~ (i + 1 <= 1) /\ (i + 1) - 1 = i
    BY <1>2
  <2> QED BY <1>3, <2>1
<1>6. t # <<>>
  BY <1>2, <1>3, EmptySeq
<1>7. Head(t) = c
  BY <1>3, <1>4, <1>6
<1>8. Tail(t) = s
  <2>1. /\ Tail(t) \in Seq(S) /\ Len(Tail(t)) = Len(t) - 1
        /\ \A i \in 1 .. Len(Tail(t)) : Tail(t)[i] = t[i + 1]
    BY <1>3, <1>6, HeadTailProperties
  <2>2. Len(Tail(t)) = Len(s) /\ \A i \in 1 .. Len(Tail(t)) : Tail(t)[i] = s[i]
    BY <1>2, <1>3, <1>5, <2>1
  <2> QED BY <2>1, <2>2, SeqEqual
<1> QED BY <1>3, <1>4, <1>5, <1>6, <1>7, <1>8 DEF t, e

(* The name of labels: what it begins and ends with, and in lower case. *)
LEMMA NameProperties ==
  ASSUME NEW l \in Seq(Label), l # <<>>
  PROVE  /\ Dotted(l) \in Seq(NameChars) /\ Len(Dotted(l)) \in Nat /\ Len(Dotted(l)) >= 1
         /\ Dots(l)[Len(l)] = <<".">> \o Dotted(l)
         /\ Dotted(l)[1] \in HostChars /\ Dotted(l)[Len(Dotted(l))] \in HostChars
         /\ ToLower(Dotted(l)) = Dotted(Lowered(l))
<1> DEFINE m == Len(l)
           L == Dots(l)
           S == NameChars
<1>1. m \in Nat /\ m >= 1 /\ "." \in S
  BY EmptySeq DEF NameChars
<1>2. l \in Seq(Seq(S))
  BY LabelsAreUndotted
<1>3. /\ L \in [0 .. m -> Seq(S)] /\ L[0] = <<>>
      /\ \A i \in 1 .. m : L[i] = L[i - 1] \o <<".">> \o l[i]
  BY <1>1, <1>2, DotsStep
<1>4. \A i \in 1 .. m : l[i] \in Label
  BY ElementOfSeq
<1> HIDE DEF m, L
<1> DEFINE T == {i \in 0 .. m : i >= 1 => /\ Len(L[i]) >= 2 /\ L[i][1] = "." /\ L[i][2] \in HostChars
                                          /\ L[i][Len(L[i])] \in HostChars}
<1>5. 0 \in T
  BY <1>1
<1>6. ASSUME NEW i \in 0 .. m, i \in T, i < m PROVE i + 1 \in T
  <2>1. i + 1 \in 1 .. m /\ i + 1 \in 0 .. m /\ (i + 1) - 1 = i /\ (i # 0 => i >= 1)
    BY <1>1, <1>6
  <2> DEFINE u == L[i]
             x == l[i + 1]
             s == u \o <<".">> \o x
  <2>2. L[i + 1] = s
    BY <1>3, <2>1
  <2>3. u \in Seq(S) /\ x \in Seq(S) /\ Len(x) >= 1 /\ (\A j \in 1 .. Len(x) : x[j] \in HostChars)
    BY <1>3, <1>4, <2>1, LabelProperties
  <2>4. i >= 1 => Len(u) >= 2 /\ u[1] = "." /\ u[2] \in HostChars
    BY <1>6
  <2>5. i = 0 => Len(u) = 0
    BY <1>3
  <2> HIDE DEF u, x
  <2>6. Len(u) \in Nat /\ Len(x) \in Nat
    BY <2>3, LenProperties
  <2>7. /\ Len(s) = Len(u) + 1 + Len(x)
        /\ \A j \in 1 .. Len(u) : s[j] = u[j]
        /\ s[Len(u) + 1] = "."
        /\ \A j \in 1 .. Len(x) : s[Len(u) + 1 + j] = x[j]
    BY <1>1, <2>3, DotBetween
  <2> HIDE DEF s
  <2>8. Len(s) >= 2
    BY <2>3, <2>6, <2>7
  <2>9. s[Len(s)] \in HostChars
    <3>1. Len(x) \in 1 .. Len(x)
      BY <2>3, <2>6
    <3> QED BY <2>3, <2>7, <3>1
  <2>10. s[1] = "." /\ s[2] \in HostChars
    <3>1. CASE i = 0
      <4>1. 1 \in 1 .. Len(x) /\ Len(u) + 1 = 1 /\ Len(u) + 1 + 1 = 2
        BY <2>3, <2>5, <2>6, <3>1
      <4>2. s[Len(u) + 1 + 1] = x[1]
        BY <2>7, <4>1
      <4> QED BY <2>3, <2>7, <4>1, <4>2
    <3>2. CASE i # 0
      <4>1. 1 \in 1 .. Len(u) /\ 2 \in 1 .. Len(u) /\ u[1] = "." /\ u[2] \in HostChars
        BY <2>1, <2>4, <2>6, <3>2
      <4> QED BY <2>7, <4>1
    <3> QED BY <3>1, <3>2
  <2> QED BY <2>1, <2>2, <2>8, <2>9, <2>10
<1>7. m \in T
  <2> HIDE DEF T
  <2>1. 0 .. m \subseteq T
    BY <1>1, <1>5, <1>6, Upward
  <2> QED BY <1>1, <2>1
<1> DEFINE s == L[m]
           h == Tail(s)
<1>8. s \in Seq(S) /\ Len(s) >= 2 /\ s[1] = "." /\ s[2] \in HostChars /\ s[Len(s)] \in HostChars
  BY <1>1, <1>3, <1>7
<1>9. h = Dotted(l)
  BY DEF Dotted, L, m
<1>10. ToLower(s) = Dots(Lowered(l))[m]
  BY DotsInLowerCase DEF m, L
<1> HIDE DEF s
<1>11. Len(s) \in Nat /\ s # <<>>
  BY <1>8, EmptySeq
<1>12. /\ h \in Seq(S) /\ Len(h) = Len(s) - 1
       /\ \A i \in 1 .. Len(h) : h[i] = s[i + 1]
  BY <1>8, <1>11, HeadTailProperties
<1> HIDE DEF h
<1>13. Len(h) \in Nat /\ Len(h) >= 1
  BY <1>8, <1>11, <1>12
<1>14. h[1] \in HostChars /\ h[Len(h)] \in HostChars
  <2>1. 1 \in 1 .. Len(h) /\ Len(h) \in 1 .. Len(h) /\ Len(h) + 1 = Len(s)
    BY <1>11, <1>12, <1>13
  <2>2. h[1] = s[1 + 1] /\ h[Len(h)] = s[Len(h) + 1]
    BY <1>12, <2>1
  <2> QED BY <1>8, <2>1, <2>2
<1>15. s = <<".">> \o h
  <2> DEFINE t == <<".">> \o h
  <2>1. t \in Seq(S) /\ Len(t) = Len(h) + 1 /\ t[1] = "." /\ \A i \in 1 .. Len(h) : t[i + 1] = h[i]
    BY <1>1, <1>12, CharBefore
  <2> HIDE DEF t
  <2>2. ASSUME NEW i \in 1 .. Len(s) PROVE s[i] = t[i]
    <3>1. CASE i = 1
      BY <1>8, <2>1, <3>1
    <3>2. CASE i # 1
      <4>1. i - 1 \in 1 .. Len(h) /\ (i - 1) + 1 = i
        BY <1>11, <1>12, <3>2
      <4>2. h[i - 1] = s[(i - 1) + 1] /\ t[(i - 1) + 1] = h[i - 1]
        BY <1>12, <2>1, <4>1
      <4> QED BY <4>1, <4>2
    <3> QED BY <3>1, <3>2
  <2>3. Len(t) = Len(s)
    BY <1>11, <1>12, <2>1
  <2>4. s = t
    BY <1>8, <2>1, <2>2, <2>3, SeqEqual
  <2> QED BY <2>4 DEF t
<1>16. ToLower(h) = Tail(ToLower(s))
  <2>0. \A c \in S : Lower(c) \in S
    BY MarksAreNoHostChars
  <2> HIDE DEF S
  <2> DEFINE r == ToLower(s)
             g == ToLower(h)
  <2>1. r \in Seq(S) /\ Len(r) = Len(s) /\ \A i \in 1 .. Len(s) : r[i] = Lower(s[i])
    BY <1>8, <2>0, ToLowerProperties
  <2>2. g \in Seq(S) /\ Len(g) = Len(h) /\ \A i \in 1 .. Len(h) : g[i] = Lower(h[i])
    BY <1>12, <2>0, ToLowerProperties
  <2> HIDE DEF r, g
  <2>3. r # <<>>
    BY <1>8, <2>1, EmptySeq
  <2>4. /\ Tail(r) \in Seq(S) /\ Len(Tail(r)) = Len(r) - 1
        /\ \A i \in 1 .. Len(Tail(r)) : Tail(r)[i] = r[i + 1]
    BY <2>1, <2>3, HeadTailProperties
  <2>5. Len(Tail(r)) = Len(g)
    BY <1>12, <2>1, <2>2, <2>4
  <2>6. ASSUME NEW i \in 1 .. Len(g) PROVE g[i] = Tail(r)[i]
    <3>1. i \in 1 .. Len(h) /\ i + 1 \in 1 .. Len(s) /\ i \in 1 .. Len(Tail(r))
      <4>1. Len(g) = Len(h) /\ Len(Tail(r)) = Len(h)
        BY <2>2, <2>5
      <4>2. Len(h) \in Nat /\ Len(s) = Len(h) + 1
        BY <1>11, <1>12, <1>13
      <4> QED BY <4>1, <4>2
    <3> QED BY <1>12, <2>1, <2>2, <2>4, <3>1
  <2>7. g = Tail(r)
    BY <2>2, <2>4, <2>5, <2>6, SeqEqual
  <2> QED BY <2>7 DEF r, g
<1>17. Tail(ToLower(s)) = Dotted(Lowered(l))
  <2>1. Len(Lowered(l)) = m
    BY LoweredLabels DEF m
  <2> QED BY <1>10, <2>1 DEF Dotted
<1>18. Dots(l)[Len(l)] = s
  BY DEF s, L, m
<1> QED BY <1>9, <1>12, <1>13, <1>14, <1>15, <1>16, <1>17, <1>18

(* With the same character before both. *)
LEMMA SuffixWithDot ==
  ASSUME NEW S, NEW c \in S, NEW a \in Seq(S), NEW h \in Seq(S)
  PROVE  IsSuffix(<<c>> \o a, <<c>> \o h) <=> a = h \/ IsSuffix(<<c>> \o a, h)
<1> DEFINE ca == <<c>> \o a
           ch == <<c>> \o h
<1>1. ca \in Seq(S) /\ Len(ca) = Len(a) + 1 /\ ca[1] = c /\ \A i \in 1 .. Len(a) : ca[i + 1] = a[i]
  BY CharBefore
<1>2. ch \in Seq(S) /\ Len(ch) = Len(h) + 1 /\ ch[1] = c /\ \A i \in 1 .. Len(h) : ch[i + 1] = h[i]
  BY CharBefore
<1> HIDE DEF ca, ch
<1>3. Len(a) \in Nat /\ Len(h) \in Nat
  BY LenProperties
<1>4. IsSuffix(ca, ch) <=> Len(ca) <= Len(ch) /\ \A i \in 1 .. Len(ca) : ch[Len(ch) - Len(ca) + i] = ca[i]
  BY <1>1, <1>2, SuffixIsTheEnd
<1>5. IsSuffix(ca, h) <=> Len(ca) <= Len(h) /\ \A i \in 1 .. Len(ca) : h[Len(h) - Len(ca) + i] = ca[i]
  BY <1>1, SuffixIsTheEnd
<1>6. CASE Len(a) = Len(h)
  <2>1. ~ IsSuffix(ca, h)
    BY <1>1, <1>3, <1>5, <1>6
  <2>2. ASSUME IsSuffix(ca, ch), NEW i \in 1 .. Len(a) PROVE a[i] = h[i]
    <3>1. i + 1 \in 1 .. Len(ca) /\ Len(ch) - Len(ca) + (i + 1) = i + 1 /\ i \in 1 .. Len(h)
      BY <1>1, <1>2, <1>3, <1>6
    <3>2. ch[Len(ch) - Len(ca) + (i + 1)] = ca[i + 1]
      BY <1>4, <2>2, <3>1
    <3> QED BY <1>1, <1>2, <3>1, <3>2
  <2>3. IsSuffix(ca, ch) => a = h
    BY <1>6, <2>2, SeqEqual
  <2>4. ASSUME a = h PROVE IsSuffix(ca, ch)
    <3>1. ca = ch
      BY <2>4 DEF ca, ch
    <3>2. Len(ca) <= Len(ch) /\ \A i \in 1 .. Len(ca) : Len(ch) - Len(ca) + i = i
      BY <1>1, <1>2, <1>3, <3>1, SMTT(30)
    <3>3. \A i \in 1 .. Len(ca) : ch[Len(ch) - Len(ca) + i] = ca[i]
      BY <3>1, <3>2
    <3> QED BY <1>4, <3>2, <3>3
  <2> QED BY <2>1, <2>3, <2>4 DEF ca, ch
<1>7. CASE Len(a) # Len(h)
  <2>1. a # h
    BY <1>7
  <2>2. IsSuffix(ca, ch) <=> IsSuffix(ca, h)
    <3>1. Len(ca) <= Len(ch) <=> Len(ca) <= Len(h)
      BY <1>1, <1>2, <1>3, <1>7
    <3>2. ASSUME Len(ca) <= Len(h), NEW i \in 1 .. Len(ca)
          PROVE ch[Len(ch) - Len(ca) + i] = h[Len(h) - Len(ca) + i]
      <4>1. Len(h) - Len(ca) + i \in 1 .. Len(h) /\ (Len(h) - Len(ca) + i) + 1 = Len(ch) - Len(ca) + i
        BY <1>1, <1>2, <1>3, <3>2
      <4>2. ch[(Len(h) - Len(ca) + i) + 1] = h[Len(h) - Len(ca) + i]
        BY <1>2, <4>1
      <4> QED BY <4>1, <4>2
    <3> QED BY <1>4, <1>5, <3>1, <3>2
  <2> QED BY <2>1, <2>2 DEF ca, ch
<1> QED BY <1>6, <1>7

(* Least is the least member. *)
LEMMA LeastIs ==
  ASSUME NEW T, T \subseteq Int, NEW k \in T, \A j \in T : k <= j
  PROVE  Least(T) = k
<1>1. \E i \in T : \A j \in T : i <= j
  OBVIOUS
<1>2. Least(T) \in T /\ \A j \in T : Least(T) <= j
  BY <1>1 DEF Least
<1>3. Least(T) \in Int /\ k \in Int /\ Least(T) <= k /\ k <= Least(T)
  BY <1>2
<1> QED BY <1>3

(* Greatest is the greatest member. *)
LEMMA GreatestIs ==
  ASSUME NEW T, T \subseteq Int, NEW k \in T, \A j \in T : k >= j
  PROVE  Greatest(T) = k
<1>1. \E i \in T : \A j \in T : i >= j
  OBVIOUS
<1>2. Greatest(T) \in T /\ \A j \in T : Greatest(T) >= j
  BY <1>1 DEF Greatest
<1>3. Greatest(T) \in Int /\ k \in Int /\ Greatest(T) <= k /\ k <= Greatest(T)
  BY <1>2
<1> QED BY <1>3

(* Of a text that ends in characters of A, without others at its ends. *)
LEMMA TrimEnds ==
  ASSUME NEW S, NEW A, NEW a \in Seq(S), NEW b \in Seq(S),
         Len(a) >= 1, a[1] \notin A, a[Len(a)] \notin A, \A i \in 1 .. Len(b) : b[i] \in A
  PROVE  Trim(a \o b, A) = a
<1> DEFINE n == Len(a)
           m == Len(b)
           s == a \o b
           keep == {i \in DOMAIN s : s[i] \notin A}
<1>1. n \in Nat /\ n >= 1 /\ m \in Nat
  BY LenProperties
<1>2. s \in Seq(S) /\ Len(s) = n + m /\ \A i \in 1 .. n + m : s[i] = IF i <= n THEN a[i] ELSE b[i - n]
  BY ConcatProperties
<1>3. DOMAIN s = 1 .. n + m
  BY <1>2, LenProperties
<1>4. 1 \in keep /\ n \in keep
  BY <1>1, <1>2, <1>3
<1>5. \A i \in keep : i \in 1 .. n
  <2> SUFFICES ASSUME NEW i \in 1 .. n + m, s[i] \notin A, ~ (i <= n) PROVE FALSE
    BY <1>1, <1>3
  <2>1. i - n \in 1 .. m
    BY <1>1
  <2> QED BY <1>2, <2>1
<1>6. Least(keep) = 1
  <2> HIDE DEF keep
  <2>1. keep \subseteq Int /\ \A j \in keep : 1 <= j
    BY <1>5
  <2> QED BY <1>4, <2>1, LeastIs
<1>7. Greatest(keep) = n
  <2> HIDE DEF keep
  <2>1. keep \subseteq Int /\ \A j \in keep : n >= j
    BY <1>1, <1>5
  <2> QED BY <1>4, <2>1, GreatestIs
<1>8. SubSeq(s, 1, n) = a
  <2> HIDE DEF s, n
  <2>1. \A i \in 1 .. n : s[i] = a[i] /\ a[i] \in S
    <3>1. \A i \in 1 .. n : i \in 1 .. n + m /\ i <= n
      BY <1>1
    <3>2. \A i \in 1 .. n : a[i] \in S
      BY ElementOfSeq DEF n
    <3> QED BY <1>2, <3>1, <3>2
  <2>2. /\ SubSeq(s, 1, n) \in Seq(S) /\ Len(SubSeq(s, 1, n)) = n
        /\ \A i \in 1 .. n : SubSeq(s, 1, n)[i] = s[i]
    <3>1. /\ SubSeq(s, 1, n) \in Seq(S) /\ Len(SubSeq(s, 1, n)) = IF 1 <= n THEN n - 1 + 1 ELSE 0
          /\ \A i \in 1 .. n - 1 + 1 : SubSeq(s, 1, n)[i] = s[1 + i - 1]
      BY <1>1, <2>1, SubSeqProperties
    <3> QED BY <1>1, <3>1
  <2>3. \A i \in 1 .. n : SubSeq(s, 1, n)[i] = a[i]
    BY <2>1, <2>2
  <2> QED BY <2>2, <2>3, SeqEqual DEF n
<1>9. Trim(s, A) = IF keep = {} THEN <<>> ELSE SubSeq(s, Least(keep), Greatest(keep))
  BY DEF Trim
<1> HIDE DEF keep, s, n
<1>10. Trim(s, A) = a
  BY <1>4, <1>6, <1>7, <1>8, <1>9
<1> QED BY <1>10 DEF s

(* Up to the first character of A. *)
LEMMA UpToFirst ==
  ASSUME NEW S, NEW A, NEW a \in Seq(S), NEW b \in Seq(S),
         \A i \in 1 .. Len(a) : a[i] \notin A, Len(b) >= 1 => b[1] \in A
  PROVE  UpTo(a \o b, A) = a
<1> DEFINE n == Len(a)
           m == Len(b)
           s == a \o b
           stops == {i \in DOMAIN s : s[i] \in A}
<1>1. n \in Nat /\ m \in Nat
  BY LenProperties
<1>2. s \in Seq(S) /\ Len(s) = n + m /\ \A i \in 1 .. n + m : s[i] = IF i <= n THEN a[i] ELSE b[i - n]
  BY ConcatProperties
<1>3. DOMAIN s = 1 .. n + m
  BY <1>2, LenProperties
<1>4. \A i \in stops : i \in 1 .. n + m /\ i >= n + 1
  <2> SUFFICES ASSUME NEW i \in 1 .. n + m, s[i] \in A, ~ (i >= n + 1) PROVE FALSE
    BY <1>1, <1>3
  <2>1. i \in 1 .. n /\ i <= n
    BY <1>1
  <2> QED BY <1>2, <2>1
<1>5. UpTo(s, A) = IF stops = {} THEN s ELSE SubSeq(s, 1, Least(stops) - 1)
  BY DEF UpTo
<1>6. CASE m = 0
  <2>1. stops = {}
    BY <1>1, <1>4, <1>6
  <2>2. b = <<>>
    BY <1>6, EmptySeq
  <2>3. s = a
    BY <2>2, ConcatEmptySeq
  <2> HIDE DEF stops
  <2> QED BY <1>5, <2>1, <2>3
<1>7. CASE m # 0
  <2>1. n + 1 \in 1 .. n + m /\ ~ (n + 1 <= n) /\ (n + 1) - n = 1 /\ m >= 1
    BY <1>1, <1>7
  <2>2. s[n + 1] \in A
    BY <1>2, <2>1
  <2>3. n + 1 \in stops
    BY <1>3, <2>1, <2>2
  <2>4. Least(stops) = n + 1
    <3> HIDE DEF stops
    <3>1. stops \subseteq Int
      BY <1>4
    <3> QED BY <1>4, <2>3, <3>1, LeastIs
  <2>5. UpTo(s, A) = SubSeq(s, 1, n)
    <3> HIDE DEF stops
    <3>1. n + 1 - 1 = n
      BY <1>1
    <3> QED BY <1>5, <2>3, <2>4, <3>1
  <2>6. SubSeq(s, 1, n) = a
    <3> HIDE DEF s, n
    <3>1. \A i \in 1 .. n : s[i] = a[i] /\ a[i] \in S
      <4>1. \A i \in 1 .. n : i \in 1 .. n + m /\ i <= n
        BY <1>1
      <4>2. \A i \in 1 .. n : a[i] \in S
        BY ElementOfSeq DEF n
      <4> QED BY <1>2, <4>1, <4>2
    <3>2. /\ SubSeq(s, 1, n) \in Seq(S) /\ Len(SubSeq(s, 1, n)) = n
          /\ \A i \in 1 .. n : SubSeq(s, 1, n)[i] = s[i]
      <4>1. /\ SubSeq(s, 1, n) \in Seq(S) /\ Len(SubSeq(s, 1, n)) = IF 1 <= n THEN n - 1 + 1 ELSE 0
            /\ \A i \in 1 .. n - 1 + 1 : SubSeq(s, 1, n)[i] = s[1 + i - 1]
        BY <1>1, <3>1, SubSeqProperties
      <4> QED BY <1>1, <4>1
    <3>3. \A i \in 1 .. n : SubSeq(s, 1, n)[i] = a[i]
      BY <3>1, <3>2
    <3> QED BY <3>2, <3>3, SeqEqual DEF n
  <2> QED BY <2>5, <2>6
<1> QED BY <1>6, <1>7

(* Trim leaves alone what begins and ends otherwise. *)
LEMMA TrimWhole ==
  ASSUME NEW S, NEW A, NEW a \in Seq(S), Len(a) >= 1, a[1] \notin A, a[Len(a)] \notin A
  PROVE  Trim(a, A) = a
<1> DEFINE b == <<>>
<1>1. b \in Seq(S) /\ Len(b) = 0 /\ a \o b = a
  BY EmptySeq, ConcatEmptySeq
<1> HIDE DEF b
<1>2. \A i \in 1 .. Len(b) : b[i] \in A
  BY <1>1
<1>3. Trim(a \o b, A) = a
  BY <1>1, <1>2, TrimEnds
<1> QED BY <1>1, <1>3

(* UpTo leaves alone what holds no character of A. *)
LEMMA UpToEnd ==
  ASSUME NEW S, NEW A, NEW a \in Seq(S), \A i \in 1 .. Len(a) : a[i] \notin A
  PROVE  UpTo(a, A) = a
<1> DEFINE b == <<>>
<1>1. b \in Seq(S) /\ Len(b) = 0 /\ a \o b = a
  BY EmptySeq, ConcatEmptySeq
<1> HIDE DEF b
<1>2. ~ (Len(b) >= 1)
  BY <1>1
<1>3. UpTo(a \o b, A) = a
  BY <1>1, <1>2, UpToFirst
<1> QED BY <1>1, <1>3

(* TrimPrefix leaves alone what begins otherwise. *)
LEMMA TrimPrefixOfOther ==
  ASSUME NEW S, NEW c, NEW s \in Seq(S), Len(s) >= 1, s[1] # c
  PROVE  TrimPrefix(s, c) = s
<1>1. s # <<>>
  BY EmptySeq
<1>2. Head(s) = s[1]
  BY <1>1
<1> QED BY <1>2 DEF TrimPrefix

(* TrimPrefix takes one character away. *)
LEMMA TrimPrefixOfSame ==
  ASSUME NEW S, NEW c \in S, NEW s \in Seq(S)
  PROVE  TrimPrefix(<<c>> \o s, c) = s
<1> DEFINE t == <<c>> \o s
<1>1. t # <<>> /\ Head(t) = c /\ Tail(t) = s
  BY CharBefore
<1> HIDE DEF t
<1>2. TrimPrefix(t, c) = s
  BY <1>1 DEF TrimPrefix
<1> QED BY <1>2 DEF t

(* TrimSuffix leaves alone what ends otherwise. *)
LEMMA TrimSuffixOfOther ==
  ASSUME NEW S, NEW c, NEW s \in Seq(S), s[Len(s)] # c
  PROVE  TrimSuffix(s, c) = s
BY DEF TrimSuffix, Last

(* What a domain is that begins and ends with a character of hosts. *)
LEMMA NormalDomain ==
  ASSUME NEW h \in Seq(NameChars), Len(h) >= 1, h[1] \in HostChars, h[Len(h)] \in HostChars
  PROVE  normalizeDomain(h) = ToLower(h)
<1> DEFINE g == ToLower(h)
<1>0. Len(h) \in Nat
  BY LenProperties
<1>1. Trim(h, {" "}) = h
  <2>1. h[1] \notin {" "} /\ h[Len(h)] \notin {" "}
    BY MarksAreNoHostChars
  <2> QED BY <2>1, TrimWhole
<1>2. g \in Seq(NameChars) /\ Len(g) = Len(h) /\ \A i \in 1 .. Len(h) : g[i] = Lower(h[i])
  <2>1. \A c \in NameChars : Lower(c) \in NameChars
    BY MarksAreNoHostChars
  <2> QED BY <2>1, ToLowerProperties
<1>3. g[1] \in HostChars /\ g[Len(g)] \in HostChars
  <2>1. 1 \in 1 .. Len(h) /\ Len(h) \in 1 .. Len(h)
    BY <1>0
  <2> QED BY <1>2, <2>1, MarksAreNoHostChars
<1> HIDE DEF g
<1>4. g[1] # "https://" /\ g[1] # "www." /\ g[Len(g)] # "."
  BY <1>3, MarksAreNoHostChars
<1>5. TrimPrefix(g, "https://") = g /\ TrimPrefix(g, "www.") = g
  BY <1>2, <1>4, TrimPrefixOfOther
<1>6. UpTo(g, {"/", "?", "#", ":"}) = g
  <2> DEFINE A == {"/", "?", "#", ":"}
  <2>1. \A c \in A : c \notin NameChars
    BY MarksAreNoHostChars DEF NameChars
  <2> HIDE DEF A
  <2>2. \A i \in 1 .. Len(g) : g[i] \notin A
    BY <1>2, <2>1, ElementOfSeq
  <2>3. UpTo(g, A) = g
    BY <1>2, <2>2, UpToEnd
  <2> QED BY <2>3 DEF A
<1>7. TrimSuffix(g, ".") = g
  BY <1>2, <1>4, TrimSuffixOfOther
<1>8. normalizeDomain(h) =
        TrimSuffix(UpTo(TrimPrefix(TrimPrefix(g, "https://"), "www."), {"/", "?", "#", ":"}), ".")
  BY <1>1 DEF normalizeDomain, g
<1> QED BY <1>5, <1>6, <1>7, <1>8 DEF g

Signs == NameChars \cup Marks \cup {"a", "b", "1"}
Ends == {" ", ".", ":", "?"}
Stops == {"/", "?", "#", ":"}
Rests == {<<>>, <<".">>, <<"/", "a">>, <<":", "1", "/">>, <<"?", ".", "b">>}

(* What may follow a host: nothing, a dot, or a text that stops the host and *)
(* does not end as normalizeHost trims it.                                 *)
LEMMA RestProperties ==
  ASSUME NEW rest \in Rests, rest # <<".">>
  PROVE  /\ rest \in Seq(Signs)
         /\ rest = <<>> \/ (Len(rest) >= 1 /\ rest[1] \in Stops /\ rest[Len(rest)] \notin Ends)
<1> DEFINE A == {"a", "b", "1", "/", ":", "?", "."}
<1>1. A \subseteq Signs
  BY DEF Signs, Marks
<1>2. CASE rest = <<>>
  BY <1>2
<1>3. CASE rest = <<"/", "a">>
  <2>1. rest \in Seq(Signs)
    BY <1>1, <1>3
  <2> QED BY <1>3, <2>1 DEF Stops, Ends
<1>4. CASE rest = <<":", "1", "/">>
  <2>1. rest \in Seq(Signs)
    BY <1>1, <1>4
  <2> QED BY <1>4, <2>1 DEF Stops, Ends
<1>5. CASE rest = <<"?", ".", "b">>
  <2>1. rest \in Seq(Signs)
    BY <1>1, <1>5
  <2> QED BY <1>5, <2>1 DEF Stops, Ends
<1> QED BY <1>2, <1>3, <1>4, <1>5 DEF Rests

(* The end of two texts one after the other. *)
LEMMA ConcatEnd ==
  ASSUME NEW S, NEW u \in Seq(S), NEW v \in Seq(S), Len(u) >= 1
  PROVE  /\ u \o v \in Seq(S) /\ Len(u \o v) >= 1
         /\ (u \o v)[1] = u[1]
         /\ (u \o v)[Len(u \o v)] = IF Len(v) >= 1 THEN v[Len(v)] ELSE u[Len(u)]
<1> DEFINE t == u \o v
           n == Len(u)
           m == Len(v)
<1>1. n \in Nat /\ m \in Nat /\ n >= 1
  BY LenProperties
<1>2. t \in Seq(S) /\ Len(t) = n + m /\ \A i \in 1 .. n + m : t[i] = IF i <= n THEN u[i] ELSE v[i - n]
  BY ConcatProperties
<1> HIDE DEF t, n, m
<1>3. 1 \in 1 .. n + m /\ 1 <= n /\ n + m \in 1 .. n + m /\ (m >= 1 => ~ (n + m <= n)) /\ (~ (m >= 1) => n + m = n)
      /\ (n + m) - n = m
  BY <1>1
<1>4. t[1] = u[1]
  BY <1>2, <1>3
<1>5. t[Len(t)] = IF m >= 1 THEN v[m] ELSE u[n]
  BY <1>1, <1>2, <1>3
<1>6. Len(t) >= 1
  BY <1>1, <1>2
<1> QED BY <1>2, <1>4, <1>5, <1>6 DEF t, n, m

(* The host is found again, whatever is written before and after it. *)
LEMMA HostInLink ==
  ASSUME NEW g \in Seq(Signs), Len(g) >= 1, g[1] \notin Ends, g[1] # "https://",
         g[Len(g)] \notin Ends, \A i \in 1 .. Len(g) : g[i] \notin Stops,
         NEW scheme \in BOOLEAN, NEW rest \in Rests
  PROVE  UpTo(TrimPrefix(Trim((IF scheme THEN <<"https://">> \o g ELSE g) \o rest, Ends), "https://"),
              Stops) = g
<1> DEFINE f == IF scheme THEN <<"https://">> \o g ELSE g
<1>1. "https://" \in Signs /\ "https://" \notin Ends /\ "." \in Signs /\ "." \in Ends
  BY DEF Signs, Marks, Ends
<1>2. /\ <<"https://">> \o g \in Seq(Signs) /\ Len(<<"https://">> \o g) = Len(g) + 1
      /\ (<<"https://">> \o g)[1] = "https://"
      /\ \A i \in 1 .. Len(g) : (<<"https://">> \o g)[i + 1] = g[i]
  BY <1>1, CharBefore
<1>3. Len(g) \in Nat
  BY LenProperties
<1>4. f \in Seq(Signs) /\ Len(f) >= 1 /\ f[1] \notin Ends /\ f[Len(f)] \notin Ends
  <2>1. Len(g) \in 1 .. Len(g)
    BY <1>3
  <2>2. CASE scheme
    <3> DEFINE z == <<"https://">> \o g
    <3>1. /\ z \in Seq(Signs) /\ Len(z) = Len(g) + 1 /\ z[1] = "https://"
          /\ z[Len(g) + 1] = g[Len(g)] /\ f = z
      BY <1>2, <2>1, <2>2
    <3> HIDE DEF z
    <3> QED BY <1>1, <1>3, <3>1
  <2>3. CASE ~ scheme
    BY <2>3
  <2> QED BY <2>2, <2>3
<1>5. CASE rest = <<".">>
  <2> DEFINE dot == <<".">>
  <2>1. dot \in Seq(Signs) /\ Len(dot) = 1 /\ dot[1] = "."
    BY <1>1
  <2> HIDE DEF f, dot
  <2>2. \A i \in 1 .. Len(dot) : dot[i] \in Ends
    <3>1. \A i \in 1 .. 1 : i = 1
      OBVIOUS
    <3> QED BY <1>1, <2>1, <3>1
  <2>3. Trim(f \o dot, Ends) = f
    BY <1>4, <2>1, <2>2, TrimEnds
  <2>4. TrimPrefix(f, "https://") = g
    <3>1. CASE scheme
      <4>1. TrimPrefix(<<"https://">> \o g, "https://") = g
        BY <1>1, TrimPrefixOfSame
      <4> QED BY <3>1, <4>1 DEF f
    <3>2. CASE ~ scheme
      <4>1. TrimPrefix(g, "https://") = g
        BY TrimPrefixOfOther
      <4> QED BY <3>2, <4>1 DEF f
    <3> QED BY <3>1, <3>2
  <2>5. UpTo(g, Stops) = g
    BY UpToEnd
  <2> QED BY <1>5, <2>3, <2>4, <2>5 DEF f, dot
<1>6. CASE rest # <<".">>
  <2>1. /\ rest \in Seq(Signs)
        /\ rest = <<>> \/ (Len(rest) >= 1 /\ rest[1] \in Stops /\ rest[Len(rest)] \notin Ends)
    BY <1>6, RestProperties
  <2>2. Len(rest) >= 1 => rest[1] \in Stops /\ rest[Len(rest)] \notin Ends
    BY <2>1, EmptySeq
  <2> DEFINE c == f \o rest
             d == g \o rest
  <2>3. Trim(c, Ends) = c
    <3> HIDE DEF f
    <3>1. /\ c \in Seq(Signs) /\ Len(c) >= 1 /\ c[1] = f[1]
          /\ c[Len(c)] = IF Len(rest) >= 1 THEN rest[Len(rest)] ELSE f[Len(f)]
      BY <1>4, <2>1, ConcatEnd
    <3> HIDE DEF c
    <3> QED BY <1>4, <2>2, <3>1, TrimWhole
  <2>4. d \in Seq(Signs) /\ Len(d) >= 1 /\ d[1] = g[1]
    BY <2>1, ConcatEnd
  <2>5. TrimPrefix(c, "https://") = d
    <3>1. CASE scheme
      <4> DEFINE e == <<"https://">>
      <4>1. e \in Seq(Signs)
        BY <1>1
      <4> HIDE DEF e
      <4>2. (e \o g) \o rest = e \o (g \o rest)
        <5>1. rest \in Seq(Signs) /\ g \in Seq(Signs) /\ e \in Seq(Signs)
          BY <2>1, <4>1
        <5> QED BY <5>1, ConcatAssociative, SMTT(30)
      <4>3. c = e \o d
        BY <3>1, <4>2 DEF e
      <4> HIDE DEF c, d
      <4>4. TrimPrefix(<<"https://">> \o d, "https://") = d
        BY <1>1, <2>4, TrimPrefixOfSame
      <4> QED BY <4>3, <4>4 DEF e
    <3>2. CASE ~ scheme
      <4>1. c = d
        BY <3>2
      <4> HIDE DEF c, d
      <4>2. TrimPrefix(d, "https://") = d
        BY <2>4, TrimPrefixOfOther
      <4> QED BY <4>1, <4>2
    <3> QED BY <3>1, <3>2
  <2>6. UpTo(d, Stops) = g
    BY <2>1, <2>2, UpToFirst
  <2> HIDE DEF d
  <2> QED BY <2>3, <2>5, <2>6
<1> QED BY <1>5, <1>6

(* A link's host, as its labels in lower case. *)
LEMMA HostIsItsLabels ==
  ASSUME NEW l \in Seq(Label), l # <<>>,
         NEW scheme \in BOOLEAN, NEW www \in BOOLEAN, NEW rest \in Rests
  PROVE  normalizeHost((IF scheme THEN <<"https://">> ELSE <<>>) \o (IF www THEN <<"www.">> ELSE <<>>)
                       \o Dotted(l) \o rest) = Dotted(Lowered(l))
<1> DEFINE h == Dotted(l)
           low == Dotted(Lowered(l))
           g == IF www THEN <<"www.">> \o h ELSE h
<1>1. /\ h \in Seq(NameChars) /\ Len(h) \in Nat /\ Len(h) >= 1
      /\ h[1] \in HostChars /\ h[Len(h)] \in HostChars /\ ToLower(h) = low
  BY NameProperties
<1>2. Lowered(l) \in Seq(Label) /\ Lowered(l) # <<>>
  <2>1. Lowered(l) \in Seq(Label) /\ Len(Lowered(l)) = Len(l)
    BY LoweredLabels
  <2> QED BY <2>1, EmptySeq
<1>3. /\ low \in Seq(NameChars) /\ Len(low) \in Nat /\ Len(low) >= 1
      /\ low[1] \in HostChars /\ low[Len(low)] \in HostChars
  BY <1>2, NameProperties
<1> HIDE DEF h, low
<1>4. NameChars \subseteq Signs /\ "www." \in Signs /\ "www." # "https://"
  BY DEF Signs, Marks
<1>5. h \in Seq(Signs) /\ low \in Seq(Signs)
  BY <1>1, <1>3, <1>4, SeqMonotonic
<1>6. /\ \A c \in Stops : c \notin NameChars
      /\ \A c \in Ends : c \notin HostChars
      /\ "www." \notin Stops /\ "www." \notin Ends /\ "https://" \notin HostChars /\ "www." \notin HostChars
      /\ "." \notin HostChars
  BY MarksAreNoHostChars DEF Stops, Ends, NameChars
<1>7. /\ <<"www.">> \o h \in Seq(Signs) /\ Len(<<"www.">> \o h) = Len(h) + 1
      /\ (<<"www.">> \o h)[1] = "www."
      /\ \A i \in 1 .. Len(h) : (<<"www.">> \o h)[i + 1] = h[i]
  BY <1>4, <1>5, CharBefore
<1>8. \A i \in 1 .. Len(h) : h[i] \notin Stops
  BY <1>1, <1>6, ElementOfSeq
<1>9. /\ g \in Seq(Signs) /\ Len(g) >= 1 /\ g[1] \notin Ends /\ g[1] # "https://"
      /\ g[Len(g)] \notin Ends /\ \A i \in 1 .. Len(g) : g[i] \notin Stops
  <2>1. CASE www
    <3> DEFINE z == <<"www.">> \o h
    <3>1. /\ z \in Seq(Signs) /\ Len(z) = Len(h) + 1 /\ z[1] = "www."
          /\ (\A i \in 1 .. Len(h) : z[i + 1] = h[i]) /\ g = z
      BY <1>7, <2>1
    <3> HIDE DEF z, g
    <3>2. z[Len(z)] = h[Len(h)]
      <4>1. Len(h) \in 1 .. Len(h)
        BY <1>1
      <4> QED BY <3>1, <4>1
    <3>3. ASSUME NEW i \in 1 .. Len(z) PROVE z[i] \notin Stops
      <4>1. CASE i = 1
        BY <1>6, <3>1, <4>1
      <4>2. CASE i # 1
        <5>1. i - 1 \in 1 .. Len(h) /\ (i - 1) + 1 = i
          BY <1>1, <3>1, <4>2
        <5>2. z[(i - 1) + 1] = h[i - 1]
          BY <3>1, <5>1
        <5> QED BY <1>8, <5>1, <5>2
      <4> QED BY <4>1, <4>2
    <3>4. Len(z) >= 1
      BY <1>1, <3>1
    <3> QED BY <1>1, <1>4, <1>6, <3>1, <3>2, <3>3, <3>4
  <2>2. CASE ~ www
    <3>1. g = h
      BY <2>2
    <3> HIDE DEF g
    <3> QED BY <1>1, <1>5, <1>6, <1>8, <3>1
  <2> QED BY <2>1, <2>2
<1> DEFINE f == IF scheme THEN <<"https://">> \o g ELSE g
<1>10. (IF scheme THEN <<"https://">> ELSE <<>>) \o (IF www THEN <<"www.">> ELSE <<>>) \o h = f
  <2> DEFINE P == IF scheme THEN <<"https://">> ELSE <<>>
             Q == IF www THEN <<"www.">> ELSE <<>>
  <2>1. P \in Seq(Signs) /\ Q \in Seq(Signs)
    <3>1. "https://" \in Signs
      BY DEF Signs, Marks
    <3> QED BY <1>4, <3>1
  <2>2. Q \o h = g
    <3>1. <<>> \o h = h
      BY <1>5, ConcatEmptySeq
    <3> QED BY <3>1
  <2>3. P \o g = f
    <3> HIDE DEF g
    <3>1. <<>> \o g = g
      BY <1>9, ConcatEmptySeq
    <3> QED BY <3>1
  <2>4. (P \o Q) \o h = P \o (Q \o h)
    <3> HIDE DEF P, Q
    <3> QED BY <1>5, <2>1, ConcatAssociative, SMTT(30)
  <2> HIDE DEF f, g
  <2>5. (P \o Q) \o h = f
    <3> HIDE DEF P, Q
    <3> QED BY <2>2, <2>3, <2>4
  <2> QED BY <2>5
<1>11. UpTo(TrimPrefix(Trim(f \o rest, Ends), "https://"), Stops) = g
  <2> HIDE DEF g
  <2> QED BY <1>9, HostInLink
<1>12. TrimPrefix(TrimSuffix(ToLower(g), "."), "www.") = low
  <2>1. TrimSuffix(low, ".") = low
    BY <1>3, <1>6, TrimSuffixOfOther
  <2>2. CASE ~ www
    <3>1. low[1] # "www."
      BY <1>3, <1>6
    <3>2. TrimPrefix(low, "www.") = low
      BY <1>3, <3>1, TrimPrefixOfOther
    <3> QED BY <1>1, <2>1, <2>2, <3>2
  <2>3. CASE www
    <3> DEFINE e == <<"www.">>
               z == e \o low
    <3>1. e \in Seq(Signs) /\ Len(e) = 1 /\ e[1] = "www."
      BY <1>4
    <3>2. ToLower(e) = e
      <4> DEFINE T == {"www."}
      <4>1. \A c \in T : Lower(c) \in T
        BY MarksAreNoHostChars
      <4>2. e \in Seq(T)
        OBVIOUS
      <4> HIDE DEF e
      <4>3. /\ ToLower(e) \in Seq(T) /\ Len(ToLower(e)) = Len(e)
            /\ \A i \in 1 .. Len(e) : ToLower(e)[i] = Lower(e[i])
        <5> HIDE DEF T
        <5> QED BY <4>1, <4>2, ToLowerProperties
      <4>4. \A i \in 1 .. Len(e) : ToLower(e)[i] = e[i]
        <5>1. \A i \in 1 .. Len(e) : ToLower(e)[i] \in T /\ e[i] \in T
          <6> HIDE DEF T
          <6> QED BY <4>2, <4>3, ElementOfSeq
        <5> QED BY <5>1
      <4> HIDE DEF T
      <4> QED BY <4>2, <4>3, <4>4, SeqEqual
    <3>3. ToLower(g) = z
      <4>1. g = e \o h
        BY <2>3
      <4> HIDE DEF e, g
      <4>2. ToLower(e \o h) = ToLower(e) \o ToLower(h)
        BY <1>5, <3>1, ToLowerConcat
      <4> QED BY <1>1, <3>2, <4>1, <4>2
    <3>4. z \in Seq(Signs) /\ Len(z) >= 1 /\ z[Len(z)] = low[Len(low)]
      <4> HIDE DEF e
      <4>1. /\ e \o low \in Seq(Signs) /\ Len(e \o low) >= 1
            /\ (e \o low)[Len(e \o low)] = IF Len(low) >= 1 THEN low[Len(low)] ELSE e[Len(e)]
        <5>1. e \in Seq(Signs) /\ low \in Seq(Signs) /\ Len(e) >= 1
          BY <1>5, <3>1
        <5> QED BY <5>1, ConcatEnd
      <4> QED BY <1>3, <4>1
    <3>5. z[Len(z)] # "."
      BY <1>3, <1>6, <3>4
    <3>6. TrimPrefix(<<"www.">> \o low, "www.") = low
      BY <1>4, <1>5, TrimPrefixOfSame
    <3>7. TrimPrefix(z, "www.") = low
      BY <3>6
    <3> HIDE DEF z
    <3>8. TrimSuffix(z, ".") = z
      BY <3>4, <3>5, TrimSuffixOfOther
    <3> QED BY <3>3, <3>7, <3>8
  <2> QED BY <2>2, <2>3
<1>13. normalizeHost(f \o rest) = TrimPrefix(TrimSuffix(ToLower(g), "."), "www.")
  <2> HIDE DEF f, g
  <2> QED BY <1>11 DEF normalizeHost, Ends, Stops
<1> HIDE DEF f, g
<1> QED BY <1>10, <1>12, <1>13 DEF h, low

(* Lower case twice is lower case once. *)
LEMMA LoweredTwice ==
  ASSUME NEW l \in Seq(Label)
  PROVE  Lowered(Lowered(l)) = Lowered(l)
<1> DEFINE k == Lowered(l)
<1>1. k \in Seq(Label) /\ Len(k) = Len(l) /\ \A i \in 1 .. Len(l) : k[i] = ToLower(l[i])
  BY LoweredLabels
<1> HIDE DEF k
<1>2. Lowered(k) \in Seq(Label) /\ Len(Lowered(k)) = Len(k) /\ \A i \in 1 .. Len(k) : Lowered(k)[i] = ToLower(k[i])
  BY <1>1, LoweredLabels
<1>3. ASSUME NEW i \in 1 .. Len(k) PROVE Lowered(k)[i] = k[i]
  <2>1. l[i] \in Label
    BY <1>1, ElementOfSeq
  <2>2. ToLower(ToLower(l[i])) = ToLower(l[i])
    BY <2>1, LabelProperties
  <2> QED BY <1>1, <1>2, <2>2
<1>4. Lowered(k) = k
  BY <1>1, <1>2, <1>3, SeqEqual
<1> QED BY <1>4 DEF k

(* The host or one below it, in the labels' terms. *)
LEMMA BelowIsSuffix ==
  ASSUME NEW d \in Seq(Label), d # <<>>, NEW l \in Seq(Label), l # <<>>
  PROVE  Dotted(l) = Dotted(d) \/ IsSuffix(<<".">> \o Dotted(d), Dotted(l)) <=> IsSuffix(d, l)
<1> DEFINE a == Dotted(d)
           h == Dotted(l)
<1>1. a \in Seq(NameChars) /\ Dots(d)[Len(d)] = <<".">> \o a
  BY NameProperties
<1>2. h \in Seq(NameChars) /\ Dots(l)[Len(l)] = <<".">> \o h
  BY NameProperties
<1> HIDE DEF a, h
<1>3. "." \in NameChars
  BY DEF NameChars
<1>4. IsSuffix(<<".">> \o a, <<".">> \o h) <=> a = h \/ IsSuffix(<<".">> \o a, h)
  BY <1>1, <1>2, <1>3, SuffixWithDot
<1>5. IsSuffix(Dots(d)[Len(d)], Dots(l)[Len(l)]) <=> IsSuffix(d, l)
  <2>1. d \in Seq(Undotted(NameChars)) /\ l \in Seq(Undotted(NameChars))
    BY LabelsAreUndotted
  <2> QED BY <1>3, <2>1, DotsEndAsLabels
<1> QED BY <1>1, <1>2, <1>4, <1>5 DEF a, h

(* A link is let through exactly if its host is a domain of the list or     *)
(* below one.                                                               *)
LEMMA LinkIsJudged ==
  ASSUME NEW list \in SUBSET Words, NEW k \in Links
  PROVE  ContainsBlockedLink({Written(k)}, {Dotted(Domain[w]) : w \in list}) <=>
           ~ \E w \in list : IsSuffix(Lowered(Domain[w]), Lowered(k.host))
<1> DEFINE l == Lowered(k.host)
           h == Dotted(l)
           whitelist == {Dotted(Domain[w]) : w \in list}
<1>1. /\ k.host \in Seq(Label) /\ k.host # <<>> /\ k.scheme \in BOOLEAN /\ k.www \in BOOLEAN
      /\ k.rest \in Rests
  <2>1. /\ k.host \in SeqOf(Labels, MaxLabels) \ {<<>>} /\ k.scheme \in BOOLEAN /\ k.www \in BOOLEAN
        /\ k.rest \in Rests
    BY DEF Links, Rests
  <2>2. PICK m \in 0 .. MaxLabels : k.host \in [1 .. m -> Labels]
    BY <2>1 DEF SeqOf
  <2>3. m \in Nat /\ Labels \subseteq Label
    BY ScanAssumption
  <2>4. k.host \in Seq(Label)
    BY <2>2, <2>3
  <2> QED BY <2>1, <2>4
<1>2. l \in Seq(Label) /\ l # <<>> /\ Lowered(l) = l
  <2>1. l \in Seq(Label) /\ Len(l) = Len(k.host)
    BY <1>1, LoweredLabels
  <2> QED BY <1>1, <2>1, LoweredTwice, EmptySeq
<1>3. normalizeHost(Written(k)) = h
  BY <1>1, HostIsItsLabels DEF Written
<1> HIDE DEF l
<1>4. /\ h \in Seq(NameChars) /\ Len(h) \in Nat /\ Len(h) >= 1
      /\ h[1] \in HostChars /\ h[Len(h)] \in HostChars /\ ToLower(h) = h
  BY <1>2, NameProperties
<1> HIDE DEF h
<1>5. h # <<>> /\ normalizeDomain(h) = h
  BY <1>4, NormalDomain, EmptySeq
<1>6. ASSUME NEW w \in list
      PROVE  LET a == normalizeDomain(Dotted(Domain[w]))
             IN  a # <<>> /\ (h = a \/ IsSuffix(<<".">> \o a, h) <=> IsSuffix(Lowered(Domain[w]), l))
  <2> DEFINE d == Domain[w]
             e == Lowered(d)
             a == Dotted(e)
  <2>1. d \in Seq(Label) /\ d # <<>>
    BY ScanAssumption
  <2> HIDE DEF d
  <2>2. e \in Seq(Label) /\ e # <<>>
    <3>1. e \in Seq(Label) /\ Len(e) = Len(d)
      BY <2>1, LoweredLabels
    <3> QED BY <2>1, <3>1, EmptySeq
  <2>3. normalizeDomain(Dotted(d)) = a
    <3> DEFINE x == Dotted(d)
    <3>1. /\ x \in Seq(NameChars) /\ Len(x) >= 1
          /\ x[1] \in HostChars /\ x[Len(x)] \in HostChars /\ ToLower(x) = a
      BY <2>1, NameProperties
    <3> HIDE DEF x
    <3> QED BY <3>1, NormalDomain DEF x
  <2>4. a # <<>>
    <3> HIDE DEF e
    <3>1. a \in Seq(NameChars) /\ Len(a) >= 1
      BY <2>2, NameProperties
    <3> QED BY <3>1, EmptySeq
  <2>5. h = a \/ IsSuffix(<<".">> \o a, h) <=> IsSuffix(e, l)
    <3> HIDE DEF e
    <3> QED BY <1>2, <2>2, BelowIsSuffix DEF h
  <2> HIDE DEF a
  <2> QED BY <2>3, <2>4, <2>5 DEF d
<1>7. IsAllowedDomain(h, whitelist) <=> \E w \in list : IsSuffix(Lowered(Domain[w]), l)
  <2>1. IsAllowedDomain(h, whitelist) <=>
          \E w \in list : LET a == normalizeDomain(Dotted(Domain[w]))
                          IN  a # <<>> /\ (h = a \/ IsSuffix(<<".">> \o a, h))
    BY <1>5, Zenon DEF IsAllowedDomain
  <2> QED BY <1>6, <2>1
<1>8. ContainsBlockedLink({Written(k)}, whitelist) <=> ~ IsAllowedDomain(h, whitelist)
  <2> HIDE DEF whitelist
  <2> QED BY <1>3, <1>5 DEF ContainsBlockedLink
<1> QED BY <1>7, <1>8 DEF l

(* The links that are blocked by a list are those that are foreign to it. *)
THEOREM BlockedAreForeign ==
  ASSUME NEW list \in SUBSET Words
  PROVE  Blocked(list) = Foreign(list)
BY LinkIsJudged DEF Blocked, Foreign

(* The lists in force judge the links as they mean to. *)
LEMMA LinksFollow == (TypeOK /\ CachedIsCurrent) => LinksAreJudged
<1> SUFFICES ASSUME TypeOK, CachedIsCurrent, NEW i \in Instances, NEW list \in cached[i], InForce(i)
             PROVE  <<list, words, TRUE>> \in BlockedIsForeign
  BY DEF LinksAreJudged
<1>1. list = words
  BY DEF CachedIsCurrent, InForce
<1>2. words \in SUBSET Words
  BY DEF TypeOK
<1>3. Blocked(words) = Foreign(words)
  BY <1>2, BlockedAreForeign
<1>4. <<words, words, Blocked(words) = Foreign(words)>> \in BlockedIsForeign
  <2> DEFINE done == {<<l, Blocked(l)>> : l \in SUBSET Words}
             meant == {<<l, Foreign(l)>> : l \in SUBSET Words}
             p == <<words, Blocked(words)>>
             q == <<words, Foreign(words)>>
  <2>1. p \in done /\ q \in meant
    BY <1>2
  <2>2. BlockedIsForeign = {<<s[1], r[1], s[2] = r[2]>> : s \in done, r \in meant}
    BY DEF BlockedIsForeign, Judgements
  <2>3. <<p[1], q[1], p[2] = q[2]>> \in BlockedIsForeign
    <3> HIDE DEF p, q, done, meant
    <3> QED BY <2>1, <2>2
  <2> QED BY <2>3
<1> QED
  BY <1>1, <1>3, <1>4

----------------------------------------------------------------------------
(***************************************************************************)
(* levenshtein: the distance is at most k, for k up to 2, exactly if k edits *)
(* lead from the one word to the other.                                    *)
(***************************************************************************)

(* The least of three numbers. *)
LEMMA LeastOfThree ==
  ASSUME NEW x \in Nat, NEW y \in Nat, NEW z \in Nat
  PROVE  LET m == Least({x, y, z})
         IN  m \in Nat /\ m <= x /\ m <= y /\ m <= z /\ (m = x \/ m = y \/ m = z)
<1> DEFINE T == {x, y, z}
<1>1. PICK k \in T : \A j \in T : k <= j
  <2>1. T \subseteq Nat /\ T # {}
    OBVIOUS
  <2> HIDE DEF T
  <2> QED BY <2>1, LeastNatural
<1>2. Least(T) = k
  <2>1. T \subseteq Int
    OBVIOUS
  <2> HIDE DEF T
  <2> QED BY <1>1, <2>1, LeastIs
<1> QED BY <1>1, <1>2

Cost(c, d) == IF c = d THEN 0 ELSE 1

(* What a row of the table holds. *)
IsNextRow(row, prev, b, c, i) ==
  /\ row \in [0 .. Len(b) -> Nat] /\ row[0] = i
  /\ \A j \in 1 .. Len(b) :
       /\ row[j] <= row[j - 1] + 1 /\ row[j] <= prev[j] + 1 /\ row[j] <= prev[j - 1] + Cost(c, b[j])
       /\ row[j] = row[j - 1] + 1 \/ row[j] = prev[j] + 1 \/ row[j] = prev[j - 1] + Cost(c, b[j])

(* NextRow is a row: the recursive function along it is defined. *)
LEMMA RowIsNextRow ==
  ASSUME NEW S, NEW b \in Seq(S), NEW prev \in [0 .. Len(b) -> Nat], NEW c, NEW i \in Nat
  PROVE  IsNextRow(NextRow(prev, b, c, i), prev, b, c, i)
<1> DEFINE N == Len(b)
           Cell(j, left) == Least({left + 1, prev[j] + 1, prev[j - 1] + Cost(c, b[j])})
           G == [j \in 1 .. N |-> [left \in Nat |-> Cell(j, left)]]
           Eq(f) == f = [j \in 0 .. N |-> IF j = 0 THEN i ELSE Cell(j, f[j - 1])]
           Holds(j, left, m) == /\ m \in Nat /\ m <= left + 1 /\ m <= prev[j] + 1 /\ m <= prev[j - 1] + Cost(c, b[j])
                                /\ m = left + 1 \/ m = prev[j] + 1 \/ m = prev[j - 1] + Cost(c, b[j])
<1>1. N \in Nat
  BY LenProperties
<1> HIDE DEF N
<1>2. ASSUME NEW j \in 1 .. N, NEW left \in Nat PROVE Holds(j, left, Cell(j, left))
  <2>1. j \in 0 .. N /\ j - 1 \in 0 .. N
    BY <1>1
  <2>2. prev[j] + 1 \in Nat /\ prev[j - 1] + Cost(c, b[j]) \in Nat /\ left + 1 \in Nat
    BY <2>1 DEF N, Cost
  <2> QED BY <2>2, LeastOfThree, SMTT(30)
<1> HIDE DEF Cell
<1>3. G \in [1 .. N -> [Nat -> Nat]]
  BY <1>2
<1>4. \E f : Eq(f)
  <2>1. PICK f : Recursive(f, N, Nat, i, G)
    <3> HIDE DEF G
    <3> QED BY <1>1, <1>3, Recursion
  <2>2. f \in [0 .. N -> Nat] /\ f[0] = i /\ \A j \in 1 .. N : f[j] = G[j][f[j - 1]]
    <3> HIDE DEF G
    <3> QED BY <2>1 DEF Recursive
  <2>3. ASSUME NEW j \in 1 .. N PROVE f[j] = Cell(j, f[j - 1])
    <3>1. j - 1 \in 0 .. N
      BY <1>1
    <3>2. f[j - 1] \in Nat
      BY <2>2, <3>1
    <3> QED BY <2>2, <3>2
  <2>4. \A j \in 0 .. N : j # 0 => j \in 1 .. N
    BY <1>1
  <2>5. Eq(f)
    BY <2>2, <2>3, <2>4
  <2> QED BY <2>5
<1> DEFINE f == NextRow(prev, b, c, i)
<1>5. Eq(f)
  <2>1. f = CHOOSE g : Eq(g)
    BY DEF NextRow, Cell, N, Cost
  <2> HIDE DEF f, Eq
  <2> QED BY <1>4, <2>1
<1> HIDE DEF f
<1>6. DOMAIN f = 0 .. N /\ f[0] = i /\ \A j \in 1 .. N : f[j] = Cell(j, f[j - 1])
  <2>1. 0 \in 0 .. N /\ \A j \in 1 .. N : j \in 0 .. N /\ j # 0
    BY <1>1
  <2> QED BY <1>5, <2>1
<1> DEFINE T == {j \in 0 .. N : f[j] \in Nat}
<1>7. 0 .. N \subseteq T
  <2>1. 0 \in T
    BY <1>1, <1>6
  <2>2. ASSUME NEW j \in 0 .. N, j \in T, j < N PROVE j + 1 \in T
    <3>1. j + 1 \in 1 .. N /\ (j + 1) - 1 = j /\ j + 1 \in 0 .. N
      BY <1>1, <2>2
    <3>2. f[j + 1] = Cell(j + 1, f[j]) /\ f[j] \in Nat
      BY <1>6, <2>2, <3>1
    <3>3. Cell(j + 1, f[j]) \in Nat
      BY <1>2, <3>1, <3>2
    <3> QED BY <3>1, <3>2, <3>3
  <2> HIDE DEF T
  <2> QED BY <1>1, <2>1, <2>2, Upward
<1>8. ASSUME NEW j \in 1 .. N PROVE Holds(j, f[j - 1], f[j])
  <2>1. j - 1 \in 0 .. N
    BY <1>1
  <2>2. f[j - 1] \in Nat
    BY <1>7, <2>1
  <2> HIDE DEF Holds
  <2> QED BY <1>2, <1>6, <2>2
<1>9. f \in [0 .. N -> Nat]
  <2>1. \A j \in 0 .. N : f[j] \in Nat
    BY <1>7
  <2>2. f = [j \in 0 .. N |-> f[j]]
    BY <1>5
  <2> QED BY <2>1, <2>2
<1> QED BY <1>6, <1>8, <1>9 DEF IsNextRow, N, f

(* The table. *)
LEMMA RowsStep ==
  ASSUME NEW S, NEW R, NEW a \in Seq(R), NEW b \in Seq(S)
  PROVE  /\ Rows(a, b) \in [0 .. Len(a) -> [0 .. Len(b) -> Nat]]
         /\ Rows(a, b)[0] = [j \in 0 .. Len(b) |-> j]
         /\ \A i \in 1 .. Len(a) : /\ Rows(a, b)[i] = NextRow(Rows(a, b)[i - 1], b, a[i], i)
                                   /\ IsNextRow(Rows(a, b)[i], Rows(a, b)[i - 1], b, a[i], i)
<1> DEFINE N == Len(a)
           T == [0 .. Len(b) -> Nat]
           first == [j \in 0 .. Len(b) |-> j]
           G == [i \in 1 .. N |-> [prev \in T |-> NextRow(prev, b, a[i], i)]]
           Eq(f) == f = [i \in 0 .. N |-> IF i = 0 THEN first ELSE NextRow(f[i - 1], b, a[i], i)]
<1>1. N \in Nat /\ Len(b) \in Nat
  BY LenProperties
<1>2. first \in T
  BY <1>1
<1>3. ASSUME NEW prev \in T, NEW i \in 1 .. N
      PROVE  NextRow(prev, b, a[i], i) \in T /\ IsNextRow(NextRow(prev, b, a[i], i), prev, b, a[i], i)
  <2>1. i \in Nat
    BY <1>1
  <2>2. IsNextRow(NextRow(prev, b, a[i], i), prev, b, a[i], i)
    BY <2>1, RowIsNextRow
  <2> QED BY <2>2 DEF IsNextRow
<1> HIDE DEF T, N, first
<1>4. G \in [1 .. N -> [T -> T]]
  BY <1>3
<1>5. \E f : Eq(f)
  <2>1. PICK f : Recursive(f, N, T, first, G)
    <3> HIDE DEF G
    <3> QED BY <1>1, <1>2, <1>4, Recursion
  <2>2. f \in [0 .. N -> T] /\ f[0] = first /\ \A i \in 1 .. N : f[i] = G[i][f[i - 1]]
    <3> HIDE DEF G
    <3> QED BY <2>1 DEF Recursive
  <2>3. ASSUME NEW i \in 1 .. N PROVE f[i] = NextRow(f[i - 1], b, a[i], i)
    <3>1. i - 1 \in 0 .. N
      BY <1>1
    <3>2. f[i - 1] \in T
      BY <2>2, <3>1
    <3> QED BY <2>2, <3>2
  <2>4. \A i \in 0 .. N : i # 0 => i \in 1 .. N
    BY <1>1
  <2>5. Eq(f)
    BY <2>2, <2>3, <2>4
  <2> QED BY <2>5
<1> DEFINE f == Rows(a, b)
<1>6. Eq(f)
  <2>1. f = CHOOSE g : Eq(g)
    BY DEF Rows, N, first
  <2> HIDE DEF f, Eq
  <2> QED BY <1>5, <2>1
<1> HIDE DEF f
<1>7. DOMAIN f = 0 .. N /\ f[0] = first /\ \A i \in 1 .. N : f[i] = NextRow(f[i - 1], b, a[i], i)
  <2>1. 0 \in 0 .. N /\ \A i \in 1 .. N : i \in 0 .. N /\ i # 0
    BY <1>1
  <2> QED BY <1>6, <2>1
<1> DEFINE U == {i \in 0 .. N : f[i] \in T}
<1>8. 0 .. N \subseteq U
  <2>1. 0 \in U
    BY <1>1, <1>2, <1>7
  <2>2. ASSUME NEW i \in 0 .. N, i \in U, i < N PROVE i + 1 \in U
    <3>1. i + 1 \in 1 .. N /\ (i + 1) - 1 = i /\ i + 1 \in 0 .. N
      BY <1>1, <2>2
    <3>2. f[i + 1] = NextRow(f[i], b, a[i + 1], i + 1) /\ f[i] \in T
      BY <1>7, <2>2, <3>1
    <3> QED BY <1>3, <3>1, <3>2
  <2> HIDE DEF U
  <2> QED BY <1>1, <2>1, <2>2, Upward
<1>9. ASSUME NEW i \in 1 .. N PROVE IsNextRow(f[i], f[i - 1], b, a[i], i)
  <2>1. i - 1 \in 0 .. N
    BY <1>1
  <2>2. f[i - 1] \in T
    BY <1>8, <2>1
  <2> QED BY <1>3, <1>7, <2>2
<1>10. f \in [0 .. N -> T]
  <2>1. \A i \in 0 .. N : f[i] \in T
    BY <1>8
  <2>2. f = [i \in 0 .. N |-> f[i]]
    BY <1>6
  <2> QED BY <2>1, <2>2
<1> QED BY <1>7, <1>9, <1>10 DEF N, T, first, f

(* Two rows that are nowhere more than one apart. *)
Close(P, Q, n) == \A j \in 0 .. n : P[j] <= Q[j] + 1 /\ Q[j] <= P[j] + 1

(* The inequality on which the comparison of two rows rests. *)
LEMMA CellAtMost ==
  ASSUME NEW u0 \in Nat, NEW v0 \in Nat, NEW p0 \in Nat, NEW q0 \in Nat, NEW p1 \in Nat, NEW q1 \in Nat,
         NEW u1 \in Nat, NEW v1 \in Nat, NEW e \in {0, 1}, NEW g \in {0, 1},
         u1 <= u0 + 1, u1 <= p1 + 1, u1 <= p0 + e,
         v1 = v0 + 1 \/ v1 = q1 + 1 \/ v1 = q0 + g,
         u0 <= v0 + 1, p1 <= q1 + 1, p0 + e <= q0 + g + 1
  PROVE  u1 <= v1 + 1
<1>1. CASE v1 = v0 + 1
  BY <1>1
<1>2. CASE v1 = q1 + 1
  BY <1>2
<1>3. CASE v1 = q0 + g
  BY <1>3
<1> QED BY <1>1, <1>2, <1>3

(* Two rows of the same letter are close if the rows before them are. *)
LEMMA SameLetter ==
  ASSUME NEW S, NEW b \in Seq(S), NEW c, NEW i \in Nat, NEW k \in Nat,
         NEW P \in [0 .. Len(b) -> Nat], NEW Q \in [0 .. Len(b) -> Nat],
         NEW U, NEW V, IsNextRow(U, P, b, c, i), IsNextRow(V, Q, b, c, k),
         i <= k + 1, k <= i + 1, Close(P, Q, Len(b))
  PROVE  Close(U, V, Len(b))
<1> DEFINE n == Len(b)
           T == {j \in 0 .. n : U[j] <= V[j] + 1 /\ V[j] <= U[j] + 1}
<1>1. n \in Nat
  BY LenProperties
<1>2. /\ U \in [0 .. n -> Nat] /\ U[0] = i
      /\ \A j \in 1 .. n :
           /\ U[j] <= U[j - 1] + 1 /\ U[j] <= P[j] + 1 /\ U[j] <= P[j - 1] + Cost(c, b[j])
           /\ U[j] = U[j - 1] + 1 \/ U[j] = P[j] + 1 \/ U[j] = P[j - 1] + Cost(c, b[j])
  BY DEF IsNextRow
<1>3. /\ V \in [0 .. n -> Nat] /\ V[0] = k
      /\ \A j \in 1 .. n :
           /\ V[j] <= V[j - 1] + 1 /\ V[j] <= Q[j] + 1 /\ V[j] <= Q[j - 1] + Cost(c, b[j])
           /\ V[j] = V[j - 1] + 1 \/ V[j] = Q[j] + 1 \/ V[j] = Q[j - 1] + Cost(c, b[j])
  BY DEF IsNextRow
<1>4. \A j \in 0 .. n : P[j] <= Q[j] + 1 /\ Q[j] <= P[j] + 1
  BY DEF Close
<1>5. P \in [0 .. n -> Nat] /\ Q \in [0 .. n -> Nat]
  OBVIOUS
<1> HIDE DEF n
<1>6. 0 \in T
  BY <1>1, <1>2, <1>3
<1>7. ASSUME NEW j \in 0 .. n, j \in T, j < n PROVE j + 1 \in T
  <2> DEFINE e == Cost(c, b[j + 1])
  <2>1. j + 1 \in 1 .. n /\ (j + 1) - 1 = j /\ j + 1 \in 0 .. n
    BY <1>1, <1>7
  <2>2. e \in {0, 1}
    BY DEF Cost
  <2>3. /\ U[j + 1] <= U[j] + 1 /\ U[j + 1] <= P[j + 1] + 1 /\ U[j + 1] <= P[j] + e
        /\ U[j + 1] = U[j] + 1 \/ U[j + 1] = P[j + 1] + 1 \/ U[j + 1] = P[j] + e
    BY <1>2, <2>1
  <2>4. /\ V[j + 1] <= V[j] + 1 /\ V[j + 1] <= Q[j + 1] + 1 /\ V[j + 1] <= Q[j] + e
        /\ V[j + 1] = V[j] + 1 \/ V[j + 1] = Q[j + 1] + 1 \/ V[j + 1] = Q[j] + e
    BY <1>3, <2>1
  <2>5. /\ U[j] \in Nat /\ V[j] \in Nat /\ U[j + 1] \in Nat /\ V[j + 1] \in Nat
        /\ P[j] \in Nat /\ Q[j] \in Nat /\ P[j + 1] \in Nat /\ Q[j + 1] \in Nat
    BY <1>2, <1>3, <1>5, <2>1
  <2>6. /\ P[j] <= Q[j] + 1 /\ Q[j] <= P[j] + 1 /\ P[j + 1] <= Q[j + 1] + 1 /\ Q[j + 1] <= P[j + 1] + 1
        /\ U[j] <= V[j] + 1 /\ V[j] <= U[j] + 1
    BY <1>4, <1>7, <2>1
  <2> HIDE DEF e
  <2> DEFINE u0 == U[j]
             v0 == V[j]
             u1 == U[j + 1]
             v1 == V[j + 1]
             p0 == P[j]
             q0 == Q[j]
             p1 == P[j + 1]
             q1 == Q[j + 1]
  <2> HIDE DEF u0, v0, u1, v1, p0, q0, p1, q1
  <2>7. /\ u0 \in Nat /\ v0 \in Nat /\ u1 \in Nat /\ v1 \in Nat
        /\ p0 \in Nat /\ q0 \in Nat /\ p1 \in Nat /\ q1 \in Nat
        /\ u1 <= u0 + 1 /\ u1 <= p1 + 1 /\ u1 <= p0 + e
        /\ v1 <= v0 + 1 /\ v1 <= q1 + 1 /\ v1 <= q0 + e
        /\ u1 = u0 + 1 \/ u1 = p1 + 1 \/ u1 = p0 + e
        /\ v1 = v0 + 1 \/ v1 = q1 + 1 \/ v1 = q0 + e
    BY <2>3, <2>4, <2>5 DEF u0, v0, u1, v1, p0, q0, p1, q1
  <2>8. p0 <= q0 + 1 /\ q0 <= p0 + 1 /\ p1 <= q1 + 1 /\ q1 <= p1 + 1 /\ u0 <= v0 + 1 /\ v0 <= u0 + 1
    BY <2>6 DEF u0, v0, p0, q0, p1, q1
  <2>9. p0 + e <= q0 + e + 1 /\ q0 + e <= p0 + e + 1
    BY <2>2, <2>7, <2>8
  <2>10. u1 <= v1 + 1
    BY <2>2, <2>7, <2>8, <2>9, CellAtMost
  <2>11. v1 <= u1 + 1
    BY <2>2, <2>7, <2>8, <2>9, CellAtMost
  <2> QED BY <2>1, <2>10, <2>11 DEF u1, v1
<1>8. 0 .. n \subseteq T
  <2> HIDE DEF T
  <2> QED BY <1>1, <1>6, <1>7, Upward
<1> QED BY <1>8 DEF Close, n

(* Two rows of different letters are close if the row before them is the same. *)
LEMMA OtherLetter ==
  ASSUME NEW S, NEW b \in Seq(S), NEW c, NEW d, NEW i \in Nat,
         NEW P \in [0 .. Len(b) -> Nat],
         NEW U, NEW V, IsNextRow(U, P, b, c, i), IsNextRow(V, P, b, d, i)
  PROVE  Close(U, V, Len(b))
<1> DEFINE n == Len(b)
           T == {j \in 0 .. n : U[j] <= V[j] + 1 /\ V[j] <= U[j] + 1}
<1>1. n \in Nat
  BY LenProperties
<1>2. /\ U \in [0 .. n -> Nat] /\ U[0] = i
      /\ \A j \in 1 .. n :
           /\ U[j] <= U[j - 1] + 1 /\ U[j] <= P[j] + 1 /\ U[j] <= P[j - 1] + Cost(c, b[j])
           /\ U[j] = U[j - 1] + 1 \/ U[j] = P[j] + 1 \/ U[j] = P[j - 1] + Cost(c, b[j])
  BY DEF IsNextRow
<1>3. /\ V \in [0 .. n -> Nat] /\ V[0] = i
      /\ \A j \in 1 .. n :
           /\ V[j] <= V[j - 1] + 1 /\ V[j] <= P[j] + 1 /\ V[j] <= P[j - 1] + Cost(d, b[j])
           /\ V[j] = V[j - 1] + 1 \/ V[j] = P[j] + 1 \/ V[j] = P[j - 1] + Cost(d, b[j])
  BY DEF IsNextRow
<1>4. P \in [0 .. n -> Nat]
  OBVIOUS
<1> HIDE DEF n
<1>5. 0 \in T
  BY <1>1, <1>2, <1>3
<1>6. ASSUME NEW j \in 0 .. n, j \in T, j < n PROVE j + 1 \in T
  <2> DEFINE e == Cost(c, b[j + 1])
             g == Cost(d, b[j + 1])
  <2>1. j + 1 \in 1 .. n /\ (j + 1) - 1 = j /\ j + 1 \in 0 .. n
    BY <1>1, <1>6
  <2>2. e \in {0, 1} /\ g \in {0, 1}
    BY DEF Cost
  <2>3. /\ U[j + 1] <= U[j] + 1 /\ U[j + 1] <= P[j + 1] + 1 /\ U[j + 1] <= P[j] + e
        /\ U[j + 1] = U[j] + 1 \/ U[j + 1] = P[j + 1] + 1 \/ U[j + 1] = P[j] + e
    BY <1>2, <2>1
  <2>4. /\ V[j + 1] <= V[j] + 1 /\ V[j + 1] <= P[j + 1] + 1 /\ V[j + 1] <= P[j] + g
        /\ V[j + 1] = V[j] + 1 \/ V[j + 1] = P[j + 1] + 1 \/ V[j + 1] = P[j] + g
    BY <1>3, <2>1
  <2>5. /\ U[j] \in Nat /\ V[j] \in Nat /\ U[j + 1] \in Nat /\ V[j + 1] \in Nat
        /\ P[j] \in Nat /\ P[j + 1] \in Nat
    BY <1>2, <1>3, <1>4, <2>1
  <2>6. U[j] <= V[j] + 1 /\ V[j] <= U[j] + 1
    BY <1>6
  <2> HIDE DEF e, g
  <2> DEFINE u0 == U[j]
             v0 == V[j]
             u1 == U[j + 1]
             v1 == V[j + 1]
             p0 == P[j]
             p1 == P[j + 1]
  <2> HIDE DEF u0, v0, u1, v1, p0, p1
  <2>7. /\ u0 \in Nat /\ v0 \in Nat /\ u1 \in Nat /\ v1 \in Nat /\ p0 \in Nat /\ p1 \in Nat
        /\ u1 <= u0 + 1 /\ u1 <= p1 + 1 /\ u1 <= p0 + e
        /\ v1 <= v0 + 1 /\ v1 <= p1 + 1 /\ v1 <= p0 + g
        /\ u1 = u0 + 1 \/ u1 = p1 + 1 \/ u1 = p0 + e
        /\ v1 = v0 + 1 \/ v1 = p1 + 1 \/ v1 = p0 + g
        /\ u0 <= v0 + 1 /\ v0 <= u0 + 1
    BY <2>3, <2>4, <2>5, <2>6 DEF u0, v0, u1, v1, p0, p1
  <2>8. p0 + e <= p0 + g + 1 /\ p0 + g <= p0 + e + 1 /\ p1 <= p1 + 1
    BY <2>2, <2>7
  <2>9. u1 <= v1 + 1
    BY <2>2, <2>7, <2>8, CellAtMost
  <2>10. v1 <= u1 + 1
    BY <2>2, <2>7, <2>8, CellAtMost
  <2> QED BY <2>1, <2>9, <2>10 DEF u1, v1
<1>7. 0 .. n \subseteq T
  <2> HIDE DEF T
  <2> QED BY <1>1, <1>5, <1>6, Upward
<1> QED BY <1>7 DEF Close, n

(* One letter more. *)
LEMMA NextLetter ==
  ASSUME NEW S, NEW b \in Seq(S), NEW c, NEW i \in Nat,
         NEW P \in [0 .. Len(b) -> Nat], P[0] + 1 = i,
         \A j \in 1 .. Len(b) : P[j] <= P[j - 1] + 1,
         NEW U, IsNextRow(U, P, b, c, i)
  PROVE  Close(U, P, Len(b))
<1> DEFINE n == Len(b)
           T == {j \in 0 .. n : U[j] <= P[j] + 1 /\ P[j] <= U[j] + 1}
<1>1. n \in Nat
  BY LenProperties
<1>2. /\ U \in [0 .. n -> Nat] /\ U[0] = i
      /\ \A j \in 1 .. n :
           /\ U[j] <= U[j - 1] + 1 /\ U[j] <= P[j] + 1 /\ U[j] <= P[j - 1] + Cost(c, b[j])
           /\ U[j] = U[j - 1] + 1 \/ U[j] = P[j] + 1 \/ U[j] = P[j - 1] + Cost(c, b[j])
  BY DEF IsNextRow
<1>3. P \in [0 .. n -> Nat] /\ \A j \in 1 .. n : P[j] <= P[j - 1] + 1
  OBVIOUS
<1> HIDE DEF n
<1>4. 0 \in T
  <2>1. 0 \in 0 .. n
    BY <1>1
  <2>2. P[0] \in Nat /\ U[0] = P[0] + 1
    BY <1>2, <1>3, <2>1
  <2> QED BY <2>1, <2>2
<1>5. ASSUME NEW j \in 0 .. n, j \in T, j < n PROVE j + 1 \in T
  <2> DEFINE e == Cost(c, b[j + 1])
  <2>1. j + 1 \in 1 .. n /\ (j + 1) - 1 = j /\ j + 1 \in 0 .. n
    BY <1>1, <1>5
  <2>2. e \in {0, 1}
    BY DEF Cost
  <2>3. /\ U[j + 1] <= U[j] + 1 /\ U[j + 1] <= P[j + 1] + 1 /\ U[j + 1] <= P[j] + e
        /\ U[j + 1] = U[j] + 1 \/ U[j + 1] = P[j + 1] + 1 \/ U[j + 1] = P[j] + e
        /\ P[j + 1] <= P[j] + 1
    BY <1>2, <1>3, <2>1
  <2>4. /\ U[j] \in Nat /\ U[j + 1] \in Nat /\ P[j] \in Nat /\ P[j + 1] \in Nat
    BY <1>2, <1>3, <2>1
  <2>5. U[j] <= P[j] + 1 /\ P[j] <= U[j] + 1
    BY <1>5
  <2> HIDE DEF e
  <2>6. U[j + 1] <= P[j + 1] + 1 /\ P[j + 1] <= U[j + 1] + 1
    BY <2>2, <2>3, <2>4, <2>5, SMTT(30)
  <2> QED BY <2>1, <2>6
<1>6. 0 .. n \subseteq T
  <2> HIDE DEF T
  <2> QED BY <1>1, <1>4, <1>5, Upward
<1> QED BY <1>6 DEF Close, n

(* Every row begins with its number, and rises by one at most. *)
LEMMA RowShape ==
  ASSUME NEW S, NEW R, NEW a \in Seq(R), NEW b \in Seq(S), NEW i \in 0 .. Len(a)
  PROVE  /\ Rows(a, b)[i] \in [0 .. Len(b) -> Nat] /\ Rows(a, b)[i][0] = i
         /\ \A j \in 1 .. Len(b) : Rows(a, b)[i][j] <= Rows(a, b)[i][j - 1] + 1
<1> DEFINE rows == Rows(a, b)
<1>1. Len(a) \in Nat /\ Len(b) \in Nat
  BY LenProperties
<1>2. /\ rows \in [0 .. Len(a) -> [0 .. Len(b) -> Nat]]
      /\ rows[0] = [j \in 0 .. Len(b) |-> j]
      /\ \A k \in 1 .. Len(a) : IsNextRow(rows[k], rows[k - 1], b, a[k], k)
  BY RowsStep
<1> HIDE DEF rows
<1>3. rows[i] \in [0 .. Len(b) -> Nat]
  BY <1>2
<1>4. CASE i = 0
  <2>1. \A j \in 0 .. Len(b) : rows[0][j] = j
    BY <1>2
  <2>2. 0 \in 0 .. Len(b) /\ \A j \in 1 .. Len(b) : j \in 0 .. Len(b) /\ j - 1 \in 0 .. Len(b) /\ j <= (j - 1) + 1
    BY <1>1
  <2> QED BY <1>3, <1>4, <2>1, <2>2 DEF rows
<1>5. CASE i # 0
  <2>1. i \in 1 .. Len(a)
    BY <1>1, <1>5
  <2> QED BY <1>2, <1>3, <2>1 DEF rows, IsNextRow
<1> QED BY <1>4, <1>5

(* One letter more, one another, and at most one of these. *)
OneMore(x, y) ==
  /\ Len(x) = Len(y) + 1
  /\ \E p \in 1 .. Len(x) : (\A i \in 1 .. p - 1 : x[i] = y[i]) /\ \A i \in p .. Len(y) : x[i + 1] = y[i]
OneOther(x, y) ==
  /\ Len(x) = Len(y)
  /\ \E p \in 1 .. Len(x) : \A i \in 1 .. Len(x) : i # p => x[i] = y[i]
Near(x, y) == x = y \/ OneMore(x, y) \/ OneMore(y, x) \/ OneOther(x, y)

(* Rows are told by the letters before them. *)
LEMMA SameBeginning ==
  ASSUME NEW S, NEW R, NEW b \in Seq(S), NEW x \in Seq(R), NEW y \in Seq(R),
         NEW k \in Nat, k <= Len(x), k <= Len(y), \A i \in 1 .. k : x[i] = y[i]
  PROVE  \A i \in 0 .. k : Rows(x, b)[i] = Rows(y, b)[i]
<1> DEFINE X == Rows(x, b)
           Y == Rows(y, b)
           T == {i \in 0 .. k : X[i] = Y[i]}
<1>1. Len(x) \in Nat /\ Len(y) \in Nat
  BY LenProperties
<1>2. X[0] = Y[0] /\ \A i \in 1 .. k : /\ X[i] = NextRow(X[i - 1], b, x[i], i)
                                       /\ Y[i] = NextRow(Y[i - 1], b, y[i], i)
  <2>1. \A i \in 1 .. k : i \in 1 .. Len(x) /\ i \in 1 .. Len(y)
    BY <1>1
  <2>2. X[0] = [j \in 0 .. Len(b) |-> j] /\ \A i \in 1 .. Len(x) : X[i] = NextRow(X[i - 1], b, x[i], i)
    BY RowsStep
  <2>3. Y[0] = [j \in 0 .. Len(b) |-> j] /\ \A i \in 1 .. Len(y) : Y[i] = NextRow(Y[i - 1], b, y[i], i)
    BY RowsStep
  <2> HIDE DEF X, Y
  <2> QED BY <2>1, <2>2, <2>3
<1> HIDE DEF X, Y
<1>3. 0 \in T
  BY <1>2
<1>4. ASSUME NEW i \in 0 .. k, i \in T, i < k PROVE i + 1 \in T
  <2>1. i + 1 \in 1 .. k /\ (i + 1) - 1 = i /\ i + 1 \in 0 .. k
    BY <1>4
  <2>2. X[i] = Y[i] /\ x[i + 1] = y[i + 1]
    BY <1>4, <2>1
  <2>3. X[i + 1] = NextRow(X[i], b, x[i + 1], i + 1) /\ Y[i + 1] = NextRow(Y[i], b, y[i + 1], i + 1)
    BY <1>2, <2>1
  <2> QED BY <2>1, <2>2, <2>3
<1>5. 0 .. k \subseteq T
  <2> HIDE DEF T
  <2> QED BY <1>3, <1>4, Upward
<1> QED BY <1>5 DEF X, Y

(* One letter more is at most one more, or less, in the distance. *)
LEMMA OneMoreIsClose ==
  ASSUME NEW S, NEW R, NEW b \in Seq(S), NEW x \in Seq(R), NEW y \in Seq(R), OneMore(x, y)
  PROVE  levenshtein(x, b) <= levenshtein(y, b) + 1 /\ levenshtein(y, b) <= levenshtein(x, b) + 1
<1> DEFINE X == Rows(x, b)
           Y == Rows(y, b)
           n == Len(b)
           m == Len(y)
<1>1. n \in Nat /\ m \in Nat /\ Len(x) = m + 1
  BY LenProperties DEF OneMore
<1>2. PICK p \in 1 .. m + 1 : (\A i \in 1 .. p - 1 : x[i] = y[i]) /\ \A i \in p .. m : x[i + 1] = y[i]
  BY <1>1 DEF OneMore
<1>3. /\ X \in [0 .. m + 1 -> [0 .. n -> Nat]]
      /\ \A i \in 1 .. m + 1 : IsNextRow(X[i], X[i - 1], b, x[i], i)
  BY <1>1, RowsStep
<1>4. /\ Y \in [0 .. m -> [0 .. n -> Nat]]
      /\ \A i \in 1 .. m : IsNextRow(Y[i], Y[i - 1], b, y[i], i)
  BY RowsStep
<1>5. \A i \in 0 .. p - 1 : X[i] = Y[i]
  <2>1. p - 1 \in Nat /\ p - 1 <= Len(x) /\ p - 1 <= Len(y)
    BY <1>1
  <2> QED BY <1>2, <2>1, SameBeginning, SMTT(30)
<1>6. \A i \in 0 .. m + 1 : X[i][0] = i /\ \A j \in 1 .. n : X[i][j] <= X[i][j - 1] + 1
  BY <1>1, RowShape
<1>7. X[m + 1][n] = levenshtein(x, b) /\ Y[m][n] = levenshtein(y, b)
  BY <1>1 DEF levenshtein
<1> HIDE DEF X, Y, m
<1> DEFINE T == {i \in 0 .. m : i >= p - 1 => Close(X[i + 1], Y[i], n)}
<1>8. ASSUME NEW i \in 0 .. m, i = p - 1 PROVE i \in T
  <2>1. i + 1 \in 1 .. m + 1 /\ (i + 1) - 1 = i /\ i + 1 \in Nat /\ i \in 0 .. m + 1
    BY <1>1
  <2>2. IsNextRow(X[i + 1], X[i], b, x[i + 1], i + 1) /\ X[i] \in [0 .. n -> Nat]
    BY <1>3, <2>1
  <2>3. X[i][0] + 1 = i + 1 /\ \A j \in 1 .. n : X[i][j] <= X[i][j - 1] + 1
    BY <1>6, <2>1
  <2>4. Close(X[i + 1], X[i], n)
    <3> DEFINE U == X[i + 1]
               P == X[i]
               k == i + 1
               c == x[i + 1]
    <3>1. IsNextRow(U, P, b, c, k) /\ P \in [0 .. n -> Nat] /\ P[0] + 1 = k
          /\ (\A j \in 1 .. n : P[j] <= P[j - 1] + 1) /\ k \in Nat
      BY <2>1, <2>2, <2>3
    <3> HIDE DEF U, P, k, c
    <3>2. Close(U, P, n)
      BY <3>1, NextLetter
    <3> QED BY <3>2 DEF U, P
  <2>5. X[i] = Y[i]
    BY <1>5, <1>8
  <2> QED BY <2>4, <2>5
<1>9. 0 \in T
  <2>1. CASE p = 1
    BY <1>1, <1>8, <2>1
  <2>2. CASE p # 1
    BY <1>1, <2>2
  <2> QED BY <2>1, <2>2
<1>10. ASSUME NEW i \in 0 .. m, i \in T, i < m PROVE i + 1 \in T
  <2>0. i + 1 \in 0 .. m
    BY <1>1, <1>10
  <2>1. CASE i + 1 < p - 1
    BY <1>1, <2>0, <2>1
  <2>2. CASE i + 1 = p - 1
    BY <1>8, <2>0, <2>2
  <2>3. CASE i + 1 > p - 1
    <3>1. /\ i + 2 \in 1 .. m + 1 /\ (i + 2) - 1 = i + 1 /\ i + 1 \in 1 .. m /\ (i + 1) - 1 = i
          /\ i \in 0 .. m /\ i + 1 \in 0 .. m + 1 /\ i + 1 \in p .. m /\ (i + 1) + 1 = i + 2 /\ i >= p - 1
      BY <1>1, <1>10, <2>3
    <3> DEFINE U == X[i + 2]
               P == X[i + 1]
               V == Y[i + 1]
               Q == Y[i]
               c == y[i + 1]
               k == i + 2
               l == i + 1
    <3>2. x[k] = c
      BY <1>2, <3>1
    <3>3. /\ IsNextRow(U, P, b, c, k) /\ IsNextRow(V, Q, b, c, l)
          /\ P \in [0 .. n -> Nat] /\ Q \in [0 .. n -> Nat] /\ Close(P, Q, n)
          /\ k \in Nat /\ l \in Nat /\ k <= l + 1 /\ l <= k + 1
      <4>1. IsNextRow(U, P, b, c, k)
        BY <1>3, <3>1, <3>2
      <4>2. IsNextRow(V, Q, b, c, l)
        BY <1>4, <3>1
      <4>3. P \in [0 .. n -> Nat] /\ Q \in [0 .. n -> Nat]
        BY <1>3, <1>4, <3>1
      <4>4. Close(P, Q, n)
        BY <1>10, <3>1
      <4>5. k \in Nat /\ l \in Nat /\ k <= l + 1 /\ l <= k + 1
        BY <1>1, <3>1
      <4> QED BY <4>1, <4>2, <4>3, <4>4, <4>5
    <3> HIDE DEF U, P, V, Q, c, k, l
    <3>4. Close(U, V, n)
      BY <3>3, SameLetter
    <3>5. Close(X[(i + 1) + 1], Y[i + 1], n)
      BY <3>1, <3>4 DEF U, V
    <3> QED BY <2>0, <3>5
  <2> QED BY <1>1, <2>0, <2>1, <2>2, <2>3
<1>11. m \in T
  <2> HIDE DEF T
  <2>1. 0 .. m \subseteq T
    BY <1>1, <1>9, <1>10, Upward
  <2> QED BY <1>1, <2>1
<1>12. Close(X[m + 1], Y[m], n)
  BY <1>1, <1>11
<1> QED BY <1>1, <1>7, <1>12 DEF Close

(* Another letter is at most one more, or less, in the distance. *)
LEMMA OneOtherIsClose ==
  ASSUME NEW S, NEW R, NEW b \in Seq(S), NEW x \in Seq(R), NEW y \in Seq(R), OneOther(x, y)
  PROVE  levenshtein(x, b) <= levenshtein(y, b) + 1 /\ levenshtein(y, b) <= levenshtein(x, b) + 1
<1> DEFINE X == Rows(x, b)
           Y == Rows(y, b)
           n == Len(b)
           m == Len(y)
<1>1. n \in Nat /\ m \in Nat /\ Len(x) = m
  BY LenProperties DEF OneOther
<1>2. PICK p \in 1 .. m : \A i \in 1 .. m : i # p => x[i] = y[i]
  BY <1>1 DEF OneOther
<1>3. /\ X \in [0 .. m -> [0 .. n -> Nat]]
      /\ \A i \in 1 .. m : IsNextRow(X[i], X[i - 1], b, x[i], i)
  BY <1>1, RowsStep
<1>4. /\ Y \in [0 .. m -> [0 .. n -> Nat]]
      /\ \A i \in 1 .. m : IsNextRow(Y[i], Y[i - 1], b, y[i], i)
  BY RowsStep
<1>5. \A i \in 0 .. p - 1 : X[i] = Y[i]
  <2>1. p - 1 \in Nat /\ p - 1 <= Len(x) /\ p - 1 <= Len(y)
    BY <1>1
  <2>2. \A i \in 1 .. p - 1 : x[i] = y[i]
    BY <1>1, <1>2
  <2>3. \A i \in 0 .. p - 1 : Rows(x, b)[i] = Rows(y, b)[i]
    BY <2>1, <2>2, SameBeginning, SMTT(30)
  <2> QED BY <2>3
<1>6. X[m][n] = levenshtein(x, b) /\ Y[m][n] = levenshtein(y, b)
  BY <1>1 DEF levenshtein
<1> HIDE DEF X, Y, m
<1> DEFINE T == {i \in 0 .. m : i >= p => Close(X[i], Y[i], n)}
<1>7. ASSUME NEW i \in 0 .. m, i = p PROVE i \in T
  <2>1. i \in 1 .. m /\ i \in Nat /\ i - 1 \in 0 .. p - 1 /\ i - 1 \in 0 .. m
    BY <1>1, <1>7
  <2> DEFINE U == X[i]
             V == Y[i]
             P == X[i - 1]
             c == x[i]
             d == y[i]
  <2>2. /\ IsNextRow(U, P, b, c, i) /\ IsNextRow(V, P, b, d, i) /\ P \in [0 .. n -> Nat]
    BY <1>3, <1>4, <1>5, <2>1
  <2> HIDE DEF U, V, P, c, d
  <2>3. Close(U, V, n)
    BY <2>1, <2>2, OtherLetter
  <2> QED BY <2>3 DEF U, V
<1>8. 0 \in T
  BY <1>1
<1>9. ASSUME NEW i \in 0 .. m, i \in T, i < m PROVE i + 1 \in T
  <2>0. i + 1 \in 0 .. m
    BY <1>1, <1>9
  <2>1. CASE i + 1 < p
    BY <1>1, <2>0, <2>1
  <2>2. CASE i + 1 = p
    BY <1>7, <2>0, <2>2
  <2>3. CASE i + 1 > p
    <3>1. i + 1 \in 1 .. m /\ (i + 1) - 1 = i /\ i \in 0 .. m /\ i >= p /\ i + 1 # p
      BY <1>1, <1>9, <2>3
    <3> DEFINE U == X[i + 1]
               P == X[i]
               V == Y[i + 1]
               Q == Y[i]
               c == y[i + 1]
               k == i + 1
    <3>2. x[i + 1] = c
      BY <1>2, <3>1
    <3>3. /\ IsNextRow(U, P, b, c, k) /\ IsNextRow(V, Q, b, c, k)
          /\ P \in [0 .. n -> Nat] /\ Q \in [0 .. n -> Nat] /\ Close(P, Q, n)
          /\ k \in Nat /\ k <= k + 1
      BY <1>3, <1>4, <1>9, <3>1, <3>2, SMTT(30)
    <3> HIDE DEF U, P, V, Q, c, k
    <3>4. Close(U, V, n)
      BY <3>3, SameLetter
    <3> QED BY <2>0, <3>4 DEF U, V
  <2> QED BY <1>1, <2>0, <2>1, <2>2, <2>3
<1>10. m \in T
  <2> HIDE DEF T
  <2>1. 0 .. m \subseteq T
    BY <1>1, <1>8, <1>9, Upward
  <2> QED BY <1>1, <2>1
<1>11. Close(X[m], Y[m], n)
  BY <1>1, <1>10
<1> QED BY <1>1, <1>6, <1>11 DEF Close

(* One edit more is at most one more in the distance. *)
LEMMA NearIsClose ==
  ASSUME NEW S, NEW R, NEW b \in Seq(S), NEW x \in Seq(R), NEW y \in Seq(R), Near(x, y)
  PROVE  levenshtein(x, b) <= levenshtein(y, b) + 1
<1>1. levenshtein(y, b) \in Nat
  <2>1. Len(y) \in 0 .. Len(y) /\ Len(b) \in 0 .. Len(b)
    BY LenProperties
  <2>2. Rows(y, b)[Len(y)] \in [0 .. Len(b) -> Nat]
    BY <2>1, RowShape
  <2> QED BY <2>1, <2>2 DEF levenshtein
<1> QED BY <1>1, OneMoreIsClose, OneOtherIsClose DEF Near

(* No edit, no distance. *)
LEMMA SameIsZero ==
  ASSUME NEW S, NEW b \in Seq(S)
  PROVE  levenshtein(b, b) = 0
<1> DEFINE n == Len(b)
           B == Rows(b, b)
           T == {i \in 0 .. n : B[i][i] = 0}
<1>1. n \in Nat
  BY LenProperties
<1>2. /\ B \in [0 .. n -> [0 .. n -> Nat]] /\ B[0] = [j \in 0 .. n |-> j]
      /\ \A i \in 1 .. n : IsNextRow(B[i], B[i - 1], b, b[i], i)
  BY RowsStep
<1> HIDE DEF B
<1>3. 0 \in T
  <2>1. 0 \in 0 .. n
    BY <1>1
  <2> QED BY <1>2, <2>1
<1>4. ASSUME NEW i \in 0 .. n, i \in T, i < n PROVE i + 1 \in T
  <2>1. i + 1 \in 1 .. n /\ (i + 1) - 1 = i /\ i + 1 \in 0 .. n
    BY <1>1, <1>4
  <2>2. IsNextRow(B[i + 1], B[i], b, b[i + 1], i + 1) /\ B[i][i] = 0
    BY <1>2, <1>4, <2>1
  <2>3. B[i + 1][i + 1] <= B[i][(i + 1) - 1] + Cost(b[i + 1], b[i + 1])
    BY <2>1, <2>2 DEF IsNextRow
  <2>4. B[i + 1][i + 1] \in Nat /\ B[i + 1][i + 1] <= 0
    <3>1. Cost(b[i + 1], b[i + 1]) = 0
      BY DEF Cost
    <3>2. B[i + 1] \in [0 .. n -> Nat]
      BY <1>2, <2>1
    <3>3. B[i + 1][i + 1] \in Nat
      BY <2>1, <3>2
    <3>4. B[i][(i + 1) - 1] = 0
      BY <2>1, <2>2
    <3> QED BY <2>3, <3>1, <3>3, <3>4
  <2> QED BY <2>1, <2>4
<1>5. n \in T
  <2> HIDE DEF T
  <2>1. 0 .. n \subseteq T
    BY <1>1, <1>3, <1>4, Upward
  <2> QED BY <1>1, <2>1
<1> QED BY <1>5 DEF levenshtein, B

(* The first characters, and the last. *)
LEMMA Part ==
  ASSUME NEW S, NEW s \in Seq(S), NEW m \in 1 .. Len(s) + 1, NEW n \in 0 .. Len(s), m <= n + 1
  PROVE  /\ SubSeq(s, m, n) \in Seq(S) /\ Len(SubSeq(s, m, n)) = n - m + 1
         /\ \A i \in 1 .. n - m + 1 : SubSeq(s, m, n)[i] = s[m + i - 1]
<1>1. Len(s) \in Nat /\ m \in Int /\ n \in Int
  BY LenProperties
<1>2. \A i \in m .. n : s[i] \in S
  <2>1. \A i \in m .. n : i \in 1 .. Len(s)
    BY <1>1
  <2> QED BY <2>1, ElementOfSeq
<1>3. /\ SubSeq(s, m, n) \in Seq(S) /\ Len(SubSeq(s, m, n)) = IF m <= n THEN n - m + 1 ELSE 0
      /\ \A i \in 1 .. n - m + 1 : SubSeq(s, m, n)[i] = s[m + i - 1]
  BY <1>1, <1>2, SubSeqProperties
<1> QED BY <1>1, <1>3

(* A letter more at a place. *)
LEMMA Inserted ==
  ASSUME NEW S, NEW y \in Seq(S), NEW p \in 1 .. Len(y) + 1, NEW c \in S
  PROVE  LET x == InsertAt(y, p, c)
         IN  /\ x \in Seq(S) /\ Len(x) = Len(y) + 1 /\ x[p] = c
             /\ \A i \in 1 .. p - 1 : x[i] = y[i]
             /\ \A i \in p .. Len(y) : x[i + 1] = y[i]
<1> DEFINE n == Len(y)
           u == SubSeq(y, 1, p - 1)
           e == <<c>>
           v == SubSeq(y, p, n)
           w == u \o e
           x == w \o v
<1>1. n \in Nat
  BY LenProperties
<1>2. u \in Seq(S) /\ Len(u) = p - 1 /\ \A i \in 1 .. p - 1 : u[i] = y[i]
  <2>1. 1 \in 1 .. n + 1 /\ p - 1 \in 0 .. n /\ 1 <= (p - 1) + 1
    BY <1>1
  <2>2. /\ u \in Seq(S) /\ Len(u) = (p - 1) - 1 + 1
        /\ \A i \in 1 .. (p - 1) - 1 + 1 : u[i] = y[1 + i - 1]
    BY <2>1, Part
  <2> QED BY <1>1, <2>2
<1>3. v \in Seq(S) /\ Len(v) = n - p + 1 /\ \A i \in 1 .. n - p + 1 : v[i] = y[p + i - 1]
  <2>1. p \in 1 .. n + 1 /\ n \in 0 .. n /\ p <= n + 1
    BY <1>1
  <2> QED BY <2>1, Part
<1>4. e \in Seq(S) /\ Len(e) = 1 /\ e[1] = c
  OBVIOUS
<1> HIDE DEF u, e, v, n
<1>5. /\ w \in Seq(S) /\ Len(w) = p
      /\ \A i \in 1 .. p : w[i] = IF i <= p - 1 THEN u[i] ELSE e[i - (p - 1)]
  <2>1. /\ w \in Seq(S) /\ Len(w) = Len(u) + Len(e)
        /\ \A i \in 1 .. Len(u) + Len(e) : w[i] = IF i <= Len(u) THEN u[i] ELSE e[i - Len(u)]
    BY <1>2, <1>4, ConcatProperties
  <2> QED BY <1>1, <1>2, <1>4, <2>1
<1> HIDE DEF w
<1>6. /\ x \in Seq(S) /\ Len(x) = n + 1
      /\ \A i \in 1 .. n + 1 : x[i] = IF i <= p THEN w[i] ELSE v[i - p]
  <2>1. /\ x \in Seq(S) /\ Len(x) = Len(w) + Len(v)
        /\ \A i \in 1 .. Len(w) + Len(v) : x[i] = IF i <= Len(w) THEN w[i] ELSE v[i - Len(w)]
    BY <1>3, <1>5, ConcatProperties
  <2> QED BY <1>1, <1>3, <1>5, <2>1, SMTT(30)
<1> HIDE DEF x
<1>7. p \in 1 .. n + 1
  BY DEF n
<1>8. x[p] = c
  <2>1. p \in 1 .. p /\ ~ (p <= p - 1) /\ p - (p - 1) = 1 /\ p <= p
    BY <1>1, <1>7
  <2> QED BY <1>4, <1>5, <1>6, <1>7, <2>1
<1>9. ASSUME NEW i \in 1 .. p - 1 PROVE x[i] = y[i]
  <2>1. i \in 1 .. n + 1 /\ i \in 1 .. p /\ i <= p /\ i <= p - 1
    BY <1>1, <1>7
  <2> QED BY <1>2, <1>5, <1>6, <2>1
<1>10. ASSUME NEW i \in p .. n PROVE x[i + 1] = y[i]
  <2>1. i + 1 \in 1 .. n + 1 /\ ~ (i + 1 <= p) /\ (i + 1) - p \in 1 .. n - p + 1 /\ p + ((i + 1) - p) - 1 = i
    BY <1>1, <1>7
  <2> QED BY <1>3, <1>6, <2>1
<1> QED BY <1>6, <1>8, <1>9, <1>10 DEF InsertAt, x, w, u, e, v, n

(* A letter less at a place. *)
LEMMA Removed ==
  ASSUME NEW S, NEW y \in Seq(S), NEW p \in 1 .. Len(y)
  PROVE  LET x == RemoveAt(y, p)
         IN  /\ x \in Seq(S) /\ Len(y) = Len(x) + 1
             /\ \A i \in 1 .. p - 1 : x[i] = y[i]
             /\ \A i \in p .. Len(x) : y[i + 1] = x[i]
<1> DEFINE n == Len(y)
           u == SubSeq(y, 1, p - 1)
           v == SubSeq(y, p + 1, n)
           x == u \o v
<1>1. n \in Nat /\ p \in 1 .. n
  BY LenProperties
<1>2. u \in Seq(S) /\ Len(u) = p - 1 /\ \A i \in 1 .. p - 1 : u[i] = y[i]
  <2>1. 1 \in 1 .. n + 1 /\ p - 1 \in 0 .. n /\ 1 <= (p - 1) + 1
    BY <1>1
  <2>2. /\ u \in Seq(S) /\ Len(u) = (p - 1) - 1 + 1
        /\ \A i \in 1 .. (p - 1) - 1 + 1 : u[i] = y[1 + i - 1]
    BY <2>1, Part
  <2> QED BY <1>1, <2>2
<1>3. v \in Seq(S) /\ Len(v) = n - p /\ \A i \in 1 .. n - p : v[i] = y[p + i]
  <2>1. p + 1 \in 1 .. n + 1 /\ n \in 0 .. n /\ p + 1 <= n + 1
    BY <1>1
  <2>2. /\ v \in Seq(S) /\ Len(v) = n - (p + 1) + 1
        /\ \A i \in 1 .. n - (p + 1) + 1 : v[i] = y[(p + 1) + i - 1]
    BY <2>1, Part
  <2>3. n - (p + 1) + 1 = n - p /\ \A i \in 1 .. n - p : (p + 1) + i - 1 = p + i
    BY <1>1
  <2> HIDE DEF v, n
  <2> QED BY <2>2, <2>3
<1> HIDE DEF u, v, n
<1>4. /\ x \in Seq(S) /\ Len(x) = n - 1
      /\ \A i \in 1 .. n - 1 : x[i] = IF i <= p - 1 THEN u[i] ELSE v[i - (p - 1)]
  <2>1. /\ x \in Seq(S) /\ Len(x) = Len(u) + Len(v)
        /\ \A i \in 1 .. Len(u) + Len(v) : x[i] = IF i <= Len(u) THEN u[i] ELSE v[i - Len(u)]
    BY <1>2, <1>3, ConcatProperties
  <2> QED BY <1>1, <1>2, <1>3, <2>1
<1> HIDE DEF x
<1>5. ASSUME NEW i \in 1 .. p - 1 PROVE x[i] = y[i]
  <2>1. i \in 1 .. n - 1 /\ i <= p - 1
    BY <1>1
  <2> QED BY <1>2, <1>4, <2>1
<1>6. ASSUME NEW i \in p .. n - 1 PROVE x[i] = y[i + 1]
  <2>1. i \in 1 .. n - 1 /\ ~ (i <= p - 1) /\ i - (p - 1) \in 1 .. n - p /\ p + (i - (p - 1)) = i + 1
    BY <1>1
  <2> QED BY <1>3, <1>4, <2>1
<1>7. x \in Seq(S) /\ n = Len(x) + 1 /\ Len(x) = n - 1
  BY <1>1, <1>4
<1> QED BY <1>5, <1>6, <1>7 DEF RemoveAt, x, u, v, n

(* What one edit makes of a word. *)
LEMMA EditedIsNear ==
  ASSUME NEW y \in Seq(Letters), NEW x
  PROVE  x \in Edited1({y}) <=> x \in Seq(Letters) /\ Near(x, y)
<1> DEFINE L == Letters
           n == Len(y)
<1>1. n \in Nat /\ DOMAIN y = 1 .. n
  BY LenProperties
<1>2. x \in Edited1({y}) <=> \/ x = y
                             \/ \E i \in 1 .. n + 1, c \in L : x = InsertAt(y, i, c)
                             \/ \E i \in 1 .. n : x = RemoveAt(y, i)
                             \/ \E i \in 1 .. n, c \in L : x = ReplaceAt(y, i, c)
  <2>1. x \in Edited1({y}) <=> \/ x = y
                               \/ \E i \in 1 .. Len(y) + 1, c \in L : x = InsertAt(y, i, c)
                               \/ \E i \in DOMAIN y : x = RemoveAt(y, i)
                               \/ \E i \in DOMAIN y, c \in L : x = ReplaceAt(y, i, c)
    BY DEF Edited1
  <2> QED BY <1>1, <2>1
<1>3. ASSUME NEW i \in 1 .. n + 1, NEW c \in L, x = InsertAt(y, i, c)
      PROVE  x \in Seq(L) /\ Near(x, y)
  <2>1. /\ x \in Seq(L) /\ Len(x) = n + 1
        /\ \A j \in 1 .. i - 1 : x[j] = y[j]
        /\ \A j \in i .. n : x[j + 1] = y[j]
    BY <1>3, Inserted
  <2>2. OneMore(x, y)
    BY <2>1 DEF OneMore
  <2> QED BY <2>1, <2>2 DEF Near
<1>4. ASSUME NEW i \in 1 .. n, x = RemoveAt(y, i)
      PROVE  x \in Seq(L) /\ Near(x, y)
  <2>1. /\ x \in Seq(L) /\ n = Len(x) + 1
        /\ \A j \in 1 .. i - 1 : x[j] = y[j]
        /\ \A j \in i .. Len(x) : y[j + 1] = x[j]
    BY <1>4, Removed
  <2>2. OneMore(y, x)
    BY <2>1 DEF OneMore
  <2> QED BY <2>1, <2>2 DEF Near
<1>5. ASSUME NEW i \in 1 .. n, NEW c \in L, x = ReplaceAt(y, i, c)
      PROVE  x \in Seq(L) /\ Near(x, y)
  <2>1. /\ x \in Seq(L) /\ Len(x) = n
        /\ \A j \in 1 .. n : x[j] = IF j = i THEN c ELSE y[j]
    BY <1>5, ExceptSeq DEF ReplaceAt
  <2>2. OneOther(x, y)
    BY <2>1 DEF OneOther
  <2> QED BY <2>1, <2>2 DEF Near
<1>6. ASSUME x \in Seq(L), OneMore(x, y)
      PROVE  \E i \in 1 .. n + 1, c \in L : x = InsertAt(y, i, c)
  <2>1. PICK p \in 1 .. n + 1 : /\ \A i \in 1 .. p - 1 : x[i] = y[i]
                                /\ \A i \in p .. n : x[i + 1] = y[i]
    BY <1>6 DEF OneMore
  <2>2. Len(x) = n + 1
    BY <1>6 DEF OneMore
  <2>3. x[p] \in L
    BY <1>6, <2>2, ElementOfSeq
  <2> DEFINE z == InsertAt(y, p, x[p])
  <2>4. /\ z \in Seq(L) /\ Len(z) = n + 1 /\ z[p] = x[p]
        /\ \A i \in 1 .. p - 1 : z[i] = y[i]
        /\ \A i \in p .. n : z[i + 1] = y[i]
    BY <2>3, Inserted
  <2> HIDE DEF z
  <2>5. ASSUME NEW i \in 1 .. n + 1 PROVE x[i] = z[i]
    <3>1. CASE i < p
      <4>1. i \in 1 .. p - 1
        BY <1>1, <3>1
      <4> QED BY <2>1, <2>4, <4>1
    <3>2. CASE i = p
      BY <2>4, <3>2
    <3>3. CASE i > p
      <4>1. i - 1 \in p .. n /\ (i - 1) + 1 = i
        BY <1>1, <3>3
      <4>2. x[(i - 1) + 1] = y[i - 1] /\ z[(i - 1) + 1] = y[i - 1]
        BY <2>1, <2>4, <4>1
      <4> QED BY <4>1, <4>2
    <3> QED BY <1>1, <3>1, <3>2, <3>3
  <2>6. x = z
    BY <1>6, <2>2, <2>4, <2>5, SeqEqual
  <2> QED BY <2>3, <2>6 DEF z
<1>7. ASSUME x \in Seq(L), OneMore(y, x)
      PROVE  \E i \in 1 .. n : x = RemoveAt(y, i)
  <2>0. Len(x) \in Nat /\ n = Len(x) + 1
    BY <1>7, LenProperties DEF OneMore
  <2>1. PICK p \in 1 .. n : /\ \A i \in 1 .. p - 1 : y[i] = x[i]
                            /\ \A i \in p .. Len(x) : y[i + 1] = x[i]
    BY <1>7 DEF OneMore
  <2> DEFINE z == RemoveAt(y, p)
  <2>2. /\ z \in Seq(L) /\ n = Len(z) + 1
        /\ \A i \in 1 .. p - 1 : z[i] = y[i]
        /\ \A i \in p .. Len(z) : y[i + 1] = z[i]
    BY Removed
  <2> HIDE DEF z
  <2>3. Len(z) \in Nat
    BY <2>2, LenProperties
  <2>4. Len(z) = Len(x)
    BY <1>1, <2>0, <2>2, <2>3
  <2>5. ASSUME NEW i \in 1 .. Len(x) PROVE x[i] = z[i]
    <3>1. i \in 1 .. p - 1 \/ i \in p .. Len(x)
      BY <1>1, <2>0
    <3> QED BY <2>1, <2>2, <2>4, <3>1
  <2>6. x = z
    BY <1>7, <2>2, <2>4, <2>5, SeqEqual
  <2> QED BY <2>6 DEF z
<1>8. ASSUME x \in Seq(L), OneOther(x, y)
      PROVE  \E i \in 1 .. n, c \in L : x = ReplaceAt(y, i, c)
  <2>0. Len(x) = n
    BY <1>8 DEF OneOther
  <2>1. PICK p \in 1 .. n : \A i \in 1 .. n : i # p => x[i] = y[i]
    BY <1>8, <2>0 DEF OneOther
  <2>2. x[p] \in L
    BY <1>8, <2>0, ElementOfSeq
  <2> DEFINE z == ReplaceAt(y, p, x[p])
  <2>3. /\ z \in Seq(L) /\ Len(z) = n
        /\ \A j \in 1 .. n : z[j] = IF j = p THEN x[p] ELSE y[j]
    BY <2>2, ExceptSeq DEF ReplaceAt
  <2> HIDE DEF z
  <2>4. \A i \in 1 .. n : x[i] = z[i]
    BY <2>1, <2>3
  <2>5. x = z
    BY <1>8, <2>0, <2>3, <2>4, SeqEqual
  <2> QED BY <2>2, <2>5 DEF z
<1>9. x = y => x \in Seq(L) /\ Near(x, y)
  BY DEF Near
<1> QED BY <1>2, <1>3, <1>4, <1>5, <1>6, <1>7, <1>8, <1>9 DEF Near

(* An edit of a word of S is an edit of one of them. *)
LEMMA EditedPicks ==
  ASSUME NEW S, NEW x
  PROVE  x \in Edited1(S) <=> \E y \in S : x \in Edited1({y})
BY DEF Edited1

(* What k edits make of a word. *)
EditedUpTo(k, word) ==
  CASE k = 0 -> {word}
    [] k = 1 -> Edited1({word})
    [] k = 2 -> Edited1(Edited1({word}))

(* No edit, one and two, without the sequences' operators. *)
LEMMA EditsAre ==
  ASSUME NEW b \in Seq(Letters)
  PROVE  /\ \A x : x \in EditedUpTo(0, b) <=> x = b
         /\ \A x : x \in EditedUpTo(1, b) <=> x \in Seq(Letters) /\ Near(x, b)
         /\ \A x : x \in EditedUpTo(2, b) <=> x \in Seq(Letters) /\ \E y \in Seq(Letters) : Near(x, y) /\ Near(y, b)
<1>1. \A x : x \in EditedUpTo(0, b) <=> x = b
  BY DEF EditedUpTo
<1>2. \A x : x \in Edited1({b}) <=> x \in Seq(Letters) /\ Near(x, b)
  BY EditedIsNear
<1>3. EditedUpTo(1, b) = Edited1({b}) /\ EditedUpTo(2, b) = Edited1(Edited1({b}))
  BY DEF EditedUpTo
<1>4. ASSUME NEW x
      PROVE  x \in EditedUpTo(2, b) <=> x \in Seq(Letters) /\ \E y \in Seq(Letters) : Near(x, y) /\ Near(y, b)
  <2>1. x \in EditedUpTo(2, b) <=> \E y \in Edited1({b}) : x \in Edited1({y})
    <3> DEFINE S == Edited1({b})
    <3>1. EditedUpTo(2, b) = Edited1(S)
      BY <1>3
    <3> HIDE DEF S
    <3>2. x \in Edited1(S) <=> \E y \in S : x \in Edited1({y})
      BY EditedPicks
    <3> QED BY <3>1, <3>2 DEF S
  <2>2. \A y \in Seq(Letters) : x \in Edited1({y}) <=> x \in Seq(Letters) /\ Near(x, y)
    BY EditedIsNear
  <2> QED BY <1>2, <2>1, <2>2
<1> QED BY <1>1, <1>2, <1>3, <1>4

(* One edit changes the length by at most one. *)
LEMMA NearLength ==
  ASSUME NEW S, NEW x \in Seq(S), NEW y \in Seq(S), Near(x, y)
  PROVE  Len(x) - Len(y) <= 1 /\ Len(y) - Len(x) <= 1
<1>1. Len(x) \in Nat /\ Len(y) \in Nat
  BY LenProperties
<1>2. x = y \/ Len(x) = Len(y) + 1 \/ Len(y) = Len(x) + 1 \/ Len(x) = Len(y)
  BY DEF Near, OneMore, OneOther
<1> QED BY <1>1, <1>2

(* Neither the distance nor the lengths differ more than that. *)
LEMMA EditsAreInDistance ==
  ASSUME NEW b \in Seq(Letters), NEW k \in 0 .. 2, NEW x \in EditedUpTo(k, b)
  PROVE  /\ x \in Seq(Letters) /\ levenshtein(x, b) <= k
         /\ Len(x) - Len(b) <= k /\ Len(b) - Len(x) <= k
<1>1. Len(b) \in Nat /\ levenshtein(b, b) = 0
  BY LenProperties, SameIsZero
<1>2. CASE k = 0
  BY <1>1, <1>2, EditsAre
<1>3. ASSUME NEW y \in Seq(Letters), Near(y, b)
      PROVE  levenshtein(y, b) <= 1 /\ Len(y) - Len(b) <= 1 /\ Len(b) - Len(y) <= 1
  <2>1. levenshtein(y, b) <= levenshtein(b, b) + 1
    BY <1>3, NearIsClose
  <2> QED BY <1>1, <1>3, <2>1, NearLength
<1>4. CASE k = 1
  <2>1. x \in Seq(Letters) /\ Near(x, b)
    BY <1>4, EditsAre
  <2> QED BY <1>3, <1>4, <2>1
<1>5. CASE k = 2
  <2>1. x \in Seq(Letters)
    BY <1>5, EditsAre
  <2>2. PICK y \in Seq(Letters) : Near(x, y) /\ Near(y, b)
    BY <1>5, EditsAre
  <2>3. levenshtein(x, b) <= levenshtein(y, b) + 1
    BY <2>1, <2>2, NearIsClose
  <2>4. Len(x) - Len(y) <= 1 /\ Len(y) - Len(x) <= 1 /\ Len(x) \in Nat /\ Len(y) \in Nat
    BY <2>1, <2>2, NearLength, LenProperties
  <2>5. levenshtein(y, b) <= 1 /\ Len(y) - Len(b) <= 1 /\ Len(b) - Len(y) <= 1
    BY <1>3, <2>2
  <2>6. levenshtein(x, b) \in Nat /\ levenshtein(y, b) \in Nat
    <3>1. Len(x) \in 0 .. Len(x) /\ Len(y) \in 0 .. Len(y) /\ Len(b) \in 0 .. Len(b)
      BY <1>1, <2>4
    <3>2. Rows(x, b)[Len(x)] \in [0 .. Len(b) -> Nat] /\ Rows(y, b)[Len(y)] \in [0 .. Len(b) -> Nat]
      BY <2>1, <3>1, RowShape
    <3> QED BY <3>1, <3>2 DEF levenshtein
  <2>7. levenshtein(x, b) <= 2
    BY <2>3, <2>5, <2>6
  <2>8. Len(x) - Len(b) <= 2 /\ Len(b) - Len(x) <= 2
    BY <1>1, <2>4, <2>5
  <2> QED BY <1>5, <2>1, <2>7, <2>8
<1> QED BY <1>2, <1>4, <1>5

(* Letters at the end. *)
LEMMA NearAppend ==
  ASSUME NEW S, NEW u \in Seq(S), NEW v \in Seq(S), NEW c \in S, NEW d \in S
  PROVE  /\ Near(u, u)
         /\ Near(Append(u, c), u) /\ Near(u, Append(u, c)) /\ Near(Append(u, c), Append(u, d))
         /\ Near(u, v) => Near(Append(u, c), Append(v, c))
<1> DEFINE n == Len(u)
           m == Len(v)
           uc == Append(u, c)
           vc == Append(v, c)
           ud == Append(u, d)
<1>1. n \in Nat /\ m \in Nat
  BY LenProperties
<1>2. /\ uc \in Seq(S) /\ Len(uc) = n + 1 /\ uc[n + 1] = c
      /\ \A i \in 1 .. n : uc[i] = u[i]
  BY AppendProperties
<1>3. /\ vc \in Seq(S) /\ Len(vc) = m + 1 /\ vc[m + 1] = c
      /\ \A i \in 1 .. m : vc[i] = v[i]
  BY AppendProperties
<1>4. /\ ud \in Seq(S) /\ Len(ud) = n + 1
      /\ \A i \in 1 .. n : ud[i] = u[i]
  BY AppendProperties
<1> HIDE DEF n, m, uc, vc, ud
<1>5. OneMore(uc, u)
  <2>1. n + 1 \in 1 .. n + 1 /\ (n + 1) - 1 = n /\ (n + 1) .. n = {} /\ Len(u) = n
    BY <1>1 DEF n
  <2>2. \A i \in 1 .. (n + 1) - 1 : uc[i] = u[i]
    BY <1>2, <2>1
  <2> QED BY <1>2, <2>1, <2>2 DEF OneMore
<1>6. OneOther(uc, ud)
  <2>1. n + 1 \in 1 .. n + 1 /\ \A i \in 1 .. n + 1 : i # n + 1 => i \in 1 .. n
    BY <1>1
  <2>2. \A i \in 1 .. n + 1 : i # n + 1 => uc[i] = ud[i]
    BY <1>2, <1>4, <2>1
  <2> QED BY <1>2, <1>4, <2>1, <2>2 DEF OneOther
<1>7. ASSUME OneMore(u, v) PROVE OneMore(uc, vc)
  <2>1. n = m + 1
    BY <1>7 DEF OneMore, n, m
  <2>2. PICK p \in 1 .. n : (\A i \in 1 .. p - 1 : u[i] = v[i]) /\ \A i \in p .. m : u[i + 1] = v[i]
    BY <1>7 DEF OneMore, n, m
  <2>3. \A i \in 1 .. p - 1 : uc[i] = vc[i]
    <3>1. \A i \in 1 .. p - 1 : i \in 1 .. n /\ i \in 1 .. m
      BY <1>1, <2>1
    <3> QED BY <1>2, <1>3, <2>2, <3>1
  <2>4. ASSUME NEW i \in p .. m + 1 PROVE uc[i + 1] = vc[i]
    <3>1. CASE i = m + 1
      BY <1>2, <1>3, <2>1, <3>1
    <3>2. CASE i # m + 1
      <4>1. i \in p .. m /\ i \in 1 .. m /\ i + 1 \in 1 .. n
        BY <1>1, <2>1, <3>2
      <4> QED BY <1>2, <1>3, <2>2, <4>1
    <3> QED BY <3>1, <3>2
  <2>5. p \in 1 .. n + 1 /\ Len(uc) = Len(vc) + 1
    BY <1>1, <1>2, <1>3, <2>1
  <2> QED BY <1>2, <1>3, <2>3, <2>4, <2>5 DEF OneMore
<1>8. ASSUME OneMore(v, u) PROVE OneMore(vc, uc)
  <2>1. m = n + 1
    BY <1>8 DEF OneMore, n, m
  <2>2. PICK p \in 1 .. m : (\A i \in 1 .. p - 1 : v[i] = u[i]) /\ \A i \in p .. n : v[i + 1] = u[i]
    BY <1>8 DEF OneMore, n, m
  <2>3. \A i \in 1 .. p - 1 : vc[i] = uc[i]
    <3>1. \A i \in 1 .. p - 1 : i \in 1 .. n /\ i \in 1 .. m
      BY <1>1, <2>1
    <3> QED BY <1>2, <1>3, <2>2, <3>1
  <2>4. ASSUME NEW i \in p .. n + 1 PROVE vc[i + 1] = uc[i]
    <3>1. CASE i = n + 1
      BY <1>2, <1>3, <2>1, <3>1
    <3>2. CASE i # n + 1
      <4>1. i \in p .. n /\ i \in 1 .. n /\ i + 1 \in 1 .. m
        BY <1>1, <2>1, <3>2
      <4> QED BY <1>2, <1>3, <2>2, <4>1
    <3> QED BY <3>1, <3>2
  <2>5. p \in 1 .. m + 1 /\ Len(vc) = Len(uc) + 1
    BY <1>1, <1>2, <1>3, <2>1
  <2> QED BY <1>2, <1>3, <2>3, <2>4, <2>5 DEF OneMore
<1>9. ASSUME OneOther(u, v) PROVE OneOther(uc, vc)
  <2>1. n = m
    BY <1>9 DEF OneOther, n, m
  <2>2. PICK p \in 1 .. n : \A i \in 1 .. n : i # p => u[i] = v[i]
    BY <1>9 DEF OneOther, n, m
  <2>3. ASSUME NEW i \in 1 .. n + 1, i # p PROVE uc[i] = vc[i]
    <3>1. CASE i = n + 1
      BY <1>2, <1>3, <2>1, <3>1
    <3>2. CASE i # n + 1
      <4>1. i \in 1 .. n
        BY <1>1, <3>2
      <4> QED BY <1>2, <1>3, <2>1, <2>2, <2>3, <4>1
    <3> QED BY <3>1, <3>2
  <2>4. p \in 1 .. n + 1 /\ Len(uc) = Len(vc)
    BY <1>1, <1>2, <1>3, <2>1
  <2> QED BY <1>2, <1>3, <2>3, <2>4 DEF OneOther
<1>10. u = v => uc = vc
  BY DEF uc, vc
<1> QED BY <1>5, <1>6, <1>7, <1>8, <1>9, <1>10 DEF Near, uc, vc, ud

(* Edits before or after others, and before a letter at the end. *)
LEMMA EditsSteps ==
  ASSUME NEW x \in Seq(Letters), NEW y \in Seq(Letters), NEW k \in 0 .. 2
  PROVE  /\ x \in EditedUpTo(k, x)
         /\ \A z \in Seq(Letters) : k >= 1 /\ x \in EditedUpTo(k - 1, z) /\ Near(z, y) => x \in EditedUpTo(k, y)
         /\ \A z \in Seq(Letters) : k >= 1 /\ z \in EditedUpTo(k - 1, y) /\ Near(x, z) => x \in EditedUpTo(k, y)
         /\ \A c \in Letters : x \in EditedUpTo(k, y) => Append(x, c) \in EditedUpTo(k, Append(y, c))
<1>1. k = 0 \/ k = 1 \/ k = 2
  OBVIOUS
<1>2. \A b \in Seq(Letters) : /\ \A s : s \in EditedUpTo(0, b) <=> s = b
                              /\ \A s : s \in EditedUpTo(1, b) <=> s \in Seq(Letters) /\ Near(s, b)
  BY EditsAre
<1>3. \A b \in Seq(Letters) : \A s : s \in EditedUpTo(2, b) <=>
        s \in Seq(Letters) /\ \E t \in Seq(Letters) : Near(s, t) /\ Near(t, b)
  BY EditsAre
<1>4. Near(x, x)
  BY DEF Near
<1>5. x \in EditedUpTo(k, x)
  BY <1>1, <1>2, <1>3, <1>4
<1>6. ASSUME NEW z \in Seq(Letters), k >= 1, x \in EditedUpTo(k - 1, z), Near(z, y) PROVE x \in EditedUpTo(k, y)
  <2>1. CASE k = 1
    BY <1>2, <1>6, <2>1
  <2>2. CASE k = 2
    BY <1>2, <1>3, <1>6, <2>2
  <2> QED BY <1>1, <1>6, <2>1, <2>2
<1>7. ASSUME NEW z \in Seq(Letters), k >= 1, z \in EditedUpTo(k - 1, y), Near(x, z) PROVE x \in EditedUpTo(k, y)
  <2>1. CASE k = 1
    BY <1>2, <1>7, <2>1
  <2>2. CASE k = 2
    BY <1>2, <1>3, <1>7, <2>2
  <2> QED BY <1>1, <1>7, <2>1, <2>2
<1>8. ASSUME NEW c \in Letters, x \in EditedUpTo(k, y) PROVE Append(x, c) \in EditedUpTo(k, Append(y, c))
  <2>1. \A s \in Seq(Letters) : Append(s, c) \in Seq(Letters)
    BY AppendProperties
  <2>2. \A s, t \in Seq(Letters) : Near(s, t) => Near(Append(s, c), Append(t, c))
    BY NearAppend
  <2>3. CASE k = 0
    BY <1>2, <1>8, <2>1, <2>3
  <2>4. CASE k = 1
    BY <1>2, <1>8, <2>1, <2>2, <2>4
  <2>5. CASE k = 2
    <3>1. PICK t \in Seq(Letters) : Near(x, t) /\ Near(t, y)
      BY <1>3, <1>8, <2>5
    <3>2. Near(Append(x, c), Append(t, c)) /\ Near(Append(t, c), Append(y, c))
      BY <2>2, <3>1
    <3> QED BY <1>3, <2>1, <2>5, <3>2
  <2> QED BY <1>1, <2>3, <2>4, <2>5
<1> QED BY <1>5, <1>6, <1>7, <1>8

(* The first letters of a word. *)
Pref(s, i) == SubSeq(s, 1, i)

(* The first letters, one by one. *)
LEMMA PrefGrows ==
  ASSUME NEW S, NEW s \in Seq(S)
  PROVE  /\ \A i \in 0 .. Len(s) : Pref(s, i) \in Seq(S)
         /\ Pref(s, 0) = <<>> /\ Pref(s, Len(s)) = s
         /\ \A i \in 1 .. Len(s) : s[i] \in S /\ Pref(s, i) = Append(Pref(s, i - 1), s[i])
<1>1. Len(s) \in Nat
  BY LenProperties
<1>2. ASSUME NEW i \in 0 .. Len(s)
      PROVE  /\ Pref(s, i) \in Seq(S) /\ Len(Pref(s, i)) = i
             /\ \A j \in 1 .. i : Pref(s, i)[j] = s[j]
  <2>1. 1 \in 1 .. Len(s) + 1 /\ 1 <= i + 1
    BY <1>1
  <2>2. /\ SubSeq(s, 1, i) \in Seq(S) /\ Len(SubSeq(s, 1, i)) = i - 1 + 1
        /\ \A j \in 1 .. i - 1 + 1 : SubSeq(s, 1, i)[j] = s[1 + j - 1]
    BY <2>1, Part
  <2> QED BY <1>1, <2>2 DEF Pref
<1>3. Pref(s, 0) = <<>>
  <2>1. 0 \in 0 .. Len(s)
    BY <1>1
  <2> QED BY <1>2, <2>1, EmptySeq
<1>4. Pref(s, Len(s)) = s
  BY SubSeqFull DEF Pref
<1>5. ASSUME NEW i \in 1 .. Len(s)
      PROVE  s[i] \in S /\ Pref(s, i) = Append(Pref(s, i - 1), s[i])
  <2>1. s[i] \in S
    BY ElementOfSeq
  <2>2. i - 1 \in 0 .. Len(s) /\ i \in 0 .. Len(s) /\ (i - 1) + 1 = i
    BY <1>1
  <2> DEFINE u == Pref(s, i - 1)
             v == Pref(s, i)
             w == Append(u, s[i])
  <2>3. u \in Seq(S) /\ Len(u) = i - 1 /\ \A j \in 1 .. i - 1 : u[j] = s[j]
    BY <1>2, <2>2
  <2>4. v \in Seq(S) /\ Len(v) = i /\ \A j \in 1 .. i : v[j] = s[j]
    BY <1>2, <2>2
  <2> HIDE DEF u, v
  <2>5. /\ w \in Seq(S) /\ Len(w) = Len(u) + 1
        /\ \A j \in 1 .. Len(u) : w[j] = u[j]
        /\ w[Len(u) + 1] = s[i]
    BY <2>1, <2>3, AppendProperties
  <2> HIDE DEF w
  <2>6. ASSUME NEW j \in 1 .. i PROVE v[j] = w[j]
    <3>1. j = i \/ j \in 1 .. i - 1
      BY <1>1
    <3> QED BY <2>2, <2>3, <2>4, <2>5, <3>1
  <2>7. Len(w) = i
    BY <2>2, <2>3, <2>5
  <2>8. v = w
    BY <2>4, <2>5, <2>6, <2>7, SeqEqual
  <2> QED BY <2>1, <2>8 DEF u, v, w
<1> QED BY <1>2, <1>3, <1>4, <1>5

(* Within the distance k, a word is k edits away. *)
LEMMA DistanceIsEdits ==
  ASSUME NEW a \in Seq(Letters), NEW b \in Seq(Letters), NEW k \in 0 .. 2, levenshtein(a, b) <= k
  PROVE  a \in EditedUpTo(k, b)
<1> DEFINE n == Len(a)
           m == Len(b)
           M == Rows(a, b)
           A(i) == Pref(a, i)
           B(j) == Pref(b, j)
           Good(i, j) == \A l \in 0 .. 2 : M[i][j] <= l => A(i) \in EditedUpTo(l, B(j))
           T == {i \in 0 .. n : \A j \in 0 .. m : Good(i, j)}
<1>1. n \in Nat /\ m \in Nat
  BY LenProperties
<1>2. /\ \A i \in 0 .. n : A(i) \in Seq(Letters)
      /\ A(n) = a
      /\ \A i \in 1 .. n : a[i] \in Letters /\ A(i) = Append(A(i - 1), a[i])
  BY PrefGrows
<1>3. /\ \A j \in 0 .. m : B(j) \in Seq(Letters)
      /\ B(m) = b
      /\ \A j \in 1 .. m : b[j] \in Letters /\ B(j) = Append(B(j - 1), b[j])
  BY PrefGrows
<1>4. A(0) = B(0)
  BY PrefGrows
<1>5. /\ M \in [0 .. n -> [0 .. m -> Nat]] /\ M[0] = [j \in 0 .. m |-> j]
      /\ \A i \in 1 .. n : IsNextRow(M[i], M[i - 1], b, a[i], i)
  BY RowsStep
<1>6. M[n][m] = levenshtein(a, b)
  BY DEF levenshtein
<1> HIDE DEF n, m, M, A, B
<1>7. \A x, y, c, d \in Seq(Letters) \cup Letters :
        x \in Seq(Letters) /\ c \in Letters =>
          /\ Near(Append(x, c), x) /\ Near(x, Append(x, c))
          /\ d \in Letters => Near(Append(x, c), Append(x, d))
  BY NearAppend
<1>8. 0 \in T
  <2> DEFINE U == {j \in 0 .. m : Good(0, j)}
  <2>1. 0 \in U
    <3>1. 0 \in 0 .. m /\ 0 \in 0 .. n
      BY <1>1
    <3>2. \A l \in 0 .. 2 : A(0) \in EditedUpTo(l, B(0))
      BY <1>2, <1>4, <3>1, EditsSteps
    <3> QED BY <3>1, <3>2
  <2>2. ASSUME NEW j \in 0 .. m, j \in U, j < m PROVE j + 1 \in U
    <3>1. j + 1 \in 1 .. m /\ j + 1 \in 0 .. m /\ (j + 1) - 1 = j /\ 0 \in 0 .. n
      BY <1>1, <2>2
    <3>2. M[0][j] = j /\ M[0][j + 1] = j + 1
      BY <1>5, <3>1
    <3>3. ASSUME NEW l \in 0 .. 2, M[0][j + 1] <= l PROVE A(0) \in EditedUpTo(l, B(j + 1))
      <4>1. l >= 1 /\ l - 1 \in 0 .. 2 /\ M[0][j] <= l - 1
        BY <3>2, <3>3
      <4>2. A(0) \in EditedUpTo(l - 1, B(j))
        BY <2>2, <4>1
      <4>3. B(j) \in Seq(Letters) /\ B(j + 1) \in Seq(Letters) /\ A(0) \in Seq(Letters)
            /\ Near(B(j), B(j + 1))
        BY <1>2, <1>3, <1>7, <3>1
      <4> QED BY <4>1, <4>2, <4>3, EditsSteps
    <3> QED BY <3>1, <3>3
  <2> HIDE DEF U
  <2>3. 0 .. m \subseteq U
    BY <1>1, <2>1, <2>2, Upward
  <2>4. 0 \in 0 .. n
    BY <1>1
  <2> QED BY <2>3, <2>4 DEF U
<1>9. ASSUME NEW i \in 0 .. n, i \in T, i < n PROVE i + 1 \in T
  <2>1. i + 1 \in 1 .. n /\ (i + 1) - 1 = i /\ i + 1 \in 0 .. n
    BY <1>1, <1>9
  <2> DEFINE c == a[i + 1]
             U == {j \in 0 .. m : Good(i + 1, j)}
  <2>2. /\ c \in Letters /\ A(i) \in Seq(Letters) /\ A(i + 1) \in Seq(Letters) /\ A(i + 1) = Append(A(i), c)
        /\ Near(A(i + 1), A(i))
    BY <1>2, <1>7, <2>1
  <2>3. IsNextRow(M[i + 1], M[i], b, c, i + 1)
    BY <1>5, <2>1
  <2> HIDE DEF c
  <2>4. ASSUME NEW j \in 0 .. m, NEW l \in 0 .. 2, l >= 1, M[i][j] <= l - 1
        PROVE  A(i + 1) \in EditedUpTo(l, B(j))
    <3>1. l - 1 \in 0 .. 2
      BY <2>4
    <3>2. A(i) \in EditedUpTo(l - 1, B(j))
      BY <1>9, <2>4, <3>1
    <3>3. B(j) \in Seq(Letters)
      BY <1>3
    <3> QED BY <2>2, <2>4, <3>2, <3>3, EditsSteps
  <2>5. 0 \in U
    <3>1. 0 \in 0 .. m
      BY <1>1
    <3>2. M[i + 1][0] = i + 1
      BY <2>3 DEF IsNextRow
    <3>3. M[i][0] = i
      <4>1. i \in 0 .. n
        OBVIOUS
      <4> QED BY <4>1, RowShape DEF M, n
    <3>4. ASSUME NEW l \in 0 .. 2, M[i + 1][0] <= l PROVE A(i + 1) \in EditedUpTo(l, B(0))
      <4>1. l >= 1 /\ M[i][0] <= l - 1
        BY <3>2, <3>3, <3>4
      <4> QED BY <2>4, <3>1, <4>1
    <3> QED BY <3>1, <3>4
  <2>6. ASSUME NEW j \in 0 .. m, j \in U, j < m PROVE j + 1 \in U
    <3>1. j + 1 \in 1 .. m /\ j + 1 \in 0 .. m /\ (j + 1) - 1 = j
      BY <1>1, <2>6
    <3> DEFINE d == b[j + 1]
    <3>2. /\ d \in Letters /\ B(j) \in Seq(Letters) /\ B(j + 1) \in Seq(Letters) /\ B(j + 1) = Append(B(j), d)
          /\ Near(B(j), B(j + 1))
      BY <1>3, <1>7, <3>1
    <3>3. \/ M[i + 1][j + 1] = M[i + 1][j] + 1
          \/ M[i + 1][j + 1] = M[i][j + 1] + 1
          \/ M[i + 1][j + 1] = M[i][j] + Cost(c, d)
      BY <2>3, <3>1 DEF IsNextRow, m
    <3>4. M[i + 1][j] \in Nat /\ M[i][j + 1] \in Nat /\ M[i][j] \in Nat
      BY <1>5, <2>1, <3>1, ZenonT(40)
    <3> HIDE DEF d
    <3>5. ASSUME NEW l \in 0 .. 2, M[i + 1][j + 1] <= l PROVE A(i + 1) \in EditedUpTo(l, B(j + 1))
      <4>1. CASE M[i + 1][j + 1] = M[i + 1][j] + 1
        <5>1. l >= 1 /\ l - 1 \in 0 .. 2 /\ M[i + 1][j] <= l - 1
          BY <3>4, <3>5, <4>1
        <5>2. A(i + 1) \in EditedUpTo(l - 1, B(j))
          BY <2>6, <5>1
        <5> QED BY <2>2, <3>2, <5>1, <5>2, EditsSteps
      <4>2. CASE M[i + 1][j + 1] = M[i][j + 1] + 1
        <5>1. l >= 1 /\ M[i][j + 1] <= l - 1
          BY <3>4, <3>5, <4>2
        <5> QED BY <2>4, <3>1, <5>1
      <4>3. CASE M[i + 1][j + 1] = M[i][j] + Cost(c, d) /\ c = d
        <5>1. M[i][j] <= l
          BY <3>4, <3>5, <4>3 DEF Cost
        <5>2. A(i) \in EditedUpTo(l, B(j))
          BY <1>9, <5>1
        <5>3. Append(A(i), c) \in EditedUpTo(l, Append(B(j), c))
          BY <2>2, <3>2, <5>2, EditsSteps
        <5> QED BY <2>2, <3>2, <4>3, <5>3
      <4>4. CASE M[i + 1][j + 1] = M[i][j] + Cost(c, d) /\ c # d
        <5>1. l >= 1 /\ l - 1 \in 0 .. 2 /\ M[i][j] <= l - 1
          <6> DEFINE x == M[i][j]
                     y == M[i + 1][j + 1]
          <6>1. x \in Nat /\ y = x + 1 /\ y <= l
            BY <3>4, <3>5, <4>4 DEF Cost
          <6> HIDE DEF x, y
          <6>2. l >= 1 /\ l - 1 \in 0 .. 2 /\ x <= l - 1
            BY <6>1
          <6> QED BY <6>2 DEF x
        <5>2. A(i) \in EditedUpTo(l - 1, B(j))
          BY <1>9, <5>1
        <5>3. A(i + 1) \in EditedUpTo(l - 1, Append(B(j), c))
          <6>1. Append(A(i), c) \in EditedUpTo(l - 1, Append(B(j), c))
            BY <2>2, <3>2, <5>1, <5>2, EditsSteps
          <6> QED BY <2>2, <6>1
        <5>4. Append(B(j), c) \in Seq(Letters) /\ Near(Append(B(j), c), B(j + 1))
          <6>1. Append(B(j), c) \in Seq(Letters)
            BY <2>2, <3>2, AppendProperties
          <6>2. Near(Append(B(j), c), Append(B(j), d))
            BY <2>2, <3>2, NearAppend
          <6> QED BY <3>2, <6>1, <6>2
        <5> QED BY <2>2, <3>2, <5>1, <5>3, <5>4, EditsSteps
      <4> QED BY <3>3, <4>1, <4>2, <4>3, <4>4
    <3> QED BY <3>1, <3>5
  <2> HIDE DEF U
  <2>7. 0 .. m \subseteq U
    BY <1>1, <2>5, <2>6, Upward
  <2> QED BY <2>1, <2>7 DEF U
<1>10. n \in T
  <2> HIDE DEF T
  <2>1. 0 .. n \subseteq T
    BY <1>1, <1>8, <1>9, Upward
  <2> QED BY <1>1, <2>1
<1>11. Good(n, m)
  BY <1>1, <1>10
<1> QED BY <1>2, <1>3, <1>6, <1>11

(* The distance is at most k, for k up to 2, just when k edits are enough. *)
THEOREM DistanceCountsEdits ==
  ASSUME NEW a \in Seq(Letters), NEW b \in Seq(Letters), NEW k \in 0 .. 2
  PROVE  levenshtein(a, b) <= k <=> a \in EditedUpTo(k, b)
BY EditsAreInDistance, DistanceIsEdits

----------------------------------------------------------------------------
(***************************************************************************)
(* The words of a text: cut by a recursion over its characters, and as the *)
(* longest stretches of its letters.                                       *)
(***************************************************************************)

(* What matches a bad word is what it may be misspelt as. *)
LEMMA MatchIsMisspelt ==
  ASSUME NEW token \in Seq(Letters), NEW bw \in Seq(Letters)
  PROVE  \/ token = bw
         \/ /\ Len(token) - Len(bw) <= maxEditDistance(Len(bw))
            /\ Len(bw) - Len(token) <= maxEditDistance(Len(bw))
            /\ levenshtein(token, bw) <= maxEditDistance(Len(bw))
         <=> token \in Misspelt(bw)
<1> DEFINE k == maxEditDistance(Len(bw))
<1>1. Len(bw) \in Nat /\ ShortWord \in Nat /\ LongWord \in Nat /\ ShortWord <= LongWord
  BY LenProperties, ScannerAssumption
<1>2. k \in 0 .. 2 /\ Misspelt(bw) = EditedUpTo(k, bw)
  <2>1. CASE Len(bw) < ShortWord
    <3>1. k = 0
      BY <1>1, <2>1 DEF maxEditDistance
    <3>2. Misspelt(bw) = {bw}
      BY <1>1, <2>1 DEF Misspelt
    <3> QED BY <3>1, <3>2 DEF EditedUpTo
  <2>2. CASE Len(bw) >= ShortWord /\ Len(bw) < LongWord
    <3>1. k = 1
      BY <1>1, <2>2 DEF maxEditDistance
    <3>2. Misspelt(bw) = Edited1({bw})
      BY <1>1, <2>2 DEF Misspelt
    <3> QED BY <3>1, <3>2 DEF EditedUpTo
  <2>3. CASE Len(bw) >= ShortWord /\ Len(bw) >= LongWord
    <3>1. k = 2
      BY <1>1, <2>3 DEF maxEditDistance
    <3>2. Misspelt(bw) = Edited1(Edited1({bw}))
      BY <1>1, <2>3 DEF Misspelt
    <3> QED BY <3>1, <3>2 DEF EditedUpTo
  <2> QED BY <1>1, <2>1, <2>2, <2>3
<1> HIDE DEF k
<1>3. ASSUME token \in EditedUpTo(k, bw)
      PROVE  Len(token) - Len(bw) <= k /\ Len(bw) - Len(token) <= k /\ levenshtein(token, bw) <= k
  BY <1>2, <1>3, EditsAreInDistance
<1>4. levenshtein(token, bw) <= k => token \in EditedUpTo(k, bw)
  BY <1>2, DistanceIsEdits
<1>5. token = bw => token \in EditedUpTo(k, bw)
  BY <1>2, EditsSteps
<1> QED BY <1>2, <1>3, <1>4, <1>5 DEF k

(* The letters of a text, one by one. *)
LEMMA LetteredStep ==
  ASSUME NEW S, NEW s \in Seq(S)
  PROVE  /\ Lettered(s) \in [0 .. Len(s) -> Seq(Letters)]
         /\ Lettered(s)[0] = <<>>
         /\ \A i \in 1 .. Len(s) :
              Lettered(s)[i] = IF s[i] \in Letters THEN Append(Lettered(s)[i - 1], s[i]) ELSE Lettered(s)[i - 1]
<1> DEFINE N == Len(s)
           T == Seq(Letters)
           Longer(i, u) == IF s[i] \in Letters THEN Append(u, s[i]) ELSE u
           G == [i \in 1 .. N |-> [u \in T |-> Longer(i, u)]]
           Eq(f) == f = [i \in 0 .. N |->
                           CASE i = 0 -> <<>>
                             [] i > 0 /\ s[i] \in Letters -> Append(f[i - 1], s[i])
                             [] OTHER -> f[i - 1]]
<1>1. N \in Nat /\ <<>> \in T
  BY LenProperties, EmptySeq
<1>2. \A u \in T, i \in 1 .. N : Longer(i, u) \in T
  BY AppendProperties
<1>3. G \in [1 .. N -> [T -> T]]
  <2> HIDE DEF Longer, T
  <2> QED BY <1>2
<1>4. ASSUME NEW f
      PROVE  Eq(f) <=> f = [i \in 0 .. N |-> IF i = 0 THEN <<>> ELSE Longer(i, f[i - 1])]
  <2>1. \A i \in 0 .. N : i = 0 \/ i > 0
    BY <1>1
  <2>2. \A i \in 0 .. N : (CASE i = 0 -> <<>>
                             [] i > 0 /\ s[i] \in Letters -> Append(f[i - 1], s[i])
                             [] OTHER -> f[i - 1])
                          = IF i = 0 THEN <<>> ELSE Longer(i, f[i - 1])
    BY <2>1
  <2> QED BY <2>2
<1>5. \E f : Eq(f)
  <2>1. PICK f : Recursive(f, N, T, <<>>, G)
    <3> HIDE DEF G, T, N
    <3> QED BY <1>1, <1>3, Recursion
  <2>2. f \in [0 .. N -> T] /\ f[0] = <<>> /\ \A i \in 1 .. N : f[i] = G[i][f[i - 1]]
    <3> HIDE DEF G, T, N
    <3> QED BY <2>1 DEF Recursive
  <2> HIDE DEF Longer, T
  <2>3. ASSUME NEW i \in 1 .. N PROVE f[i] = Longer(i, f[i - 1])
    <3>1. i - 1 \in 0 .. N
      BY <1>1
    <3>2. f[i - 1] \in T
      BY <2>2, <3>1
    <3> QED BY <2>2, <3>2
  <2>4. \A i \in 0 .. N : i # 0 => i \in 1 .. N
    BY <1>1
  <2>5. f = [i \in 0 .. N |-> IF i = 0 THEN <<>> ELSE Longer(i, f[i - 1])]
    <3> HIDE DEF N, G
    <3> QED BY <2>2, <2>3, <2>4
  <2> HIDE DEF Eq
  <2> QED BY <1>4, <2>5
<1> DEFINE f == Lettered(s)
<1>6. Eq(f)
  <2>1. f = CHOOSE g : Eq(g)
    BY DEF Lettered
  <2> HIDE DEF f, Eq
  <2> QED BY <1>5, <2>1
<1> HIDE DEF f, Longer, T
<1>7. f = [i \in 0 .. N |-> IF i = 0 THEN <<>> ELSE Longer(i, f[i - 1])]
  <2> HIDE DEF Eq
  <2> QED BY <1>4, <1>6
<1> HIDE DEF Eq
<1>8. DOMAIN f = 0 .. N /\ f[0] = <<>> /\ \A i \in 1 .. N : f[i] = Longer(i, f[i - 1])
  <2>1. 0 \in 0 .. N /\ \A i \in 1 .. N : i \in 0 .. N /\ i # 0
    BY <1>1
  <2> HIDE DEF N
  <2> QED BY <1>7, <2>1
<1> DEFINE U == {i \in 0 .. N : f[i] \in T}
<1>9. 0 .. N \subseteq U
  <2>1. 0 \in U
    <3>1. 0 \in 0 .. N /\ f[0] \in T
      BY <1>1, <1>8
    <3> QED BY <3>1
  <2>2. ASSUME NEW i \in 0 .. N, i \in U, i < N PROVE i + 1 \in U
    <3>1. i + 1 \in 1 .. N /\ (i + 1) - 1 = i /\ i + 1 \in 0 .. N
      BY <1>1, <2>2
    <3>2. f[i + 1] = Longer(i + 1, f[i]) /\ f[i] \in T
      BY <1>8, <2>2, <3>1
    <3> QED BY <1>2, <3>1, <3>2
  <2> HIDE DEF U, N
  <2> QED BY <1>1, <2>1, <2>2, Upward
<1>10. f \in [0 .. N -> T]
  <2>1. \A i \in 0 .. N : f[i] \in T
    BY <1>9
  <2>2. f = [i \in 0 .. N |-> f[i]]
    <3> HIDE DEF N
    <3> QED BY <1>7, <1>8
  <2> HIDE DEF N
  <2> QED BY <2>1, <2>2
<1> QED BY <1>8, <1>10 DEF f, T, N, Longer

(* A bad word is compared as letters alone. *)
LEMMA OnlyLettersType ==
  ASSUME NEW S, NEW s \in Seq(S)
  PROVE  OnlyLetters(s) \in Seq(Letters)
<1> DEFINE T == {Lower(c) : c \in S}
<1>1. \A c \in S : Lower(c) \in T
  OBVIOUS
<1> HIDE DEF T
<1>2. ToLower(s) \in Seq(T) /\ Len(ToLower(s)) = Len(s)
  BY <1>1, ToLowerProperties
<1>3. Len(s) \in Nat
  BY LenProperties
<1>4. Lettered(ToLower(s)) \in [0 .. Len(s) -> Seq(Letters)]
  BY <1>2, LetteredStep
<1> QED BY <1>3, <1>4 DEF OnlyLetters

Cuts == [raw : Seq(Seq(Letters)), cur : Seq(Letters)]

(* What a character does to the words cut so far. *)
LEMMA CutType ==
  ASSUME NEW w \in Cuts, NEW c
  PROVE  /\ Cut(w, c) \in Cuts
         /\ c \in Letters => Cut(w, c).raw = w.raw /\ Cut(w, c).cur = Append(w.cur, c)
         /\ c \notin Letters /\ w.cur # <<>> => Cut(w, c).raw = Append(w.raw, w.cur) /\ Cut(w, c).cur = <<>>
         /\ c \notin Letters /\ w.cur = <<>> => Cut(w, c) = w
<1>1. w.raw \in Seq(Seq(Letters)) /\ w.cur \in Seq(Letters) /\ <<>> \in Seq(Letters)
  BY EmptySeq DEF Cuts
<1>2. CASE c \in Letters
  <2>1. Cut(w, c) = [w EXCEPT !.cur = Append(w.cur, c)]
    BY <1>2 DEF Cut
  <2>2. Append(w.cur, c) \in Seq(Letters)
    BY <1>1, <1>2, AppendProperties
  <2> QED BY <1>2, <2>1, <2>2 DEF Cuts
<1>3. CASE c \notin Letters /\ w.cur # <<>>
  <2>1. Cut(w, c) = [raw |-> Append(w.raw, w.cur), cur |-> <<>>]
    BY <1>3 DEF Cut
  <2>2. Append(w.raw, w.cur) \in Seq(Seq(Letters))
    <3> DEFINE T == Seq(Letters)
    <3>1. w.raw \in Seq(T) /\ w.cur \in T
      BY <1>1
    <3> HIDE DEF T
    <3>2. Append(w.raw, w.cur) \in Seq(T)
      BY <3>1, AppendProperties
    <3> QED BY <3>2 DEF T
  <2> QED BY <1>1, <1>3, <2>1, <2>2 DEF Cuts
<1>4. CASE c \notin Letters /\ w.cur = <<>>
  BY <1>4 DEF Cut
<1> QED BY <1>2, <1>3, <1>4

(* A text is cut character by character. *)
LEMMA CuttingStep ==
  ASSUME NEW S, NEW s \in Seq(S)
  PROVE  /\ Cutting(s) \in [0 .. Len(s) -> Cuts]
         /\ Cutting(s)[0] = [raw |-> <<>>, cur |-> <<>>]
         /\ \A i \in 1 .. Len(s) : Cutting(s)[i] = Cut(Cutting(s)[i - 1], s[i])
<1> DEFINE N == Len(s)
           T == Cuts
           first == [raw |-> <<>>, cur |-> <<>>]
           G == [i \in 1 .. N |-> [w \in T |-> Cut(w, s[i])]]
           Eq(f) == f = [i \in 0 .. N |-> IF i = 0 THEN first ELSE Cut(f[i - 1], s[i])]
<1>1. N \in Nat
  BY LenProperties
<1>2. first \in T
  BY EmptySeq DEF Cuts
<1> HIDE DEF T, N, first
<1>3. \A w \in T, i \in 1 .. N : Cut(w, s[i]) \in T
  BY CutType DEF T
<1>4. G \in [1 .. N -> [T -> T]]
  BY <1>3
<1>5. \E f : Eq(f)
  <2>1. PICK f : Recursive(f, N, T, first, G)
    <3> HIDE DEF G
    <3> QED BY <1>1, <1>2, <1>4, Recursion
  <2>2. f \in [0 .. N -> T] /\ f[0] = first /\ \A i \in 1 .. N : f[i] = G[i][f[i - 1]]
    <3> HIDE DEF G
    <3> QED BY <2>1 DEF Recursive
  <2>3. ASSUME NEW i \in 1 .. N PROVE f[i] = Cut(f[i - 1], s[i])
    <3>1. i - 1 \in 0 .. N
      BY <1>1
    <3>2. f[i - 1] \in T
      BY <2>2, <3>1
    <3> QED BY <2>2, <3>2
  <2>4. \A i \in 0 .. N : i # 0 => i \in 1 .. N
    BY <1>1
  <2>5. Eq(f)
    BY <2>2, <2>3, <2>4
  <2> QED BY <2>5
<1> DEFINE f == Cutting(s)
<1>6. Eq(f)
  <2>1. f = CHOOSE g : Eq(g)
    BY DEF Cutting, N, first
  <2> HIDE DEF f, Eq
  <2> QED BY <1>5, <2>1
<1> HIDE DEF f
<1>7. DOMAIN f = 0 .. N /\ f[0] = first /\ \A i \in 1 .. N : f[i] = Cut(f[i - 1], s[i])
  <2>1. 0 \in 0 .. N /\ \A i \in 1 .. N : i \in 0 .. N /\ i # 0
    BY <1>1
  <2> QED BY <1>6, <2>1
<1> DEFINE U == {i \in 0 .. N : f[i] \in T}
<1>8. 0 .. N \subseteq U
  <2>1. 0 \in U
    BY <1>1, <1>2, <1>7
  <2>2. ASSUME NEW i \in 0 .. N, i \in U, i < N PROVE i + 1 \in U
    <3>1. i + 1 \in 1 .. N /\ (i + 1) - 1 = i /\ i + 1 \in 0 .. N
      BY <1>1, <2>2
    <3>2. f[i + 1] = Cut(f[i], s[i + 1]) /\ f[i] \in T
      BY <1>7, <2>2, <3>1
    <3> QED BY <1>3, <3>1, <3>2
  <2> HIDE DEF U
  <2> QED BY <1>1, <2>1, <2>2, Upward
<1>9. f \in [0 .. N -> T]
  <2>1. \A i \in 0 .. N : f[i] \in T
    BY <1>8
  <2>2. f = [i \in 0 .. N |-> f[i]]
    BY <1>6
  <2> QED BY <2>1, <2>2
<1> QED BY <1>7, <1>9 DEF N, T, first, f

(* Where a text has letters. *)
Places(low) == {p \in DOMAIN low : low[p] \in Letters}

(* Every letter up to e is in one of the words, which are whole and in order. *)
Closed(low, raw, from, to, e) ==
  /\ from \in [1 .. Len(raw) -> 1 .. Len(low)] /\ to \in [1 .. Len(raw) -> 1 .. Len(low)]
  /\ \A k \in 1 .. Len(raw) :
       /\ from[k] <= to[k] /\ to[k] <= e
       /\ from[k] .. to[k] \subseteq Places(low)
       /\ from[k] - 1 \notin Places(low) /\ to[k] + 1 \notin Places(low)
       /\ raw[k] = SubSeq(low, from[k], to[k])
  /\ \A k, l \in 1 .. Len(raw) : k < l => to[k] < from[l]
  /\ \A p \in Places(low) : p <= e => \E k \in 1 .. Len(raw) : from[k] <= p /\ p <= to[k]

(* Before the first character there is no word. *)
LEMMA ClosedAtFirst ==
  ASSUME NEW C, NEW low \in Seq(C)
  PROVE  \E from, to : Closed(low, <<>>, from, to, 0)
<1> DEFINE none == [k \in 1 .. 0 |-> 0]
<1>1. Len(<<>>) = 0 /\ 1 .. 0 = {} /\ DOMAIN low = 1 .. Len(low) /\ Len(low) \in Nat
  BY EmptySeq, LenProperties
<1>2. none \in [1 .. 0 -> 1 .. Len(low)]
  BY <1>1
<1>3. \A p \in Places(low) : ~ (p <= 0)
  BY <1>1 DEF Places
<1> HIDE DEF none
<1> QED BY <1>1, <1>2, <1>3 DEF Closed

(* A character that is no letter changes nothing. *)
LEMMA Widening ==
  ASSUME NEW C, NEW low \in Seq(C), NEW raw \in Seq(Seq(Letters)), NEW from, NEW to, NEW e \in Nat,
         Closed(low, raw, from, to, e), e + 1 \notin Places(low)
  PROVE  Closed(low, raw, from, to, e + 1)
<1>1. DOMAIN low = 1 .. Len(low) /\ Len(low) \in Nat /\ Len(raw) \in Nat
  BY LenProperties
<1>2. \A p \in Places(low) : p \in Nat /\ p # e + 1
  BY <1>1 DEF Places
<1>3. \A p \in Places(low) : p <= e + 1 => p <= e
  BY <1>2
<1>4. \A k \in 1 .. Len(raw) : to[k] \in Nat
  BY <1>1, SMTT(30) DEF Closed
<1>5. \A k \in 1 .. Len(raw) : to[k] <= e => to[k] <= e + 1
  BY <1>4
<1> QED BY <1>3, <1>5 DEF Closed

(* The letters since e become a word when something else follows them. *)
LEMMA Closing ==
  ASSUME NEW C, NEW low \in Seq(C), NEW raw \in Seq(Seq(Letters)), NEW from, NEW to, NEW e \in Nat,
         NEW i \in 1 .. Len(low), e < i, (e + 1) .. i \subseteq Places(low),
         e \notin Places(low), i + 1 \notin Places(low),
         Closed(low, raw, from, to, e)
  PROVE  \E from2, to2 : Closed(low, Append(raw, SubSeq(low, e + 1, i)), from2, to2, i)
<1> DEFINE m == Len(raw)
           new == SubSeq(low, e + 1, i)
           raw2 == Append(raw, new)
           from2 == [k \in 1 .. m + 1 |-> IF k = m + 1 THEN e + 1 ELSE from[k]]
           to2 == [k \in 1 .. m + 1 |-> IF k = m + 1 THEN i ELSE to[k]]
           P == Places(low)
<1>1. DOMAIN low = 1 .. Len(low) /\ Len(low) \in Nat /\ m \in Nat
  BY LenProperties
<1>2. Len(raw2) = m + 1 /\ raw2[m + 1] = new /\ \A k \in 1 .. m : raw2[k] = raw[k]
  BY LenProperties
<1>3. /\ from \in [1 .. m -> 1 .. Len(low)] /\ to \in [1 .. m -> 1 .. Len(low)]
      /\ \A k \in 1 .. m :
           /\ from[k] <= to[k] /\ to[k] <= e
           /\ from[k] .. to[k] \subseteq P
           /\ from[k] - 1 \notin P /\ to[k] + 1 \notin P
           /\ raw[k] = SubSeq(low, from[k], to[k])
      /\ \A k, l \in 1 .. m : k < l => to[k] < from[l]
      /\ \A p \in P : p <= e => \E k \in 1 .. m : from[k] <= p /\ p <= to[k]
  BY DEF Closed
<1>4. e + 1 \in 1 .. Len(low) /\ (e + 1) - 1 = e /\ e + 1 <= i
  BY <1>1
<1>5. (e + 1) .. i \subseteq P /\ e \notin P /\ i + 1 \notin P
  OBVIOUS
<1>8. \A p \in P : p \in Nat
  BY <1>1 DEF Places
<1> HIDE DEF P, new, raw2, m
<1>6. \A k \in 1 .. m + 1 : k # m + 1 => k \in 1 .. m
  BY <1>1
<1>7. m + 1 \in 1 .. m + 1 /\ \A k \in 1 .. m : k \in 1 .. m + 1 /\ k # m + 1
  BY <1>1
<1>9. from2[m + 1] = e + 1 /\ to2[m + 1] = i /\ \A k \in 1 .. m : from2[k] = from[k] /\ to2[k] = to[k]
  BY <1>7
<1>10. from2 \in [1 .. m + 1 -> 1 .. Len(low)] /\ to2 \in [1 .. m + 1 -> 1 .. Len(low)]
  BY <1>3, <1>4, <1>6
<1> HIDE DEF from2, to2
<1>11. ASSUME NEW k \in 1 .. m + 1
       PROVE  /\ from2[k] <= to2[k] /\ to2[k] <= i
              /\ from2[k] .. to2[k] \subseteq P
              /\ from2[k] - 1 \notin P /\ to2[k] + 1 \notin P
              /\ raw2[k] = SubSeq(low, from2[k], to2[k])
  <2>1. CASE k = m + 1
    BY <1>2, <1>4, <1>5, <1>9, <2>1, SMTT(30) DEF new
  <2>2. CASE k # m + 1
    <3>1. k \in 1 .. m
      BY <1>6, <2>2
    <3>2. from2[k] = from[k] /\ to2[k] = to[k] /\ raw2[k] = raw[k] /\ to[k] \in Nat
      BY <1>1, <1>2, <1>3, <1>9, <3>1
    <3>3. to[k] <= i
      BY <1>3, <3>1, <3>2
    <3> QED BY <1>3, <3>1, <3>2, <3>3
  <2> QED BY <2>1, <2>2
<1>12. ASSUME NEW k \in 1 .. m + 1, NEW l \in 1 .. m + 1, k < l PROVE to2[k] < from2[l]
  <2>1. k \in 1 .. m
    BY <1>1, <1>12
  <2>2. to2[k] = to[k] /\ to[k] \in Nat /\ to[k] <= e
    BY <1>1, <1>3, <1>9, <2>1
  <2>3. CASE l = m + 1
    BY <1>9, <2>2, <2>3
  <2>4. CASE l # m + 1
    BY <1>3, <1>6, <1>9, <1>12, <2>1, <2>2, <2>4
  <2> QED BY <2>3, <2>4
<1>13. ASSUME NEW p \in P, p <= i
       PROVE  \E k \in 1 .. m + 1 : from2[k] <= p /\ p <= to2[k]
  <2>1. CASE p <= e
    <3>1. PICK k \in 1 .. m : from[k] <= p /\ p <= to[k]
      BY <1>3, <2>1
    <3>2. k \in 1 .. m + 1 /\ from2[k] <= p /\ p <= to2[k]
      BY <1>7, <1>9, <3>1
    <3> QED BY <3>2
  <2>2. CASE ~ (p <= e)
    <3>1. from2[m + 1] <= p /\ p <= to2[m + 1]
      BY <1>8, <1>9, <1>13, <2>2
    <3> QED BY <1>7, <3>1
  <2> QED BY <2>1, <2>2
<1>14. Closed(low, raw2, from2, to2, i)
  BY <1>2, <1>10, <1>11, <1>12, <1>13 DEF Closed, P
<1> QED BY <1>14 DEF raw2, new

(* The words cut off so far, and the one that is being read. *)
SoFar(low, i, e) ==
  /\ e <= i /\ (e + 1) .. i \subseteq Places(low) /\ e \notin Places(low)
  /\ Cutting(low)[i].cur = SubSeq(low, e + 1, i)
  /\ \E from, to : Closed(low, Cutting(low)[i].raw, from, to, e)

(* One character further. *)
LEMMA SoFarStep ==
  ASSUME NEW C, NEW low \in Seq(C), NEW i \in 0 .. Len(low), i < Len(low), NEW e \in 0 .. i,
         SoFar(low, i, e)
  PROVE  \E d \in 0 .. (i + 1) : SoFar(low, i + 1, d)
<1> DEFINE w == Cutting(low)[i]
           w2 == Cutting(low)[i + 1]
           c == low[i + 1]
           P == Places(low)
<1>1. DOMAIN low = 1 .. Len(low) /\ Len(low) \in Nat /\ i \in Nat /\ e \in Nat
  BY LenProperties
<1>2. i + 1 \in 1 .. Len(low) /\ i \in 0 .. Len(low) /\ (i + 1) - 1 = i
  BY <1>1
<1>3. w \in Cuts /\ w2 = Cut(w, c)
  BY <1>2, CuttingStep
<1>4. i + 1 \in P <=> c \in Letters
  BY <1>1, <1>2 DEF Places
<1>5. /\ (e + 1) .. i \subseteq P /\ e \notin P
      /\ w.cur = SubSeq(low, e + 1, i)
  BY DEF SoFar
<1>6. PICK from, to : Closed(low, w.raw, from, to, e)
  BY DEF SoFar
<1>7. w.raw \in Seq(Seq(Letters)) /\ w.cur \in Seq(Letters)
  BY <1>3 DEF Cuts
<1>8. Len(w.cur) = i - e
  BY <1>1, <1>2, <1>5, Part
<1> HIDE DEF w, w2, c
<1>9. CASE c \in Letters
  <2>1. w2.raw = w.raw /\ w2.cur = Append(w.cur, c)
    BY <1>3, <1>9, CutType
  <2>2. (e + 1) .. (i + 1) \subseteq P
    <3>1. \A p \in (e + 1) .. (i + 1) : p \in (e + 1) .. i \/ p = i + 1
      BY <1>1
    <3> QED BY <1>4, <1>5, <1>9, <3>1
  <2>3. Append(SubSeq(low, e + 1, i), low[i + 1]) = SubSeq(low, e + 1, i + 1)
    <3> DEFINE u == SubSeq(low, e + 1, i)
               v == SubSeq(low, e + 1, i + 1)
    <3>1. /\ e + 1 \in 1 .. Len(low) + 1 /\ i \in 0 .. Len(low) /\ i + 1 \in 0 .. Len(low)
          /\ e + 1 <= i + 1 /\ e + 1 <= (i + 1) + 1
      BY <1>1, <1>2
    <3>2. u \in Seq(C) /\ Len(u) = i - e /\ \A k \in 1 .. Len(u) : u[k] = low[e + k]
      <4>1. u \in Seq(C) /\ Len(u) = i - (e + 1) + 1 /\ \A k \in 1 .. Len(u) : u[k] = low[(e + 1) + k - 1]
        BY <3>1, Part
      <4>2. \A k \in 1 .. Len(u) : (e + 1) + k - 1 = e + k
        BY <1>1
      <4> QED BY <1>1, <4>1, <4>2, SMTT(30)
    <3>3. v \in Seq(C) /\ Len(v) = i - e + 1 /\ \A k \in 1 .. Len(v) : v[k] = low[e + k]
      <4>1. v \in Seq(C) /\ Len(v) = (i + 1) - (e + 1) + 1 /\ \A k \in 1 .. Len(v) : v[k] = low[(e + 1) + k - 1]
        BY <3>1, Part
      <4>2. \A k \in 1 .. Len(v) : (e + 1) + k - 1 = e + k
        BY <1>1
      <4> QED BY <1>1, <4>1, <4>2
    <3>4. low[i + 1] \in C
      BY <1>2, ElementOfSeq
    <3> HIDE DEF u, v
    <3> DEFINE t == Append(u, low[i + 1])
    <3>5. t \in Seq(C) /\ Len(t) = Len(u) + 1 /\ t[Len(u) + 1] = low[i + 1] /\ \A k \in 1 .. Len(u) : t[k] = u[k]
      <4>1. u \in Seq(C) /\ Len(u) \in Nat
        BY <3>2, LenProperties
      <4> DEFINE x == low[i + 1]
      <4>2. x \in C
        BY <3>4
      <4> HIDE DEF x
      <4>3. /\ Append(u, x) \in Seq(C) /\ Len(Append(u, x)) = Len(u) + 1 /\ Append(u, x)[Len(u) + 1] = x
            /\ \A k \in 1 .. Len(u) : Append(u, x)[k] = u[k]
        BY <4>1, <4>2, AppendProperties
      <4> QED BY <4>3 DEF x
    <3> HIDE DEF t
    <3>6. ASSUME NEW k \in 1 .. Len(t) PROVE t[k] = v[k]
      <4>1. CASE k = Len(u) + 1
        <5>1. k = i - e + 1 /\ k \in 1 .. Len(v) /\ e + k = i + 1
          BY <1>1, <3>2, <3>3, <4>1
        <5> QED BY <3>3, <3>5, <4>1, <5>1
      <4>2. CASE k # Len(u) + 1
        <5>1. k \in 1 .. Len(u) /\ k \in 1 .. Len(v)
          BY <1>1, <3>2, <3>3, <3>5, <4>2
        <5> QED BY <3>2, <3>3, <3>5, <5>1
      <4> QED BY <4>1, <4>2
    <3>7. Len(t) = Len(v)
      BY <3>2, <3>3, <3>5
    <3>8. t = v
      BY <3>3, <3>5, <3>6, <3>7, SeqEqual
    <3> QED BY <3>8 DEF t, u, v
  <2>4. w2.cur = SubSeq(low, e + 1, i + 1)
    BY <1>5, <2>1, <2>3 DEF c
  <2>5. SoFar(low, i + 1, e)
    <3>1. e <= i + 1 /\ \E from2, to2 : Closed(low, w2.raw, from2, to2, e)
      BY <1>1, <1>6, <2>1
    <3> QED BY <1>5, <2>2, <2>4, <3>1 DEF SoFar, w2
  <2>6. e \in 0 .. (i + 1)
    BY <1>1
  <2> QED BY <2>5, <2>6
<1>10. CASE c \notin Letters
  <2>1. i + 1 \notin P
    BY <1>4, <1>10
  <2>2. w2.cur = <<>> /\ \E from2, to2 : Closed(low, w2.raw, from2, to2, i)
    <3>1. CASE w.cur = <<>>
      <4>1. i = e
        BY <1>1, <1>8, <3>1, EmptySeq
      <4>2. w2 = w
        BY <1>3, <1>10, <3>1, CutType
      <4> QED BY <1>6, <3>1, <4>1, <4>2
    <3>2. CASE w.cur # <<>>
      <4>1. e < i
        <5>1. Len(w.cur) # 0
          BY <1>7, <3>2, EmptySeq
        <5> QED BY <1>1, <1>8, <5>1
      <4>2. w2.raw = Append(w.raw, w.cur) /\ w2.cur = <<>>
        BY <1>3, <1>10, <3>2, CutType
      <4>3. i \in 1 .. Len(low)
        BY <1>1, <1>2, <4>1
      <4>4. \E from2, to2 : Closed(low, Append(w.raw, SubSeq(low, e + 1, i)), from2, to2, i)
        BY <1>1, <1>5, <1>6, <1>7, <2>1, <4>1, <4>3, Closing
      <4> QED BY <1>5, <4>2, <4>4
    <3> QED BY <3>1, <3>2
  <2>3. PICK from2, to2 : Closed(low, w2.raw, from2, to2, i)
    BY <2>2
  <2>4. w2.raw \in Seq(Seq(Letters))
    <3>1. w2 \in Cuts
      BY <1>3, CutType
    <3> QED BY <3>1 DEF Cuts
  <2>5. Closed(low, w2.raw, from2, to2, i + 1)
    BY <1>1, <2>1, <2>3, <2>4, Widening
  <2>6. SubSeq(low, (i + 1) + 1, i + 1) = <<>>
    <3> DEFINE u == SubSeq(low, (i + 1) + 1, i + 1)
    <3>1. (i + 1) + 1 \in 1 .. Len(low) + 1 /\ i + 1 \in 0 .. Len(low) /\ (i + 1) + 1 <= (i + 1) + 1
      BY <1>1, <1>2
    <3>2. u \in Seq(C) /\ Len(u) = (i + 1) - ((i + 1) + 1) + 1
      BY <3>1, Part
    <3>3. Len(u) = 0
      BY <1>1, <3>2
    <3> QED BY <3>2, <3>3, EmptySeq
  <2>7. ((i + 1) + 1) .. (i + 1) = {}
    BY <1>1
  <2>8. SoFar(low, i + 1, i + 1)
    <3>1. i + 1 <= i + 1 /\ i + 1 \in 0 .. (i + 1)
      BY <1>1
    <3> QED BY <2>1, <2>2, <2>5, <2>6, <2>7, <3>1 DEF SoFar, w2
  <2>9. i + 1 \in 0 .. (i + 1)
    BY <1>1
  <2> QED BY <2>8, <2>9
<1> QED BY <1>9, <1>10

(* The words of a text are its stretches of letters, in order. *)
LEMMA RawTokensAreClosed ==
  ASSUME NEW S, NEW text \in Seq(S)
  PROVE  /\ RawTokens(text) \in Seq(Seq(Letters))
         /\ \E from, to : Closed(ToLower(text), RawTokens(text), from, to, Len(text))
<1> DEFINE C == {Lower(c) : c \in S}
           low == ToLower(text)
           n == Len(text)
           end == Cutting(low)[n]
           P == Places(low)
<1>1. \A c \in S : Lower(c) \in C
  OBVIOUS
<1> HIDE DEF C
<1>2. low \in Seq(C) /\ Len(low) = n
  BY <1>1, ToLowerProperties
<1> HIDE DEF low
<1>3. n \in Nat /\ DOMAIN low = 1 .. n
  BY <1>2, LenProperties
<1> DEFINE U == {i \in 0 .. n : \E e \in 0 .. i : SoFar(low, i, e)}
<1>4. 0 .. n \subseteq U
  <2>1. 0 \in U
    <3>1. Cutting(low)[0] = [raw |-> <<>>, cur |-> <<>>]
      BY <1>2, CuttingStep
    <3>2. 0 + 1 \in 1 .. Len(low) + 1 /\ 0 \in 0 .. Len(low) /\ 0 + 1 <= 0 + 1
      BY <1>2, <1>3
    <3>3. SubSeq(low, 0 + 1, 0) \in Seq(C) /\ Len(SubSeq(low, 0 + 1, 0)) = 0 - (0 + 1) + 1
      BY <1>2, <3>2, Part
    <3>4. SubSeq(low, 0 + 1, 0) = <<>>
      <4>1. Len(SubSeq(low, 0 + 1, 0)) = 0
        BY <3>3
      <4> QED BY <3>3, <4>1, EmptySeq
    <3>5. 0 \notin P /\ (0 + 1) .. 0 = {} /\ 0 <= 0
      BY <1>3 DEF Places
    <3>6. \E from, to : Closed(low, <<>>, from, to, 0)
      BY <1>2, ClosedAtFirst
    <3>7. SoFar(low, 0, 0)
      BY <3>1, <3>4, <3>5, <3>6 DEF SoFar
    <3>8. 0 \in 0 .. n /\ 0 \in 0 .. 0
      BY <1>3
    <3> QED BY <3>7, <3>8
  <2>2. ASSUME NEW i \in 0 .. n, i \in U, i < n PROVE i + 1 \in U
    <3>1. PICK e \in 0 .. i : SoFar(low, i, e)
      BY <2>2
    <3>2. \E d \in 0 .. (i + 1) : SoFar(low, i + 1, d)
      BY <1>2, <2>2, <3>1, SoFarStep
    <3>3. i + 1 \in 0 .. n
      BY <1>3, <2>2
    <3> QED BY <3>2, <3>3
  <2> HIDE DEF U, n
  <2> QED BY <1>3, <2>1, <2>2, Upward
<1>5. PICK e \in 0 .. n : SoFar(low, n, e)
  BY <1>3, <1>4
<1>6. /\ e <= n /\ (e + 1) .. n \subseteq P /\ e \notin P /\ end.cur = SubSeq(low, e + 1, n)
  BY <1>5 DEF SoFar
<1>7. PICK from, to : Closed(low, end.raw, from, to, e)
  BY <1>5 DEF SoFar
<1>8. end \in Cuts
  <2>1. n \in 0 .. Len(low)
    BY <1>2, <1>3
  <2> QED BY <1>2, <2>1, CuttingStep
<1>9. end.raw \in Seq(Seq(Letters)) /\ end.cur \in Seq(Letters)
  BY <1>8 DEF Cuts
<1>10. Len(end.cur) = n - e
  <2>1. e + 1 \in 1 .. Len(low) + 1 /\ n \in 0 .. Len(low) /\ e + 1 <= n + 1 /\ n - (e + 1) + 1 = n - e
    BY <1>2, <1>3
  <2>2. Len(SubSeq(low, e + 1, n)) = n - (e + 1) + 1
    BY <1>2, <2>1, Part
  <2> QED BY <1>6, <2>1, <2>2
<1>11. RawTokens(text) = IF end.cur = <<>> THEN end.raw ELSE Append(end.raw, end.cur)
  BY DEF RawTokens, low
<1> HIDE DEF end, P, n
<1>12. CASE end.cur = <<>>
  <2>1. n = e
    BY <1>3, <1>10, <1>12, EmptySeq
  <2> QED BY <1>7, <1>9, <1>11, <1>12, <2>1 DEF low, n
<1>13. CASE end.cur # <<>>
  <2>1. e < n
    <3>1. Len(end.cur) # 0
      BY <1>9, <1>13, EmptySeq
    <3> QED BY <1>3, <1>6, <1>10, <3>1
  <2>2. n \in 1 .. Len(low) /\ e \in Nat /\ n + 1 \notin P
    BY <1>2, <1>3, <2>1 DEF P, Places
  <2>3. \E from2, to2 : Closed(low, Append(end.raw, SubSeq(low, e + 1, n)), from2, to2, n)
    BY <1>2, <1>6, <1>7, <1>9, <2>1, <2>2, Closing DEF P
  <2>4. Append(end.raw, end.cur) \in Seq(Seq(Letters))
    <3> DEFINE T == Seq(Letters)
    <3>1. end.raw \in Seq(T) /\ end.cur \in T
      BY <1>9
    <3> HIDE DEF T
    <3>2. Append(end.raw, end.cur) \in Seq(T)
      BY <3>1, AppendProperties
    <3> QED BY <3>2 DEF T
  <2> QED BY <1>6, <1>11, <1>13, <2>3, <2>4 DEF low, n
<1> QED BY <1>12, <1>13

(* What Closed says when every letter is in a word. *)
Lies(low, raw, from, to) ==
  /\ Len(low) \in Nat /\ Len(raw) \in Nat /\ DOMAIN low = 1 .. Len(low) /\ DOMAIN raw = 1 .. Len(raw)
  /\ \A k \in 1 .. Len(raw) :
       /\ from[k] \in 1 .. Len(low) /\ to[k] \in 1 .. Len(low) /\ from[k] <= to[k]
       /\ from[k] .. to[k] \subseteq Places(low) /\ from[k] \in Places(low) /\ to[k] \in Places(low)
       /\ from[k] - 1 \notin Places(low) /\ to[k] + 1 \notin Places(low)
       /\ raw[k] = SubSeq(low, from[k], to[k]) /\ Len(raw[k]) = to[k] - from[k] + 1
       /\ raw[k][1] = low[from[k]]
  /\ \A k, l \in 1 .. Len(raw) : k < l => to[k] < from[l]
  /\ \A k, l \in 1 .. Len(raw) : k < l => from[k] < from[l]
  /\ \A p \in Places(low) : p \in 1 .. Len(low) /\ \E k \in 1 .. Len(raw) : from[k] <= p /\ p <= to[k]

(* At the end of a text every letter is in a word. *)
LEMMA ClosedLies ==
  ASSUME NEW C, NEW low \in Seq(C), NEW raw \in Seq(Seq(Letters)), NEW from, NEW to,
         Closed(low, raw, from, to, Len(low))
  PROVE  Lies(low, raw, from, to)
<1> DEFINE n == Len(low)
           m == Len(raw)
           P == Places(low)
<1>1. n \in Nat /\ m \in Nat /\ DOMAIN low = 1 .. n /\ DOMAIN raw = 1 .. m
  BY LenProperties
<1>2. /\ from \in [1 .. m -> 1 .. n] /\ to \in [1 .. m -> 1 .. n]
      /\ \A k \in 1 .. m :
           /\ from[k] <= to[k]
           /\ from[k] .. to[k] \subseteq P
           /\ from[k] - 1 \notin P /\ to[k] + 1 \notin P
           /\ raw[k] = SubSeq(low, from[k], to[k])
      /\ \A k, l \in 1 .. m : k < l => to[k] < from[l]
      /\ \A p \in P : p <= n => \E k \in 1 .. m : from[k] <= p /\ p <= to[k]
  BY DEF Closed
<1>3. \A p \in P : p \in 1 .. n
  BY <1>1 DEF Places
<1>4. ASSUME NEW k \in 1 .. m
      PROVE  Len(raw[k]) = to[k] - from[k] + 1 /\ raw[k][1] = low[from[k]]
  <2> DEFINE u == from[k]
             v == to[k]
  <2>1. u \in 1 .. n /\ v \in 1 .. n /\ u <= v /\ raw[k] = SubSeq(low, u, v)
    BY <1>2
  <2> HIDE DEF u, v
  <2>2. u \in 1 .. Len(low) + 1 /\ v \in 0 .. Len(low) /\ u <= v + 1 /\ 1 \in 1 .. v - u + 1 /\ u + 1 - 1 = u
    BY <1>1, <2>1
  <2>3. /\ Len(SubSeq(low, u, v)) = v - u + 1
        /\ \A i \in 1 .. v - u + 1 : SubSeq(low, u, v)[i] = low[u + i - 1]
    BY <2>2, Part
  <2>4. SubSeq(low, u, v)[1] = low[u]
    BY <2>2, <2>3
  <2> QED BY <2>1, <2>3, <2>4 DEF u, v
<1>5. ASSUME NEW k \in 1 .. m PROVE from[k] \in 1 .. n /\ to[k] \in 1 .. n
  BY <1>2
<1>6. ASSUME NEW k \in 1 .. m PROVE from[k] \in P /\ to[k] \in P
  <2>1. from[k] \in from[k] .. to[k] /\ to[k] \in from[k] .. to[k]
    BY <1>1, <1>2, <1>5
  <2> QED BY <1>2, <2>1
<1>7. ASSUME NEW k \in 1 .. m, NEW l \in 1 .. m, k < l PROVE from[k] < from[l]
  BY <1>1, <1>2, <1>5, <1>7
<1>8. ASSUME NEW p \in P PROVE p \in 1 .. n /\ \E k \in 1 .. m : from[k] <= p /\ p <= to[k]
  BY <1>1, <1>2, <1>3
<1> HIDE DEF n, m, P
<1>9. /\ n \in Nat /\ m \in Nat /\ DOMAIN low = 1 .. n /\ DOMAIN raw = 1 .. m
      /\ \A k \in 1 .. m :
              /\ from[k] \in 1 .. n /\ to[k] \in 1 .. n /\ from[k] <= to[k]
              /\ from[k] .. to[k] \subseteq P /\ from[k] \in P /\ to[k] \in P
              /\ from[k] - 1 \notin P /\ to[k] + 1 \notin P
              /\ raw[k] = SubSeq(low, from[k], to[k]) /\ Len(raw[k]) = to[k] - from[k] + 1
              /\ raw[k][1] = low[from[k]]
      /\ \A k, l \in 1 .. m : k < l => to[k] < from[l]
      /\ \A k, l \in 1 .. m : k < l => from[k] < from[l]
      /\ \A p \in P : p \in 1 .. n /\ \E k \in 1 .. m : from[k] <= p /\ p <= to[k]
  BY <1>1, <1>2, <1>4, <1>5, <1>6, <1>7, <1>8
<1> QED BY <1>9 DEF n, m, P, Lies

(* Every member of a bounded set of numbers is in a longest stretch of it. *)
LEMMA StretchAround ==
  ASSUME NEW n \in Nat, NEW S, S \subseteq 1 .. n, NEW k \in S
  PROVE  \E r \in Stretches(S) : r[1] <= k /\ k <= r[2]
<1>1. k \in 1 .. n /\ k \in Nat
  OBVIOUS
<1> DEFINE T == {j \in 1 .. k : j .. k \subseteq S}
           V == {j \in k .. n : j + 1 \notin S}
<1>2. PICK a \in T : \A j \in T : a <= j
  <2>1. k \in T
    <3>1. \A j \in k .. k : j = k
      BY <1>1
    <3> QED BY <1>1, <3>1
  <2>2. T \subseteq Nat /\ T # {}
    BY <2>1
  <2> HIDE DEF T
  <2> QED BY <2>2, LeastNatural
<1>3. PICK b \in V : \A j \in V : b <= j
  <2>1. n \in V
    <3>1. n \in k .. n /\ n + 1 \notin 1 .. n
      BY <1>1
    <3> QED BY <3>1
  <2>2. V \subseteq Nat /\ V # {}
    <3>1. k .. n \subseteq Nat
      BY <1>1
    <3> QED BY <2>1, <3>1
  <2> HIDE DEF V
  <2> QED BY <2>2, LeastNatural
<1>4. a \in 1 .. k /\ a .. k \subseteq S /\ b \in k .. n /\ b + 1 \notin S
  OBVIOUS
<1>5. a - 1 \notin S
  <2> SUFFICES ASSUME a - 1 \in S PROVE FALSE
    OBVIOUS
  <2>1. a - 1 \in 1 .. n
    OBVIOUS
  <2>2. \A j \in (a - 1) .. k : j = a - 1 \/ j \in a .. k
    BY <1>1, <1>4
  <2>3. (a - 1) .. k \subseteq S
    BY <1>4, <2>2
  <2>4. a - 1 \in 1 .. k
    BY <1>1, <1>4, <2>1
  <2>5. a <= a - 1
    BY <1>2, <2>3, <2>4
  <2> QED BY <1>1, <1>4, <2>5
<1>6. k .. b \subseteq S
  <2> SUFFICES ASSUME NEW q \in k .. b, q \notin S PROVE FALSE
    OBVIOUS
  <2>1. q # k
    OBVIOUS
  <2>2. q \in Nat /\ q - 1 \in k .. n /\ (q - 1) + 1 = q /\ ~ (b <= q - 1)
    BY <1>1, <1>4, <2>1
  <2>3. q - 1 \in V
    BY <2>2
  <2> QED BY <1>3, <2>2, <2>3
<1>7. a .. b \subseteq S
  <2>1. \A j \in a .. b : j \in a .. k \/ j \in k .. b
    BY <1>1, <1>4
  <2> QED BY <1>4, <1>6, <2>1
<1>8. a \in S /\ b \in S /\ a <= b
  <2>1. a \in a .. b /\ b \in a .. b /\ a <= b
    BY <1>1, <1>4
  <2> QED BY <1>7, <2>1
<1> HIDE DEF T, V
<1>9. <<a, b>> \in Stretches(S)
  BY <1>4, <1>5, <1>7, <1>8 DEF Stretches
<1>10. a <= k /\ k <= b
  BY <1>1, <1>4
<1> QED BY <1>9, <1>10

(* The words are the longest stretches of letters. *)
LEMMA WordsAreStretches ==
  ASSUME NEW C, NEW low \in Seq(C), NEW raw \in Seq(Seq(Letters)), NEW from, NEW to,
         Closed(low, raw, from, to, Len(low))
  PROVE  Range(raw) = {SubSeq(low, r[1], r[2]) : r \in Stretches(Places(low))}
<1> DEFINE P == Places(low)
           m == Len(raw)
           n == Len(low)
<1>1. /\ n \in Nat /\ m \in Nat /\ DOMAIN raw = 1 .. m
      /\ \A k \in 1 .. m :
              /\ from[k] \in 1 .. n /\ to[k] \in 1 .. n /\ from[k] <= to[k]
              /\ from[k] .. to[k] \subseteq P /\ from[k] \in P /\ to[k] \in P
              /\ from[k] - 1 \notin P /\ to[k] + 1 \notin P
              /\ raw[k] = SubSeq(low, from[k], to[k])
      /\ \A p \in P : p \in 1 .. n /\ \E k \in 1 .. m : from[k] <= p /\ p <= to[k]
  <2>1. Lies(low, raw, from, to)
    BY ClosedLies
  <2> QED BY <2>1 DEF Lies
<1> HIDE DEF P, m, n
<1>2. ASSUME NEW k \in 1 .. m PROVE <<from[k], to[k]>> \in Stretches(P)
  BY <1>1 DEF Stretches
<1>3. ASSUME NEW r \in Stretches(P) PROVE \E k \in 1 .. m : from[k] = r[1] /\ to[k] = r[2]
  <2>1. /\ r[1] \in P /\ r[2] \in P /\ r[1] .. r[2] \subseteq P /\ r[1] <= r[2]
        /\ r[1] - 1 \notin P /\ r[2] + 1 \notin P
    BY DEF Stretches
  <2> DEFINE a == r[1]
             b == r[2]
  <2>2. a \in 1 .. n /\ b \in 1 .. n
    BY <1>1, <2>1
  <2>3. PICK k \in 1 .. m : from[k] <= a /\ a <= to[k]
    BY <1>1, <2>1
  <2>4. a .. b \subseteq P /\ a <= b /\ a - 1 \notin P /\ b + 1 \notin P
    BY <2>1
  <2> HIDE DEF a, b
  <2> DEFINE u == from[k]
             v == to[k]
  <2>5. u \in 1 .. n /\ v \in 1 .. n /\ u .. v \subseteq P /\ u <= a /\ a <= v /\ v + 1 \notin P
    BY <1>1, <2>3
  <2> HIDE DEF u, v
  <2>6. u = a
    <3> SUFFICES ASSUME u # a PROVE FALSE
      OBVIOUS
    <3>1. a - 1 \in u .. v
      BY <1>1, <2>2, <2>5
    <3> QED BY <2>4, <2>5, <3>1
  <2>7. ~ (v < b)
    <3> SUFFICES ASSUME v < b PROVE FALSE
      OBVIOUS
    <3>1. v + 1 \in a .. b
      BY <1>1, <2>2, <2>5
    <3> QED BY <2>4, <2>5, <3>1
  <2>8. ~ (b < v)
    <3> SUFFICES ASSUME b < v PROVE FALSE
      OBVIOUS
    <3>1. b + 1 \in u .. v
      BY <1>1, <2>2, <2>4, <2>5
    <3> QED BY <2>4, <2>5, <3>1
  <2>9. v = b
    BY <1>1, <2>2, <2>5, <2>7, <2>8
  <2> QED BY <2>6, <2>9 DEF u, v, a, b
<1>4. Range(raw) = {raw[k] : k \in 1 .. m}
  BY <1>1 DEF Range
<1>5. ASSUME NEW k \in 1 .. m PROVE \E r \in Stretches(P) : raw[k] = SubSeq(low, r[1], r[2])
  <2>1. raw[k] = SubSeq(low, <<from[k], to[k]>>[1], <<from[k], to[k]>>[2])
    BY <1>1
  <2> QED BY <1>2, <2>1
<1>6. ASSUME NEW r \in Stretches(P) PROVE \E k \in 1 .. m : raw[k] = SubSeq(low, r[1], r[2])
  BY <1>1, <1>3, ZenonT(40)
<1> DEFINE Q(r) == SubSeq(low, r[1], r[2])
           R == Stretches(P)
<1>7. (\A k \in 1 .. m : \E r \in R : raw[k] = Q(r)) /\ (\A r \in R : \E k \in 1 .. m : raw[k] = Q(r))
  BY <1>5, <1>6
<1>8. Range(raw) = {Q(r) : r \in R}
  <2> HIDE DEF Q, R
  <2> QED BY <1>4, <1>7
<1> QED BY <1>8 DEF P

(* The words of one letter, and the letters that stand alone. *)
Singles(raw) == {k \in DOMAIN raw : Len(raw[k]) = 1}
Alone(low) == {i \in Places(low) : i - 1 \notin Places(low) /\ i + 1 \notin Places(low)}
Among(low, i, j) == {k \in Places(low) \ Alone(low) : (i < k /\ k < j) \/ (j < k /\ k < i)}
Together(low, i) == {j \in Alone(low) : Among(low, i, j) = {}}

(* The words of one letter are the letters that stand alone. *)
LEMMA AloneAreSingles ==
  ASSUME NEW C, NEW low \in Seq(C), NEW raw \in Seq(Seq(Letters)), NEW from, NEW to,
         Closed(low, raw, from, to, Len(low))
  PROVE  /\ \A k \in 1 .. Len(raw) : k \in Singles(raw) <=> to[k] = from[k]
         /\ \A k \in 1 .. Len(raw) : k \in Singles(raw) <=> from[k] \in Alone(low)
         /\ \A i \in Alone(low) : \E k \in Singles(raw) : from[k] = i
<1> DEFINE P == Places(low)
           m == Len(raw)
           n == Len(low)
           A == Alone(low)
           S == Singles(raw)
<1>1. /\ n \in Nat /\ m \in Nat /\ DOMAIN raw = 1 .. m
      /\ \A k \in 1 .. m :
              /\ from[k] \in 1 .. n /\ to[k] \in 1 .. n /\ from[k] <= to[k]
              /\ from[k] .. to[k] \subseteq P /\ from[k] \in P /\ to[k] \in P
              /\ from[k] - 1 \notin P /\ to[k] + 1 \notin P
              /\ Len(raw[k]) = to[k] - from[k] + 1
      /\ \A p \in P : p \in 1 .. n /\ \E k \in 1 .. m : from[k] <= p /\ p <= to[k]
  <2>1. Lies(low, raw, from, to)
    BY ClosedLies
  <2> QED BY <2>1 DEF Lies
<1>2. A = {i \in P : i - 1 \notin P /\ i + 1 \notin P}
  BY DEF Alone
<1>3. S = {k \in 1 .. m : Len(raw[k]) = 1}
  BY <1>1 DEF Singles
<1> HIDE DEF P, m, n, A, S
<1>4. ASSUME NEW k \in 1 .. m PROVE k \in S <=> to[k] = from[k]
  <2> DEFINE u == from[k]
             v == to[k]
             x == Len(raw[k])
  <2>1. u \in Nat /\ v \in Nat /\ x = v - u + 1
    BY <1>1, SMTT(30)
  <2>2. k \in S <=> x = 1
    BY <1>3
  <2> HIDE DEF u, v, x
  <2>3. x = 1 <=> v = u
    BY <2>1
  <2> QED BY <2>2, <2>3 DEF u, v
<1>5. ASSUME NEW k \in 1 .. m PROVE k \in S <=> from[k] \in A
  <2>1. CASE to[k] = from[k]
    BY <1>1, <1>2, <1>4, <2>1
  <2>2. CASE to[k] # from[k]
    <3>1. from[k] + 1 \in from[k] .. to[k]
      <4> DEFINE u == from[k]
                 v == to[k]
      <4>1. u \in Nat /\ v \in Nat /\ u <= v /\ u # v
        BY <1>1, <2>2
      <4> HIDE DEF u, v
      <4>2. u + 1 \in u .. v
        BY <4>1
      <4> QED BY <4>2 DEF u, v
    <3>2. from[k] + 1 \in P
      BY <1>1, <3>1
    <3> QED BY <1>2, <1>4, <2>2, <3>2
  <2> QED BY <2>1, <2>2
<1>6. ASSUME NEW i \in A PROVE \E k \in S : from[k] = i
  <2>1. i \in P /\ i - 1 \notin P /\ i + 1 \notin P /\ i \in 1 .. n
    BY <1>1, <1>2
  <2>2. PICK k \in 1 .. m : from[k] <= i /\ i <= to[k]
    BY <1>1, <2>1
  <2> DEFINE u == from[k]
             v == to[k]
  <2>3. u \in 1 .. n /\ v \in 1 .. n /\ u .. v \subseteq P /\ u <= i /\ i <= v
    BY <1>1, <2>2
  <2> HIDE DEF u, v
  <2>4. u = i
    <3> SUFFICES ASSUME u # i PROVE FALSE
      OBVIOUS
    <3>1. i - 1 \in u .. v
      BY <1>1, <2>1, <2>3
    <3> QED BY <2>1, <2>3, <3>1
  <2>5. from[k] \in A
    BY <2>4 DEF u
  <2>6. k \in S
    BY <1>5, <2>5
  <2> QED BY <2>4, <2>6 DEF u
<1> QED BY <1>4, <1>5, <1>6 DEF m, S, A

AmongIs(low, raw, from) ==
  \A k, l \in Singles(raw) : k <= l =>
    /\ Among(low, from[k], from[l]) = {} <=> k .. l \subseteq Singles(raw)
    /\ Among(low, from[l], from[k]) = {} <=> k .. l \subseteq Singles(raw)

(* Nothing but letters alone is between two of them just when nothing but  *)
(* words of one letter is between these words.                             *)
LEMMA AmongSingles ==
  ASSUME NEW C, NEW low \in Seq(C), NEW raw \in Seq(Seq(Letters)), NEW from, NEW to,
         Closed(low, raw, from, to, Len(low))
  PROVE  AmongIs(low, raw, from)
<1> SUFFICES ASSUME NEW k \in Singles(raw), NEW l \in Singles(raw), k <= l
             PROVE  /\ Among(low, from[k], from[l]) = {} <=> k .. l \subseteq Singles(raw)
                    /\ Among(low, from[l], from[k]) = {} <=> k .. l \subseteq Singles(raw)
  BY DEF AmongIs
<1> DEFINE P == Places(low)
           m == Len(raw)
           n == Len(low)
           A == Alone(low)
           S == Singles(raw)
<1>1. /\ n \in Nat /\ m \in Nat /\ DOMAIN raw = 1 .. m
      /\ \A j \in 1 .. m :
              /\ from[j] \in 1 .. n /\ to[j] \in 1 .. n /\ from[j] <= to[j]
              /\ from[j] .. to[j] \subseteq P /\ from[j] \in P
      /\ \A i, j \in 1 .. m : i < j => to[i] < from[j]
      /\ \A i, j \in 1 .. m : i < j => from[i] < from[j]
      /\ \A p \in P : p \in 1 .. n /\ \E j \in 1 .. m : from[j] <= p /\ p <= to[j]
  <2>1. Lies(low, raw, from, to)
    BY ClosedLies
  <2> QED BY <2>1 DEF Lies
<1>2. /\ \A j \in 1 .. m : j \in S <=> to[j] = from[j]
      /\ \A j \in 1 .. m : j \in S <=> from[j] \in A
  <2>1. /\ \A j \in 1 .. Len(raw) : j \in Singles(raw) <=> to[j] = from[j]
        /\ \A j \in 1 .. Len(raw) : j \in Singles(raw) <=> from[j] \in Alone(low)
        /\ \A i \in Alone(low) : \E j \in Singles(raw) : from[j] = i
    BY AloneAreSingles
  <2> QED BY <2>1
<1>3. S \subseteq 1 .. m /\ A \subseteq P
  BY <1>1 DEF Singles, Alone
<1> DEFINE B(i, j) == {q \in P \ A : (i < q /\ q < j) \/ (j < q /\ q < i)}
<1>4. \A i, j : Among(low, i, j) = B(i, j)
  BY DEF Among
<1>5. k \in S /\ l \in S /\ k \in 1 .. m /\ l \in 1 .. m /\ k <= l
  BY <1>3
<1> HIDE DEF P, m, n, A, S
<1>6. ASSUME k .. l \subseteq S, NEW q \in P \ A, from[k] < q, q < from[l] PROVE FALSE
  <2>1. PICK j \in 1 .. m : from[j] <= q /\ q <= to[j]
    BY <1>1, <1>6
  <2>2. q \in Nat /\ from[j] \in Nat /\ to[j] \in Nat /\ from[k] \in Nat /\ from[l] \in Nat
    <3>1. q \in P
      BY <1>6
    <3>2. q \in 1 .. n /\ from[j] \in 1 .. n /\ to[j] \in 1 .. n /\ from[k] \in 1 .. n /\ from[l] \in 1 .. n
      BY <1>1, <1>5, <3>1
    <3>3. 1 .. n \subseteq Nat
      BY <1>1
    <3> QED BY <3>2, <3>3
  <2>3. ~ (j < k)
    <3> SUFFICES ASSUME j < k PROVE FALSE
      OBVIOUS
    <3>1. to[j] < from[k]
      BY <1>1, <1>5
    <3> QED BY <1>6, <2>1, <2>2, <3>1
  <2>4. ~ (l < j)
    <3> SUFFICES ASSUME l < j PROVE FALSE
      OBVIOUS
    <3>1. from[l] < from[j]
      BY <1>1, <1>5
    <3> QED BY <1>6, <2>1, <2>2, <3>1
  <2>5. j \in k .. l
    BY <1>1, <1>5, <2>3, <2>4
  <2>6. j \in S
    BY <1>6, <2>5
  <2>7. from[j] = to[j] /\ from[j] \in A
    BY <1>2, <2>6
  <2>8. q = from[j]
    BY <2>1, <2>2, <2>7
  <2> QED BY <1>6, <2>7, <2>8
<1>7. ASSUME NEW j \in k .. l, j \notin S
      PROVE  from[j] \in P \ A /\ from[k] < from[j] /\ from[j] < from[l]
  <2>1. j \in 1 .. m
    BY <1>1, <1>5
  <2>2. k < j /\ j < l
    <3>1. j # k /\ j # l
      BY <1>5, <1>7
    <3> QED BY <1>1, <1>5, <3>1
  <2> QED BY <1>1, <1>2, <1>5, <1>7, <2>1, <2>2
<1>8. from[k] \in Nat /\ from[l] \in Nat /\ from[k] <= from[l]
  <2>1. k = l \/ k < l
    BY <1>1, <1>5
  <2> QED BY <1>1, <1>5, <2>1
<1> DEFINE u == from[k]
           v == from[l]
<1>9. \A q \in P : (v < q /\ q < u) => FALSE
  <2>1. \A q \in P : q \in Nat
    BY <1>1
  <2>2. u \in Nat /\ v \in Nat /\ u <= v
    BY <1>8
  <2> HIDE DEF u, v
  <2> QED BY <2>1, <2>2
<1>10. k .. l \subseteq S => B(u, v) = {} /\ B(v, u) = {}
  BY <1>6, <1>9
<1>11. (B(u, v) = {} \/ B(v, u) = {}) => k .. l \subseteq S
  BY <1>7
<1> QED BY <1>4, <1>10, <1>11 DEF S

(* The letters alone that go with one are those of its stretch of words. *)
LEMMA TogetherIsStretch ==
  ASSUME NEW C, NEW low \in Seq(C), NEW raw \in Seq(Seq(Letters)), NEW from, NEW to,
         Closed(low, raw, from, to, Len(low)),
         NEW r \in Stretches(Singles(raw)), NEW k \in r[1] .. r[2]
  PROVE  /\ Together(low, from[k]) = {from[l] : l \in r[1] .. r[2]}
         /\ Least(Together(low, from[k])) = from[r[1]] /\ Greatest(Together(low, from[k])) = from[r[2]]
<1> DEFINE m == Len(raw)
           n == Len(low)
           S == Singles(raw)
           A == Alone(low)
           a == r[1]
           b == r[2]
           W == Together(low, from[k])
<1>1. /\ n \in Nat /\ m \in Nat /\ DOMAIN raw = 1 .. m
      /\ \A j \in 1 .. m : from[j] \in 1 .. n
      /\ \A i, j \in 1 .. m : i < j => from[i] < from[j]
  <2>1. Lies(low, raw, from, to)
    BY ClosedLies
  <2> QED BY <2>1 DEF Lies
<1>2. S \subseteq 1 .. m
  BY <1>1 DEF Singles
<1>3. /\ \A j \in 1 .. m : j \in S <=> from[j] \in A
      /\ \A i \in A : \E j \in S : from[j] = i
  <2>1. /\ \A j \in 1 .. Len(raw) : j \in Singles(raw) <=> to[j] = from[j]
        /\ \A j \in 1 .. Len(raw) : j \in Singles(raw) <=> from[j] \in Alone(low)
        /\ \A i \in Alone(low) : \E j \in Singles(raw) : from[j] = i
    BY AloneAreSingles
  <2> QED BY <2>1
<1>4. \A i, j \in S : i <= j =>
        /\ Among(low, from[i], from[j]) = {} <=> i .. j \subseteq S
        /\ Among(low, from[j], from[i]) = {} <=> i .. j \subseteq S
  <2>1. AmongIs(low, raw, from)
    BY AmongSingles
  <2> QED BY <2>1 DEF AmongIs
<1>5. W = {i \in A : Among(low, from[k], i) = {}}
  BY DEF Together
<1>6. a \in S /\ b \in S /\ a .. b \subseteq S /\ a <= b /\ a - 1 \notin S /\ b + 1 \notin S /\ k \in a .. b
  BY DEF Stretches
<1> HIDE DEF m, n, S, A, a, b, W
<1>7. a \in 1 .. m /\ b \in 1 .. m /\ k \in S /\ k \in 1 .. m /\ a <= k /\ k <= b
  <2>1. a \in 1 .. m /\ b \in 1 .. m /\ k \in S
    BY <1>2, <1>6
  <2> QED BY <1>1, <1>2, <1>6, <2>1
<1>8. ASSUME NEW l \in a .. b PROVE from[l] \in W
  <2>1. l \in S /\ l \in 1 .. m /\ l \in Nat /\ k \in Nat
    BY <1>1, <1>2, <1>6, <1>7
  <2>2. from[l] \in A
    BY <1>3, <2>1
  <2>3. CASE k <= l
    <3>1. k .. l \subseteq S
      <4>1. k .. l \subseteq a .. b
        BY <1>1, <1>7, <2>1
      <4> QED BY <1>6, <4>1
    <3> QED BY <1>4, <1>5, <1>7, <2>1, <2>2, <2>3, <3>1
  <2>4. CASE l <= k
    <3>1. l .. k \subseteq S
      <4>1. l .. k \subseteq a .. b
        BY <1>1, <1>7, <2>1
      <4> QED BY <1>6, <4>1
    <3> QED BY <1>4, <1>5, <1>7, <2>1, <2>2, <2>4, <3>1
  <2> QED BY <2>1, <2>3, <2>4
<1>9. ASSUME NEW i \in W PROVE \E l \in a .. b : from[l] = i
  <2>1. i \in A /\ Among(low, from[k], i) = {}
    BY <1>5
  <2>2. PICK l \in S : from[l] = i
    BY <1>3, <2>1
  <2>3. l \in 1 .. m /\ l \in Nat /\ k \in Nat /\ a \in Nat /\ b \in Nat
    BY <1>1, <1>2, <1>7, <2>2
  <2>4. ~ (b < l)
    <3> SUFFICES ASSUME b < l PROVE FALSE
      OBVIOUS
    <3>1. k <= l /\ b + 1 \in k .. l
      BY <1>7, <2>3
    <3>2. k .. l \subseteq S
      BY <1>4, <1>7, <2>1, <2>2, <3>1
    <3> QED BY <1>6, <3>1, <3>2
  <2>5. ~ (l < a)
    <3> SUFFICES ASSUME l < a PROVE FALSE
      OBVIOUS
    <3>1. l <= k /\ a - 1 \in l .. k
      BY <1>7, <2>3
    <3>2. l .. k \subseteq S
      BY <1>4, <1>7, <2>1, <2>2, <3>1
    <3> QED BY <1>6, <3>1, <3>2
  <2>6. l \in a .. b
    BY <2>3, <2>4, <2>5
  <2> QED BY <2>2, <2>6
<1>10. W = {from[l] : l \in a .. b}
  BY <1>8, <1>9
<1>11. a \in a .. b /\ b \in a .. b
  BY <1>1, <1>7
<1>12. ASSUME NEW l \in a .. b PROVE from[a] <= from[l] /\ from[l] <= from[b]
  <2>1. l \in 1 .. m /\ (l = a \/ a < l) /\ (l = b \/ l < b)
    BY <1>1, <1>7
  <2>2. from[l] \in Nat /\ from[a] \in Nat /\ from[b] \in Nat
    BY <1>1, <1>7, <2>1, SMTT(30)
  <2>3. from[a] <= from[l]
    BY <1>1, <1>7, <2>1, <2>2, SMTT(30)
  <2>4. from[l] <= from[b]
    BY <1>1, <1>7, <2>1, <2>2
  <2> QED BY <2>3, <2>4
<1>13. W \subseteq Nat
  <2>1. \A l \in a .. b : l \in 1 .. m
    BY <1>1, <1>7
  <2> QED BY <1>1, <1>10, <2>1
<1>14. from[a] \in W /\ from[b] \in W /\ \A i \in W : from[a] <= i /\ i <= from[b]
  BY <1>10, <1>11, <1>12
<1> DEFINE u == from[a]
           v == from[b]
<1>15. W \subseteq Int /\ u \in W /\ v \in W /\ (\A i \in W : u <= i) /\ (\A i \in W : v >= i)
  BY <1>13, <1>14
<1> HIDE DEF u, v
<1>16. Least(W) = u
  BY <1>15, LeastIs
<1>17. Greatest(W) = v
  BY <1>15, GreatestIs
<1> QED BY <1>10, <1>16, <1>17 DEF W, a, b, u, v

Initials(raw, i, j) == [n \in 1 .. (j - i + 1) |-> raw[i + n - 1][1]]

(* Initials, one by one. *)
LEMMA InitialsStep ==
  ASSUME NEW raw \in Seq(Seq(Letters)), \A k \in 1 .. Len(raw) : raw[k][1] \in Letters,
         NEW a \in 1 .. Len(raw)
  PROVE  /\ Initials(raw, a, a - 1) = <<>>
         /\ \A q \in (a - 1) .. Len(raw) :
              Initials(raw, a, q) \in Seq(Letters) /\ Len(Initials(raw, a, q)) = q - a + 1
         /\ \A q \in (a - 1) .. (Len(raw) - 1) :
              Append(Initials(raw, a, q), raw[q + 1][1]) = Initials(raw, a, q + 1)
<1> DEFINE m == Len(raw)
           g == [k \in 1 .. m |-> raw[k][1]]
           J(q) == [n \in 1 .. (q - a + 1) |-> g[a + n - 1]]
<1>1. m \in Nat /\ a \in 1 .. m /\ g \in [1 .. m -> Letters]
  BY LenProperties
<1>2. ASSUME NEW q \in (a - 1) .. m PROVE Initials(raw, a, q) = J(q)
  <2>1. \A n \in 1 .. (q - a + 1) : a + n - 1 \in 1 .. m
    BY <1>1
  <2>2. \A n \in 1 .. (q - a + 1) : g[a + n - 1] = raw[a + n - 1][1]
    BY <2>1
  <2> HIDE DEF g, m
  <2> QED BY <2>2 DEF Initials
<1>3. \A k \in 1 .. m : g[k] = raw[k][1]
  OBVIOUS
<1> HIDE DEF m, g
<1>4. ASSUME NEW q \in (a - 1) .. m PROVE J(q) \in Seq(Letters) /\ Len(J(q)) = q - a + 1
  <2>1. \A n \in 1 .. (q - a + 1) : a + n - 1 \in 1 .. m
    BY <1>1
  <2>2. q - a + 1 \in Nat
    BY <1>1
  <2> DEFINE N == q - a + 1
  <2>3. J(q) \in [1 .. N -> Letters]
    BY <1>1, <2>1
  <2> HIDE DEF N
  <2>4. N \in Nat
    BY <2>2 DEF N
  <2>5. J(q) \in Seq(Letters) /\ DOMAIN J(q) = 1 .. N
    <3> HIDE DEF J
    <3> QED BY <2>3, <2>4, SeqDef
  <2>6. Len(J(q)) = N
    <3> HIDE DEF J
    <3> QED BY <2>4, <2>5, LenProperties
  <2> QED BY <2>5, <2>6 DEF N
<1>5. J(a - 1) = <<>>
  <2>1. a - 1 \in (a - 1) .. m /\ (a - 1) - a + 1 = 0
    BY <1>1
  <2>2. J(a - 1) \in Seq(Letters) /\ Len(J(a - 1)) = 0
    BY <1>4, <2>1
  <2> HIDE DEF J
  <2> QED BY <2>2, EmptySeq
<1>6. ASSUME NEW q \in (a - 1) .. (m - 1) PROVE Append(J(q), g[q + 1]) = J(q + 1)
  <2>1. q \in (a - 1) .. m /\ q + 1 \in (a - 1) .. m /\ q + 1 \in 1 .. m /\ (q + 1) - a + 1 = (q - a + 1) + 1
    BY <1>1
  <2> DEFINE N == q - a + 1
             x == J(q)
             y == J(q + 1)
             t == Append(x, g[q + 1])
  <2>2. x \in Seq(Letters) /\ Len(x) = N /\ y \in Seq(Letters) /\ Len(y) = N + 1
    BY <1>4, <2>1
  <2>3. \A n \in 1 .. N : x[n] = g[a + n - 1]
    OBVIOUS
  <2>4. \A n \in 1 .. N + 1 : y[n] = g[a + n - 1]
    BY <2>1
  <2>5. g[q + 1] \in Letters /\ N \in Nat /\ a + (N + 1) - 1 = q + 1
    BY <1>1, <2>1
  <2> HIDE DEF N, x, y
  <2>6. t \in Seq(Letters) /\ Len(t) = N + 1 /\ t[N + 1] = g[q + 1] /\ \A n \in 1 .. N : t[n] = x[n]
    BY <2>2, <2>5, AppendProperties
  <2> HIDE DEF t
  <2>7. ASSUME NEW n \in 1 .. N + 1 PROVE t[n] = y[n]
    <3>1. n = N + 1 \/ n \in 1 .. N
      BY <2>5
    <3> QED BY <2>3, <2>4, <2>5, <2>6, <3>1
  <2>8. t = y
    BY <2>2, <2>6, <2>7, SeqEqual
  <2> QED BY <2>8 DEF t, x, y
<1> HIDE DEF J
<1>7. a - 1 \in (a - 1) .. m
  BY <1>1
<1>8. Initials(raw, a, a - 1) = <<>>
  BY <1>2, <1>5, <1>7
<1>9. ASSUME NEW q \in (a - 1) .. m
      PROVE  Initials(raw, a, q) \in Seq(Letters) /\ Len(Initials(raw, a, q)) = q - a + 1
  BY <1>2, <1>4
<1>10. ASSUME NEW q \in (a - 1) .. (m - 1)
       PROVE  Append(Initials(raw, a, q), raw[q + 1][1]) = Initials(raw, a, q + 1)
  <2>1. q \in (a - 1) .. m /\ q + 1 \in (a - 1) .. m /\ q + 1 \in 1 .. m
    BY <1>1
  <2> QED BY <1>2, <1>3, <1>6, <2>1
<1> QED BY <1>8, <1>9, <1>10 DEF m

(* The letters from the first to the last of a stretch of words of one letter *)
(* are the initials of these words.                                           *)
LEMMA StretchSpells ==
  ASSUME NEW C, NEW low \in Seq(C), NEW raw \in Seq(Seq(Letters)), NEW from, NEW to,
         Closed(low, raw, from, to, Len(low)),
         NEW r \in Stretches(Singles(raw))
  PROVE  LET s == SubSeq(low, from[r[1]], from[r[2]])
         IN  s \in Seq(C) /\ Lettered(s)[Len(s)] = Initials(raw, r[1], r[2])
<1> DEFINE m == Len(raw)
           n == Len(low)
           P == Places(low)
           S == Singles(raw)
           a == r[1]
           b == r[2]
           u == from[a]
           v == from[b]
           s == SubSeq(low, u, v)
           L == Lettered(s)
           I(q) == Initials(raw, a, q)
<1>1. /\ n \in Nat /\ m \in Nat /\ DOMAIN raw = 1 .. m
      /\ \A k \in 1 .. m : from[k] \in 1 .. n /\ from[k] \in P /\ raw[k][1] = low[from[k]]
      /\ \A i, j \in 1 .. m : i < j => from[i] < from[j]
      /\ \A p \in P : p \in 1 .. n /\ \E k \in 1 .. m : from[k] <= p /\ p <= to[k]
      /\ \A k \in 1 .. m : to[k] \in 1 .. n
      /\ \A i, j \in 1 .. m : i < j => to[i] < from[j]
  <2>1. Lies(low, raw, from, to)
    BY ClosedLies
  <2> QED BY <2>1 DEF Lies
<1>2. \A k \in 1 .. m : k \in S <=> to[k] = from[k]
  <2>1. /\ \A j \in 1 .. Len(raw) : j \in Singles(raw) <=> to[j] = from[j]
        /\ \A j \in 1 .. Len(raw) : j \in Singles(raw) <=> from[j] \in Alone(low)
        /\ \A i \in Alone(low) : \E j \in Singles(raw) : from[j] = i
    BY AloneAreSingles
  <2> QED BY <2>1
<1>3. S \subseteq 1 .. m /\ P = {p \in 1 .. n : low[p] \in Letters}
  <2>1. DOMAIN low = 1 .. n
    BY LenProperties
  <2> QED BY <1>1, <2>1 DEF Singles, Places
<1>4. a \in S /\ b \in S /\ a .. b \subseteq S /\ a <= b
  BY DEF Stretches
<1>5. /\ I(a - 1) = <<>>
      /\ \A q \in (a - 1) .. (m - 1) : Append(I(q), raw[q + 1][1]) = I(q + 1)
  <2>1. \A k \in 1 .. Len(raw) : raw[k][1] \in Letters
    BY <1>1, <1>3
  <2>2. a \in 1 .. Len(raw)
    BY <1>3, <1>4
  <2> HIDE DEF a
  <2> QED BY <2>1, <2>2, InitialsStep
<1>6. raw[a][1] = low[u] /\ a \in 1 .. m /\ b \in 1 .. m
  BY <1>1, <1>3, <1>4
<1>7. u \in 1 .. n /\ v \in 1 .. n /\ u <= v
  <2>1. a = b \/ a < b
    BY <1>1, <1>4, <1>6
  <2>2. u \in 1 .. n /\ v \in 1 .. n
    BY <1>1, <1>6
  <2>3. a < b => u < v
    BY <1>1, <1>6
  <2>4. a = b => u = v
    OBVIOUS
  <2>5. n \in Nat
    BY <1>1
  <2> HIDE DEF a, b, u, v, n
  <2> QED BY <2>1, <2>2, <2>3, <2>4, <2>5
<1> HIDE DEF m, n, P, S, a, b
<1>0. n \in Nat /\ m \in Nat /\ a \in 1 .. m /\ b \in 1 .. m /\ a \in Nat /\ b \in Nat /\ a <= b
  BY <1>1, <1>4, <1>6
<1> DEFINE N == v - u + 1
<1>8. s \in Seq(C) /\ Len(s) = N /\ \A i \in 1 .. N : s[i] = low[u + i - 1]
  <2>1. u \in 1 .. Len(low) + 1 /\ v \in 0 .. Len(low) /\ u <= v + 1
    BY <1>1, <1>7 DEF n
  <2> HIDE DEF u, v
  <2> QED BY <2>1, Part
<1>16. from[a] = u /\ from[b] = v
  OBVIOUS
<1> HIDE DEF s, I
<1>9. /\ L[0] = <<>>
      /\ \A i \in 1 .. N : L[i] = IF s[i] \in Letters THEN Append(L[i - 1], s[i]) ELSE L[i - 1]
  BY <1>8, LetteredStep
<1> HIDE DEF u, v
<1>10. N \in Nat /\ u + N - 1 = v
  BY <1>0, <1>7
<1> HIDE DEF L, N
<1> DEFINE At(q, p) == (q < a \/ from[q] <= p) /\ (q = b \/ from[q + 1] > p)
           U == {i \in 0 .. N : \E q \in (a - 1) .. b : At(q, u + i - 1) /\ L[i] = I(q)}
<1>11. 0 .. N \subseteq U
  <2>1. 0 \in U
    <3>1. a - 1 \in (a - 1) .. b /\ a - 1 < a /\ (a - 1) + 1 = a /\ u > u + 0 - 1 /\ 0 \in 0 .. N
      BY <1>0, <1>7, <1>10
    <3>2. At(a - 1, u + 0 - 1)
      BY <1>16, <3>1
    <3> QED BY <1>5, <1>9, <3>1, <3>2
  <2>2. ASSUME NEW i \in 0 .. N, i \in U, i < N PROVE i + 1 \in U
    <3>1. PICK q \in (a - 1) .. b : At(q, u + i - 1) /\ L[i] = I(q)
      BY <2>2
    <3> DEFINE p == u + i
    <3>2. /\ i + 1 \in 1 .. N /\ i + 1 \in 0 .. N /\ (i + 1) - 1 = i
          /\ u + (i + 1) - 1 = p /\ p \in 1 .. n /\ u <= p /\ p <= v
      BY <1>0, <1>7, <1>10, <2>2 DEF N
    <3>3. s[i + 1] = low[p]
      BY <1>8, <3>2
    <3>4. q < a \/ from[q] <= p - 1
      <4>1. u + i - 1 = p - 1
        BY <1>0, <1>7, <2>2
      <4> QED BY <3>1, <4>1
    <3>5. q = b \/ from[q + 1] > p - 1
      <4>1. u + i - 1 = p - 1
        BY <1>0, <1>7, <2>2
      <4> QED BY <3>1, <4>1
    <3>6. q \in Int /\ a - 1 <= q /\ q <= b /\ a \in Nat /\ b \in Nat
      BY <1>0
    <3> HIDE DEF p, At
    <3>7. L[i + 1] = IF low[p] \in Letters THEN Append(L[i], low[p]) ELSE L[i]
      BY <1>9, <3>2, <3>3
    <3>8. CASE p \in P
      <4>1. PICK k \in 1 .. m : from[k] <= p /\ p <= to[k]
        BY <1>1, <3>8
      <4>2. from[k] \in 1 .. n /\ k \in Nat
        BY <1>1
      <4>3. a <= k
        <5> SUFFICES ASSUME k < a PROVE FALSE
          BY <3>6, <4>2
        <5>1. to[k] < u /\ to[k] \in 1 .. n
          BY <1>0, <1>1, <1>16
        <5> QED BY <1>0, <1>7, <3>2, <4>1, <5>1
      <4>4. k <= b
        <5> SUFFICES ASSUME b < k PROVE FALSE
          BY <3>6, <4>2
        <5>1. v < from[k]
          BY <1>0, <1>1, <1>16
        <5> QED BY <1>0, <1>7, <3>2, <4>1, <4>2, <5>1
      <4>5. k \in S /\ from[k] = p
        <5>1. k \in a .. b
          BY <3>6, <4>2, <4>3, <4>4
        <5>2. k \in S /\ to[k] = from[k]
          BY <1>2, <1>4, <5>1
        <5> QED BY <3>2, <4>1, <4>2, <5>2
      <4>6. q < k
        <5>1. CASE q < a
          BY <3>6, <4>2, <4>3, <5>1
        <5>2. CASE ~ (q < a)
          <6>1. q \in 1 .. m /\ from[q] <= p - 1
            BY <1>0, <3>4, <3>6, <5>2
          <6>2. from[q] \in 1 .. n
            BY <1>1, <6>1
          <6>3. q # k
            BY <3>2, <4>5, <6>1, <6>2
          <6>4. ~ (k < q)
            <7> SUFFICES ASSUME k < q PROVE FALSE
              OBVIOUS
            <7>1. from[k] < from[q]
              BY <1>1, <6>1
            <7> QED BY <3>2, <4>5, <6>1, <6>2, <7>1
          <6> QED BY <3>6, <4>2, <6>3, <6>4
        <5> QED BY <5>1, <5>2
      <4>7. q # b /\ q + 1 \in 1 .. m /\ q + 1 <= k /\ from[q + 1] > p - 1
        BY <1>0, <3>5, <3>6, <4>2, <4>3, <4>4, <4>6
      <4>8. k = q + 1
        <5> SUFFICES ASSUME q + 1 < k PROVE FALSE
          BY <3>6, <4>2, <4>7
        <5>1. from[q + 1] < from[k]
          BY <1>1, <4>7
        <5>2. from[q + 1] \in 1 .. n
          BY <1>1, <4>7
        <5> QED BY <3>2, <4>5, <4>7, <5>1, <5>2
      <4>9. L[i + 1] = I(q + 1)
        <5>1. raw[k][1] = low[p] /\ low[p] \in Letters
          BY <1>1, <1>3, <3>8, <4>5
        <5>2. q \in (a - 1) .. (m - 1)
          BY <1>0, <3>6, <4>4, <4>8
        <5>3. Append(I(q), raw[q + 1][1]) = I(q + 1)
          BY <1>5, <5>2
        <5> QED BY <3>1, <3>7, <4>8, <5>1, <5>3
      <4>10. At(q + 1, p)
        <5>1. from[q + 1] <= p
          BY <3>2, <4>5, <4>8
        <5>2. q + 1 = b \/ from[(q + 1) + 1] > p
          <6> SUFFICES ASSUME q + 1 # b PROVE from[(q + 1) + 1] > p
            OBVIOUS
          <6>1. (q + 1) + 1 \in 1 .. m /\ k < (q + 1) + 1
            BY <1>0, <3>6, <4>4, <4>7, <4>8
          <6>2. from[k] < from[(q + 1) + 1] /\ from[(q + 1) + 1] \in 1 .. n
            BY <1>1, <6>1
          <6> QED BY <3>2, <4>5, <6>2
        <5> QED BY <5>1, <5>2 DEF At
      <4>11. q + 1 \in (a - 1) .. b
        BY <3>6, <4>4, <4>8
      <4> QED BY <3>2, <4>9, <4>10, <4>11
    <3>9. CASE p \notin P
      <4>1. low[p] \notin Letters
        BY <1>3, <3>2, <3>9
      <4>2. L[i + 1] = I(q)
        BY <3>1, <3>7, <4>1
      <4>3. At(q, p)
        <5>1. q < a \/ from[q] <= p
          <6> SUFFICES ASSUME ~ (q < a) PROVE from[q] <= p
            OBVIOUS
          <6>1. q \in 1 .. m
            BY <1>0, <3>6
          <6>2. from[q] \in 1 .. n /\ from[q] <= p - 1
            BY <1>1, <3>4, <6>1
          <6> QED BY <3>2, <6>2
        <5>2. q = b \/ from[q + 1] > p
          <6> SUFFICES ASSUME q # b PROVE from[q + 1] > p
            OBVIOUS
          <6>1. q + 1 \in 1 .. m
            BY <1>0, <3>6
          <6>2. from[q + 1] \in 1 .. n /\ from[q + 1] \in P /\ from[q + 1] > p - 1
            BY <1>1, <3>5, <6>1
          <6>3. from[q + 1] # p
            BY <3>9, <6>2
          <6> QED BY <3>2, <6>2, <6>3
        <5> QED BY <5>1, <5>2 DEF At
      <4> QED BY <3>2, <4>2, <4>3
    <3> QED BY <3>8, <3>9
  <2> HIDE DEF U, N
  <2> QED BY <1>10, <2>1, <2>2, Upward
<1>12. PICK q \in (a - 1) .. b : At(q, u + N - 1) /\ L[N] = I(q)
  <2> HIDE DEF At
  <2>1. N \in 0 .. N
    BY <1>10
  <2>2. N \in U
    BY <1>11, <2>1
  <2> QED BY <2>2
<1>13. q = b
  <2> SUFFICES ASSUME q # b PROVE FALSE
    OBVIOUS
  <2>1. q + 1 \in 1 .. m /\ (q + 1 = b \/ q + 1 < b)
    BY <1>0
  <2>2. from[q + 1] > v
    BY <1>10, <1>12
  <2>3. from[q + 1] \in 1 .. n /\ (from[q + 1] = v \/ from[q + 1] < v)
    BY <1>0, <1>1, <1>16, <2>1
  <2> QED BY <1>0, <1>7, <2>2, <2>3
<1> QED BY <1>8, <1>12, <1>13 DEF s, L, I, u, v, a, b

(* A part of a text in lower case is in lower case. *)
LEMMA PartInLowerCase ==
  ASSUME NEW S, NEW text \in Seq(S), NEW m \in 1 .. Len(text), NEW n \in 1 .. Len(text), m <= n
  PROVE  ToLower(SubSeq(ToLower(text), m, n)) = SubSeq(ToLower(text), m, n)
<1> DEFINE C == {Lower(c) : c \in S}
           low == ToLower(text)
           s == SubSeq(low, m, n)
           N == n - m + 1
<1>1. \A c : Lower(Lower(c)) = Lower(c)
  BY ScannerAssumption DEF Lower
<1>2. (\A c \in S : Lower(c) \in C) /\ (\A c \in C : Lower(c) = c)
  BY <1>1
<1> HIDE DEF C
<1>3. low \in Seq(C) /\ Len(low) = Len(text) /\ Len(text) \in Nat
  BY <1>2, ToLowerProperties, LenProperties
<1> HIDE DEF low
<1>4. m \in 1 .. Len(low) + 1 /\ n \in 0 .. Len(low) /\ m <= n + 1
  BY <1>3
<1>5. s \in Seq(C) /\ Len(s) = N
  BY <1>3, <1>4, Part
<1> HIDE DEF s
<1>6. /\ ToLower(s) \in Seq(C) /\ Len(ToLower(s)) = Len(s)
      /\ \A i \in 1 .. Len(s) : ToLower(s)[i] = Lower(s[i])
  <2>1. \A c \in C : Lower(c) \in C
    BY <1>2
  <2> QED BY <1>5, <2>1, ToLowerProperties
<1>7. \A i \in 1 .. Len(s) : s[i] \in C
  BY <1>5, ElementOfSeq
<1>8. \A i \in 1 .. Len(s) : ToLower(s)[i] = s[i]
  BY <1>2, <1>6, <1>7
<1>9. ToLower(s) = s
  BY <1>5, <1>6, <1>8, SeqEqual
<1> QED BY <1>9 DEF s, low

(* What the letters of a stretch of single ones spell. *)
LEMMA StretchIsSpelled ==
  ASSUME NEW S, NEW text \in Seq(S), NEW from, NEW to,
         Closed(ToLower(text), RawTokens(text), from, to, Len(text)),
         NEW r \in Stretches(Singles(RawTokens(text)))
  PROVE  OnlyLetters(SubSeq(ToLower(text), from[r[1]], from[r[2]])) = Initials(RawTokens(text), r[1], r[2])
<1> DEFINE C == {Lower(c) : c \in S}
           low == ToLower(text)
           raw == RawTokens(text)
           u == from[r[1]]
           v == from[r[2]]
           s == SubSeq(low, u, v)
<1>1. \A c \in S : Lower(c) \in C
  OBVIOUS
<1> HIDE DEF C
<1>2. low \in Seq(C) /\ Len(low) = Len(text)
  BY <1>1, ToLowerProperties
<1>3. raw \in Seq(Seq(Letters)) /\ Closed(low, raw, from, to, Len(low))
  BY <1>2, RawTokensAreClosed
<1>4. r \in Stretches(Singles(raw))
  OBVIOUS
<1> HIDE DEF low, raw
<1>5. u \in 1 .. Len(low) /\ v \in 1 .. Len(low) /\ u <= v
  <2>1. Lies(low, raw, from, to)
    BY <1>2, <1>3, ClosedLies
  <2>2. r[1] \in Singles(raw) /\ r[2] \in Singles(raw) /\ r[1] <= r[2]
    BY <1>4 DEF Stretches
  <2>3. r[1] \in 1 .. Len(raw) /\ r[2] \in 1 .. Len(raw)
    BY <2>1, <2>2 DEF Lies, Singles
  <2> DEFINE a == r[1]
             b == r[2]
  <2>4. a \in 1 .. Len(raw) /\ b \in 1 .. Len(raw) /\ a <= b /\ u = from[a] /\ v = from[b]
    BY <2>2, <2>3
  <2> HIDE DEF a, b, u, v
  <2>5. a = b \/ a < b
    BY <2>4
  <2>6. u \in 1 .. Len(low) /\ v \in 1 .. Len(low) /\ Len(low) \in Nat
    BY <2>1, <2>4 DEF Lies
  <2>7. a < b => u < v
    BY <2>1, <2>4 DEF Lies
  <2> QED BY <2>4, <2>5, <2>6, <2>7
<1>6. s \in Seq(C) /\ Lettered(s)[Len(s)] = Initials(raw, r[1], r[2])
  BY <1>2, <1>3, <1>4, StretchSpells
<1>7. ToLower(s) = s
  <2> HIDE DEF u, v
  <2>1. u \in 1 .. Len(text) /\ v \in 1 .. Len(text)
    BY <1>2, <1>5
  <2> QED BY <1>5, <2>1, PartInLowerCase DEF low
<1>8. OnlyLetters(s) = Initials(raw, r[1], r[2])
  <2> HIDE DEF s
  <2> QED BY <1>6, <1>7 DEF OnlyLetters
<1> QED BY <1>8 DEF s, low, raw

(* The tokens are what the text says. *)
LEMMA TokensAreSaid ==
  ASSUME NEW S, NEW text \in Seq(S)
  PROVE  tokeniseWestern(text) = Says(text)
<1> DEFINE C == {Lower(c) : c \in S}
           low == ToLower(text)
           raw == RawTokens(text)
           single == Singles(raw)
           said == Range(raw)
           Spelt(i) == OnlyLetters(SubSeq(low, Least(Together(low, i)), Greatest(Together(low, i))))
           J(r) == Initials(raw, r[1], r[2])
<1>1. \A c \in S : Lower(c) \in C
  OBVIOUS
<1> HIDE DEF C
<1>2. low \in Seq(C) /\ Len(low) = Len(text)
  BY <1>1, ToLowerProperties
<1>3. raw \in Seq(Seq(Letters)) /\ \E from, to : Closed(low, raw, from, to, Len(text))
  BY RawTokensAreClosed
<1>4. PICK from, to : Closed(low, raw, from, to, Len(text))
  BY <1>3
<1>5. Closed(low, raw, from, to, Len(low))
  BY <1>2, <1>4
<1>6. said = {SubSeq(low, r[1], r[2]) : r \in Stretches(Places(low))}
  <2> HIDE DEF low, raw
  <2> QED BY <1>2, <1>3, <1>5, WordsAreStretches
<1>7. tokeniseWestern(text) = said \cup {J(r) : r \in {s \in Stretches(single) : s[1] < s[2]}}
  BY DEF tokeniseWestern, Singles, Initials
<1>8. Says(text) = said \cup {Spelt(i) : i \in Alone(low)}
  <2>1. Says(text) = {SubSeq(low, r[1], r[2]) : r \in Stretches(Places(low))} \cup {Spelt(i) : i \in Alone(low)}
    BY DEF Says, Places, Alone, Among, Together
  <2> QED BY <1>6, <2>1
<1>9. ASSUME NEW r \in Stretches(single), NEW k \in r[1] .. r[2] PROVE Spelt(from[k]) = J(r)
  <2>1. Least(Together(low, from[k])) = from[r[1]] /\ Greatest(Together(low, from[k])) = from[r[2]]
    <3> HIDE DEF low, raw
    <3> QED BY <1>2, <1>3, <1>5, TogetherIsStretch
  <2>2. OnlyLetters(SubSeq(low, from[r[1]], from[r[2]])) = J(r)
    BY <1>4, StretchIsSpelled
  <2> QED BY <2>1, <2>2
<1>10. Lies(low, raw, from, to)
  <2> HIDE DEF low, raw
  <2> QED BY <1>2, <1>3, <1>5, ClosedLies
<1>11. /\ \A k \in 1 .. Len(raw) : k \in single <=> to[k] = from[k]
       /\ \A k \in 1 .. Len(raw) : k \in single <=> from[k] \in Alone(low)
       /\ \A i \in Alone(low) : \E k \in single : from[k] = i
  <2> HIDE DEF low, raw
  <2> QED BY <1>2, <1>3, <1>5, AloneAreSingles
<1>12. single \subseteq 1 .. Len(raw) /\ Len(raw) \in Nat
  <2> HIDE DEF low, raw
  <2> QED BY <1>10 DEF Lies, Singles
<1> HIDE DEF low, raw, said, single, Spelt
<1>13. ASSUME NEW i \in Alone(low) PROVE \E r \in Stretches(single) : Spelt(i) = J(r)
  <2>1. PICK k \in single : from[k] = i
    BY <1>11
  <2>2. PICK r \in Stretches(single) : r[1] <= k /\ k <= r[2]
    BY <1>12, StretchAround
  <2>3. r[1] \in single /\ r[2] \in single
    BY DEF Stretches
  <2> DEFINE a == r[1]
             b == r[2]
  <2>4. a \in 1 .. Len(raw) /\ b \in 1 .. Len(raw) /\ k \in 1 .. Len(raw) /\ a <= k /\ k <= b
    BY <1>12, <2>2, <2>3
  <2> HIDE DEF a, b
  <2>5. k \in a .. b
    BY <1>12, <2>4
  <2> QED BY <1>9, <2>1, <2>5 DEF a, b
<1>14. ASSUME NEW r \in Stretches(single)
       PROVE  r[1] \in r[1] .. r[2] /\ from[r[1]] \in Alone(low)
  <2>1. r[1] \in single /\ r[2] \in single /\ r[1] <= r[2] /\ r[1] .. r[2] \subseteq single
    BY DEF Stretches
  <2> DEFINE a == r[1]
             b == r[2]
  <2>2. a \in 1 .. Len(raw) /\ b \in 1 .. Len(raw) /\ a <= b /\ a \in single
    BY <1>12, <2>1
  <2> HIDE DEF a, b
  <2>3. a \in a .. b
    BY <1>12, <2>2
  <2>4. from[a] \in Alone(low)
    BY <1>11, <2>2
  <2> QED BY <2>3, <2>4 DEF a, b
<1>15. ASSUME NEW r \in Stretches(single), ~ (r[1] < r[2]) PROVE J(r) \in said
  <2> DEFINE a == r[1]
             b == r[2]
             w == raw[a]
  <2>1. a \in single /\ b \in single /\ a <= b /\ ~ (a < b) /\ J(r) = Initials(raw, a, b)
    BY <1>15 DEF Stretches
  <2> HIDE DEF a, b, J
  <2>2. a \in 1 .. Len(raw) /\ b \in 1 .. Len(raw) /\ b = a
    BY <1>12, <2>1
  <2>3. J(r) = [n \in 1 .. (a - a + 1) |-> raw[a + n - 1][1]]
    BY <2>1, <2>2 DEF Initials
  <2>4. w \in Seq(Letters) /\ Len(w) = 1
    <3>1. Len(w) = 1
      BY <2>1 DEF single, Singles
    <3> QED BY <1>3, <2>2, <3>1, ElementOfSeq
  <2>5. 1 .. (a - a + 1) = 1 .. 1 /\ \A n \in 1 .. 1 : n = 1 /\ a + n - 1 = a
    BY <1>12, <2>2
  <2>6. J(r) = [n \in 1 .. 1 |-> w[n]]
    BY <2>3, <2>5
  <2>7. w = [n \in 1 .. 1 |-> w[n]]
    <3> HIDE DEF w
    <3> QED BY <2>4
  <2>8. w \in said
    BY <1>10, <2>2 DEF said, Range, Lies
  <2> QED BY <2>6, <2>7, <2>8
<1>16. ASSUME NEW r \in Stretches(single) PROVE \E i \in Alone(low) : Spelt(i) = J(r)
  BY <1>9, <1>14
<1> DEFINE R == Stretches(single)
           A == Alone(low)
           Rs == {s \in R : s[1] < s[2]}
<1>17. /\ \A i \in A : \E r \in R : Spelt(i) = J(r)
       /\ \A r \in R : \E i \in A : Spelt(i) = J(r)
       /\ \A r \in R : r \in Rs \/ J(r) \in said
       /\ Rs \subseteq R
  BY <1>13, <1>15, <1>16
<1>18. said \cup {J(r) : r \in Rs} = said \cup {Spelt(i) : i \in A}
  <2> HIDE DEF R, Rs, A, J
  <2> QED BY <1>17
<1> QED BY <1>7, <1>8, <1>18

(* A token has letters only, and at least one. *)
LEMMA TokensAreWords ==
  ASSUME NEW S, NEW text \in Seq(S)
  PROVE  tokeniseWestern(text) \subseteq Seq(Letters) \ {<<>>}
<1> DEFINE C == {Lower(c) : c \in S}
           low == ToLower(text)
           raw == RawTokens(text)
           single == Singles(raw)
<1>1. \A c \in S : Lower(c) \in C
  OBVIOUS
<1> HIDE DEF C
<1>2. low \in Seq(C) /\ Len(low) = Len(text)
  BY <1>1, ToLowerProperties
<1>3. raw \in Seq(Seq(Letters)) /\ \E from, to : Closed(low, raw, from, to, Len(text))
  BY RawTokensAreClosed
<1>4. PICK from, to : Closed(low, raw, from, to, Len(low))
  BY <1>2, <1>3
<1>5. tokeniseWestern(text) =
        Range(raw) \cup {Initials(raw, r[1], r[2]) : r \in {s \in Stretches(single) : s[1] < s[2]}}
  BY DEF tokeniseWestern, Singles, Initials
<1> HIDE DEF low, raw
<1>6. Lies(low, raw, from, to)
  BY <1>2, <1>3, <1>4, ClosedLies
<1>7. /\ Len(raw) \in Nat /\ DOMAIN raw = 1 .. Len(raw)
      /\ \A k \in 1 .. Len(raw) : raw[k] \in Seq(Letters) /\ raw[k] # <<>> /\ raw[k][1] \in Letters
  <2>1. Len(raw) \in Nat /\ DOMAIN raw = 1 .. Len(raw)
    BY <1>6 DEF Lies
  <2>2. ASSUME NEW k \in 1 .. Len(raw)
        PROVE  raw[k] \in Seq(Letters) /\ raw[k] # <<>> /\ raw[k][1] \in Letters
    <3> DEFINE w == raw[k]
               u == from[k]
               v == to[k]
    <3>1. Len(w) = v - u + 1 /\ u \in 1 .. Len(low) /\ v \in 1 .. Len(low) /\ u <= v /\ Len(low) \in Nat
      BY <1>6 DEF Lies
    <3>2. w \in Seq(Letters)
      BY <1>3, ElementOfSeq
    <3> HIDE DEF w, u, v
    <3>3. Len(w) >= 1 /\ Len(w) \in Nat
      BY <3>1
    <3>4. 1 \in 1 .. Len(w) /\ w # <<>>
      BY <3>2, <3>3, EmptySeq
    <3>5. w[1] \in Letters
      BY <3>2, <3>4, ElementOfSeq
    <3> QED BY <3>2, <3>4, <3>5 DEF w
  <2> QED BY <2>1, <2>2
<1>8. Range(raw) \subseteq Seq(Letters) \ {<<>>}
  BY <1>7 DEF Range
<1>9. ASSUME NEW r \in Stretches(single), r[1] < r[2]
      PROVE  Initials(raw, r[1], r[2]) \in Seq(Letters) \ {<<>>}
  <2> DEFINE a == r[1]
             b == r[2]
             x == Initials(raw, a, b)
  <2>1. a \in single /\ b \in single /\ a < b
    BY <1>9 DEF Stretches
  <2>2. a \in 1 .. Len(raw) /\ b \in 1 .. Len(raw)
    BY <1>7, <2>1 DEF Singles
  <2> HIDE DEF a, b
  <2>3. b \in (a - 1) .. Len(raw)
    BY <1>7, <2>1, <2>2
  <2>4. \A k \in 1 .. Len(raw) : raw[k][1] \in Letters
    BY <1>7
  <2>5. x \in Seq(Letters) /\ Len(x) = b - a + 1
    BY <1>3, <2>2, <2>3, <2>4, InitialsStep
  <2> HIDE DEF x
  <2>6. Len(x) # 0
    BY <1>7, <2>1, <2>2, <2>5
  <2> QED BY <2>5, <2>6, EmptySeq DEF x, a, b
<1> QED BY <1>5, <1>8, <1>9

----------------------------------------------------------------------------
(***************************************************************************)
(* What is found and what is blocked, by the list in force.                *)
(***************************************************************************)

(* The scanner finds a message just when it says a word of the list. *)
LEMMA MessageIsFound ==
  ASSUME NEW list \in SUBSET Words, NEW S, NEW t \in Seq(S)
  PROVE  ScanMessage(t, "en", {Spelled[w] : w \in list})
         <=> Says(t) \cap UNION {Misspelt(OnlyLetters(Spelled[w])) : w \in list} # {}
<1> DEFINE T == tokeniseWestern(t)
           Only(w) == OnlyLetters(Spelled[w])
           Matches(token, bw) ==
             \/ token = bw
             \/ /\ Len(token) - Len(bw) <= maxEditDistance(Len(bw))
                /\ Len(bw) - Len(token) <= maxEditDistance(Len(bw))
                /\ levenshtein(token, bw) <= maxEditDistance(Len(bw))
<1>1. T \subseteq Seq(Letters) \ {<<>>} /\ Says(t) = T
  BY TokensAreWords, TokensAreSaid
<1>2. ASSUME NEW w \in list PROVE Only(w) \in Seq(Letters)
  <2>1. Spelled[w] \in Seq(Symbols \cup HostChars)
    BY ScanAssumption
  <2> QED BY <2>1, OnlyLettersType
<1>3. ScanMessage(t, "en", {Spelled[w] : w \in list})
      <=> \E token \in T : \E w \in list : Only(w) # <<>> /\ Matches(token, Only(w))
  <2>1. {OnlyLetters(raw) : raw \in {Spelled[w] : w \in list}} = {Only(w) : w \in list}
    OBVIOUS
  <2>2. ScanMessage(t, "en", {Spelled[w] : w \in list})
        <=> \E token \in T :
              \E bw \in {OnlyLetters(raw) : raw \in {Spelled[w] : w \in list}} \ {<<>>} : Matches(token, bw)
    BY DEF ScanMessage, MatchesEnglish
  <2> HIDE DEF T, Only, Matches
  <2> QED BY <2>1, <2>2
<1>4. ASSUME NEW token \in T, NEW w \in list
      PROVE  Only(w) # <<>> /\ Matches(token, Only(w)) <=> token \in Misspelt(Only(w))
  <2> DEFINE bw == Only(w)
  <2>1. token \in Seq(Letters) /\ token # <<>> /\ bw \in Seq(Letters)
    BY <1>1, <1>2
  <2> HIDE DEF bw, T, Only
  <2>2. Matches(token, bw) <=> token \in Misspelt(bw)
    BY <2>1, MatchIsMisspelt
  <2>3. bw = <<>> => token \notin Misspelt(bw)
    <3> SUFFICES ASSUME bw = <<>> PROVE token \notin Misspelt(bw)
      OBVIOUS
    <3>1. Len(bw) < ShortWord /\ ~ (Len(bw) >= ShortWord)
      BY ScannerAssumption, EmptySeq
    <3>2. Misspelt(bw) = {bw}
      BY <3>1 DEF Misspelt
    <3> QED BY <2>1, <3>2
  <2> QED BY <2>2, <2>3 DEF bw
<1> HIDE DEF T, Only, Matches
<1>5. ScanMessage(t, "en", {Spelled[w] : w \in list})
      <=> \E token \in T : \E w \in list : token \in Misspelt(Only(w))
  BY <1>3, <1>4
<1>6. T \cap UNION {Misspelt(Only(w)) : w \in list} # {}
      <=> \E token \in T : \E w \in list : token \in Misspelt(Only(w))
  OBVIOUS
<1> QED BY <1>1, <1>5, <1>6 DEF Only

(* The messages that are found by a list are those that are bad by it. *)
THEOREM FoundAreBad ==
  ASSUME NEW list \in SUBSET Words
  PROVE  Found(list) = Bad(list)
<1>1. ASSUME NEW t \in Texts PROVE t \in Seq(Symbols)
  <2>1. PICK m \in 0 .. MaxText : t \in [1 .. m -> Symbols]
    BY DEF Texts, SeqOf
  <2>2. m \in Nat
    BY ScanAssumption
  <2> QED BY <2>1, <2>2, SeqDef
<1>2. ASSUME NEW t \in Texts
      PROVE  ScanMessage(t, "en", {Spelled[w] : w \in list})
             <=> Says(t) \cap UNION {Misspelt(OnlyLetters(Spelled[w])) : w \in list} # {}
  BY <1>1, MessageIsFound
<1> QED BY <1>2 DEF Found, Bad

(* The lists in force find the messages they mean. *)
LEMMA WordsFollow == (TypeOK /\ CachedIsCurrent) => BadWordsAreFound
<1> SUFFICES ASSUME TypeOK, CachedIsCurrent, NEW i \in Instances, NEW list \in cached[i], InForce(i)
             PROVE  <<list, words, TRUE>> \in FoundIsBad
  BY DEF BadWordsAreFound
<1>1. list = words
  BY DEF CachedIsCurrent, InForce
<1>2. words \in SUBSET Words
  BY DEF TypeOK
<1>3. Found(words) = Bad(words)
  BY <1>2, FoundAreBad
<1>4. <<words, words, Found(words) = Bad(words)>> \in FoundIsBad
  <2> DEFINE done == {<<l, Found(l)>> : l \in SUBSET Words}
             meant == {<<l, Bad(l)>> : l \in SUBSET Words}
             p == <<words, Found(words)>>
             q == <<words, Bad(words)>>
  <2>1. p \in done /\ q \in meant
    BY <1>2
  <2>2. FoundIsBad = {<<s[1], r[1], s[2] = r[2]>> : s \in done, r \in meant}
    BY DEF FoundIsBad, Judgements
  <2>3. <<p[1], q[1], p[2] = q[2]>> \in FoundIsBad
    <3> HIDE DEF p, q, done, meant
    <3> QED BY <2>1, <2>2
  <2> QED BY <2>3
<1> QED
  BY <1>1, <1>3, <1>4

(* While its cached list is in force, an instance lets a link through if its *)
(* host is a domain of the table's list or below one, and no other link.     *)
THEOREM LinksJudged == Spec => []LinksAreJudged
<1>1. ListInv => LinksAreJudged
  BY LinksFollow DEF ListInv
<1> QED
  BY <1>1, ListInvariant, PTL

(* While its cached list is in force, an instance finds just the messages   *)
(* that say a word of the table's list.                                     *)
THEOREM WordsFound == Spec => []BadWordsAreFound
<1>1. ListInv => BadWordsAreFound
  BY WordsFollow DEF ListInv
<1> QED
  BY <1>1, ListInvariant, PTL
=============================================================================
