------------------------ MODULE GroupSettingsProofs ------------------------
(***************************************************************************)
(* The safety of GroupSettings, for every set of settings, instances and   *)
(* handlers and every mix of changes, failing calls and crashes.           *)
(***************************************************************************)
EXTENDS GroupSettings, TLAPS

(* A change of a setting yields settings. *)
LEMMA FlipType ==
  ASSUME NEW s \in Settings, NEW f
  PROVE  Flip(s, f) \in Settings
BY Zenon DEF Flip, Settings

(* What the start of an instance makes of the row and of intended. *)
LEMMA UpgradedType ==
  ASSUME NEW s
  PROVE  Upgraded(s) \in Settings
BY Zenon DEF Upgraded, Settings

(* The defaults are settings. *)
LEMMA DefaultsType == Defaults \in Settings
BY DEF Defaults, Settings

(* What a handler may be doing. *)
Doing == [at : {"idle", "insert", "select", "fill", "update", "store"},
          want : Wants, cfg : Settings]

(* The handlers keep their type when one of them begins or moves on. *)
LEMMA BeginType ==
  ASSUME TypeOK, NEW h \in Handlers, NEW s \in Settings, NEW want \in Wants,
         NEW step \in {"insert", "select", "fill", "update", "store"},
         Begin(h, step, want, s)
  PROVE  /\ handler' \in [Handlers -> Doing]
         /\ handler'[h].at = step /\ handler'[h].cfg = s /\ handler'[h].want = want
         /\ \A g \in Handlers : g # h => handler'[g] = handler[g]
<1>1. handler \in [Handlers -> Doing]
  BY DEF TypeOK, Doing
<1>2. [at |-> step, want |-> want, cfg |-> s] \in Doing
  BY DEF Doing
<1>3. handler' = [handler EXCEPT ![h] = [at |-> step, want |-> want, cfg |-> s]]
  BY DEF Begin
<1> QED
  BY <1>1, <1>2, <1>3

(* And when one of them is done. *)
LEMMA QuitType ==
  ASSUME TypeOK, NEW h \in Handlers, Quit(h)
  PROVE  /\ handler' \in [Handlers -> Doing]
         /\ handler'[h].at = "idle"
         /\ \A g \in Handlers : g # h => handler'[g] = handler[g]
<1>1. handler \in [Handlers -> Doing]
  BY DEF TypeOK, Doing
<1>2. Idle \in Doing /\ Idle.at = "idle"
  BY DefaultsType DEF Idle, Wants, Doing
<1> QED
  BY <1>1, <1>2 DEF Quit

(* The group is well typed at first, with a row or without. *)
LEMMA TypeInit == Init => TypeOK
<1>1. Idle \in Doing
  BY DefaultsType DEF Idle, Wants, Doing
<1> SUFFICES ASSUME Init PROVE TypeOK
  OBVIOUS
<1>2. /\ row \in {{}} \cup {{s} : s \in Settings} /\ committed \subseteq Settings
      /\ legacy \subseteq Fields
  BY DefaultsType, SettingsAssumption DEF Init
<1>3. handler \in [Handlers -> Doing]
  BY <1>1 DEF Init
<1>4. cached \in [Instances -> {{}} \cup {{s} : s \in Settings}]
  BY DEF Init
<1> QED
  BY <1>2, <1>3, <1>4, DefaultsType DEF Init, TypeOK, Doing

(* Every step keeps the types: one case per action. *)
LEMMA TypeStep == TypeOK /\ [Next]_vars => TypeOK'
<1> SUFFICES ASSUME TypeOK, [Next]_vars PROVE TypeOK'
  OBVIOUS
<1>0. /\ handler \in [Handlers -> Doing]
      /\ \A s \in row : s \in Settings /\ row = {s}
      /\ \A i \in Instances : \A s \in cached[i] : s \in Settings
      /\ \A h \in Handlers : handler[h].cfg \in Settings /\ handler[h].want \in Wants
  BY DEF TypeOK, Doing
<1> USE DEF history, Stable, NoFault, Fault
<1>1. ASSUME NEW i \in Instances, Start(i) PROVE TypeOK'
  <2>1. row' \in {{}} \cup {{s} : s \in Settings}
    <3>1. CASE row = {}
      BY <1>1, <3>1 DEF Start
    <3>2. CASE row # {}
      <4>1. PICK s \in row : row = {s}
        BY <1>0, <3>2
      <4>2. row' = {Upgraded(s)}
        BY <1>1, <4>1 DEF Start
      <4> QED
        BY <4>2, UpgradedType
    <3> QED
      BY <3>1, <3>2
  <2>2. committed' \subseteq Settings
    BY <1>1, <2>1 DEF Start, TypeOK
  <2>3. intended' \in Settings
    BY <1>1, UpgradedType DEF Start, TypeOK
  <2>4. crossed' \in BOOLEAN
    BY <1>1, Zenon DEF Start, TypeOK
  <2> QED
    BY <1>1, <2>1, <2>2, <2>3, <2>4 DEF Start, TypeOK
<1>2. ASSUME NEW i \in Instances, Crash(i) PROVE TypeOK'
  <2>1. Idle \in Doing
    BY DefaultsType DEF Idle, Wants, Doing
  <2>2. handler' \in [Handlers -> Doing]
    BY <1>0, <1>2, <2>1 DEF Crash
  <2> QED
    BY <1>2, <2>2 DEF Crash, TypeOK, Doing
<1>3. ASSUME NEW h \in Handlers, NEW f \in Fields, BeginChange(h, f) PROVE TypeOK'
  <2>1. [kind |-> "change", field |-> f] \in Wants
    BY DEF Wants
  <2>2. handler' \in [Handlers -> Doing]
    <3>1. CASE \E s \in cached[h[1]] : Begin(h, "update", [kind |-> "change", field |-> f], s)
      BY <1>0, <2>1, <3>1, BeginType DEF Handlers
    <3>2. CASE Begin(h, "insert", [kind |-> "change", field |-> f], handler[h].cfg)
      BY <1>0, <2>1, <3>2, BeginType
    <3> QED
      BY <1>3, <3>1, <3>2 DEF BeginChange
  <2>3. crossed' \in BOOLEAN
    BY <1>3, Zenon DEF BeginChange, TypeOK
  <2> QED
    BY <1>3, <2>2, <2>3 DEF BeginChange, TypeOK, Doing
<1>4. ASSUME NEW h \in Handlers, BeginRead(h) PROVE TypeOK'
  <2>1. [kind |-> "read"] \in Wants /\ [kind |-> "peek"] \in Wants
    BY DEF Wants
  <2>2. handler' \in [Handlers -> Doing]
    BY <1>0, <1>4, <2>1, BeginType DEF BeginRead
  <2> QED
    BY <1>4, <2>2 DEF BeginRead, TypeOK, Doing
<1>5. ASSUME NEW h \in Handlers, Insert(h) PROVE TypeOK'
  <2>1. handler' \in [Handlers -> Doing]
    BY <1>0, <1>5, BeginType, QuitType DEF Insert, Go
  <2>2. row' \in {{}} \cup {{s} : s \in Settings} /\ committed' \subseteq Settings
    BY <1>5, DefaultsType DEF Insert, Commit, TypeOK
  <2> QED
    BY <1>5, <2>1, <2>2 DEF Insert, TypeOK, Doing
<1>6. ASSUME NEW h \in Handlers, Select(h) PROVE TypeOK'
  <2>1. handler' \in [Handlers -> Doing]
    BY <1>0, <1>6, BeginType, QuitType DEF Select, Go
  <2> QED
    BY <1>6, <2>1 DEF Select, TypeOK, Doing
<1>7. ASSUME NEW h \in Handlers, Fill(h) PROVE TypeOK'
  <2>1. handler' \in [Handlers -> Doing]
    BY <1>0, <1>7, BeginType, QuitType DEF Fill, Go
  <2>2. cached' \in [Instances -> {{}} \cup {{s} : s \in Settings}]
    BY <1>0, <1>7 DEF Fill, TypeOK
  <2> QED
    BY <1>7, <2>1, <2>2 DEF Fill, TypeOK, Doing
<1>8. ASSUME NEW h \in Handlers, Update(h) PROVE TypeOK'
  <2> DEFINE s == Flip(handler[h].cfg, handler[h].want.field)
  <2>1. s \in Settings /\ Flip(intended, handler[h].want.field) \in Settings
    BY <1>0, FlipType DEF TypeOK
  <2>2. handler' \in [Handlers -> Doing]
    BY <1>0, <1>8, <2>1, BeginType, QuitType DEF Update, Go
  <2>3. /\ row' \in {{}} \cup {{t} : t \in Settings}
        /\ committed' \subseteq Settings /\ intended' \in Settings
        /\ crossed' \in BOOLEAN
    <3> HIDE DEF s
    <3>1. \/ row' = {s} /\ committed' = committed \cup {s}
             /\ intended' = Flip(intended, handler[h].want.field)
          \/ UNCHANGED <<row, committed, intended>>
      BY <1>8 DEF Update, Commit, s
    <3>2. crossed' \in BOOLEAN
      BY <1>8, Zenon DEF Update, TypeOK, Crosses
    <3> QED
      BY <2>1, <3>1, <3>2 DEF TypeOK
  <2> QED
    BY <1>8, <2>2, <2>3 DEF Update, TypeOK, Doing
<1>9. ASSUME NEW h \in Handlers, Store(h) PROVE TypeOK'
  <2>1. handler' \in [Handlers -> Doing]
    BY <1>9, QuitType DEF Store
  <2>2. cached' \in [Instances -> {{}} \cup {{s} : s \in Settings}]
    BY <1>0, <1>9 DEF Store, TypeOK
  <2> QED
    BY <1>9, <2>1, <2>2 DEF Store, TypeOK, Doing
<1>10. CASE UNCHANGED vars
  BY <1>10 DEF vars, TypeOK
<1> QED
  BY <1>1, <1>2, <1>3, <1>4, <1>5, <1>6, <1>7, <1>8, <1>9, <1>10 DEF Next, Step

(* The row, the caches and the handlers keep their types. *)
THEOREM TypeCorrect == Spec => []TypeOK
  BY TypeInit, TypeStep, PTL DEF Spec

----------------------------------------------------------------------------
(* What keeps the caches honest: what a handler has in hand was in the      *)
(* table, and so is what the table has.                                     *)
CopyCommitted ==
  /\ row \subseteq committed
  /\ \A h \in Handlers : HasCopy(h) => handler[h].cfg \in committed

CInv == TypeOK /\ CacheWasCommitted /\ CopyCommitted

(* What a handler that begins or moves on has in hand. *)
LEMMA BeginCopy ==
  ASSUME TypeOK, NEW h \in Handlers, NEW s \in Settings, NEW want \in Wants,
         NEW step \in {"insert", "select", "fill", "update", "store"},
         Begin(h, step, want, s)
  PROVE  /\ HasCopy(h)' <=> step \in {"fill", "update", "store"}
         /\ handler'[h].cfg = s
         /\ \A g \in Handlers : g # h =>
              handler'[g] = handler[g] /\ (HasCopy(g)' <=> HasCopy(g))
BY BeginType DEF HasCopy

(* A handler that is done has nothing. *)
LEMMA QuitCopy ==
  ASSUME TypeOK, NEW h \in Handlers, Quit(h)
  PROVE  /\ ~HasCopy(h)'
         /\ \A g \in Handlers : g # h =>
              handler'[g] = handler[g] /\ (HasCopy(g)' <=> HasCopy(g))
BY QuitType DEF HasCopy

(* The four ways a save goes. *)
LEMMA UpdateEffect ==
  ASSUME TypeOK, NEW h \in Handlers, Update(h),
         NEW s, s = Flip(handler[h].cfg, handler[h].want.field)
  PROVE  /\ handler[h].at = "update" /\ s \in Settings /\ cached' = cached /\ up' = up
         /\ \/ /\ row' = {s} /\ committed' = committed \cup {s}
               /\ intended' = Flip(intended, handler[h].want.field)
               /\ \/ Go(h, "store", s) /\ crossed' = (crossed \/ Crosses(h))
                  \/ Quit(h) /\ crossed'
            \/ Quit(h) /\ UNCHANGED <<row, committed, intended, crossed>>
<1>1. s \in Settings
  BY FlipType DEF TypeOK
<1>2. handler[h].at = "update" /\ cached' = cached /\ up' = up
  BY DEF Update, Stable
<1>3. \/ /\ row' = {s} /\ committed' = committed \cup {s}
         /\ intended' = Flip(intended, handler[h].want.field)
         /\ \/ Go(h, "store", s) /\ crossed' = (crossed \/ Crosses(h))
            \/ Quit(h) /\ crossed'
      \/ Quit(h) /\ UNCHANGED <<row, committed, intended, crossed>>
  BY Zenon DEF Update, Commit, history
<1> QED
  BY <1>1, <1>2, <1>3

(* The invariant of the caches survives every step: one case per action. *)
LEMMA CStep == CInv /\ TypeOK' /\ [Next]_vars => CInv'
<1> SUFFICES ASSUME CInv, TypeOK', [Next]_vars PROVE CacheWasCommitted' /\ CopyCommitted'
  BY DEF CInv
<1>0. /\ TypeOK
      /\ \A s \in row : s \in Settings /\ s \in committed
      /\ \A i \in Instances : \A s \in cached[i] : s \in Settings /\ s \in committed
      /\ \A h \in Handlers : handler[h].cfg \in Settings /\ handler[h].want \in Wants
      /\ \A h \in Handlers : h[1] \in Instances
  BY DEF CInv, TypeOK, CacheWasCommitted, CopyCommitted, Handlers
<1> USE DEF history, Stable, NoFault, Fault
<1>1. ASSUME NEW i \in Instances, Start(i) PROVE CacheWasCommitted' /\ CopyCommitted'
  BY <1>1 DEF CInv, Start, CacheWasCommitted, CopyCommitted, HasCopy
<1>2. ASSUME NEW i \in Instances, Crash(i) PROVE CacheWasCommitted' /\ CopyCommitted'
  <2>1. \A h \in Handlers : HasCopy(h)' => HasCopy(h) /\ handler'[h] = handler[h]
    BY <1>2 DEF Crash, HasCopy, Idle
  <2>2. \A j \in Instances : cached'[j] \subseteq cached[j]
    BY <1>0, <1>2 DEF Crash, TypeOK
  <2> QED
    BY <1>2, <2>1, <2>2 DEF CInv, Crash, CacheWasCommitted, CopyCommitted
<1>3. ASSUME NEW h \in Handlers, NEW f \in Fields, BeginChange(h, f)
      PROVE  CacheWasCommitted' /\ CopyCommitted'
  <2>1. [kind |-> "change", field |-> f] \in Wants
    BY DEF Wants
  <2>2. UNCHANGED <<row, cached, committed>>
    BY <1>3 DEF BeginChange
  <2>3. \A g \in Handlers : HasCopy(g)' => handler'[g].cfg \in committed
    <3>1. CASE \E s \in cached[h[1]] : Begin(h, "update", [kind |-> "change", field |-> f], s)
      BY <1>0, <2>1, <3>1, BeginCopy DEF CInv, CopyCommitted
    <3>2. CASE Begin(h, "insert", [kind |-> "change", field |-> f], handler[h].cfg)
      BY <1>0, <2>1, <3>2, BeginCopy DEF CInv, CopyCommitted
    <3> QED
      BY <1>3, <3>1, <3>2 DEF BeginChange
  <2> QED
    BY <2>2, <2>3 DEF CInv, CacheWasCommitted, CopyCommitted
<1>4. ASSUME NEW h \in Handlers, BeginRead(h) PROVE CacheWasCommitted' /\ CopyCommitted'
  <2>1. [kind |-> "read"] \in Wants /\ [kind |-> "peek"] \in Wants
    BY DEF Wants
  <2>2. \A g \in Handlers : HasCopy(g)' => handler'[g].cfg \in committed
    BY <1>0, <1>4, <2>1, BeginCopy DEF BeginRead, CInv, CopyCommitted
  <2> QED
    BY <1>4, <2>2 DEF BeginRead, CInv, CacheWasCommitted, CopyCommitted
<1>5. ASSUME NEW h \in Handlers, Insert(h) PROVE CacheWasCommitted' /\ CopyCommitted'
  <2>1. \A g \in Handlers : HasCopy(g)' => HasCopy(g) /\ handler'[g] = handler[g]
    BY <1>0, <1>5, BeginCopy, QuitCopy DEF Insert, Go
  <2>2. committed \subseteq committed' /\ row' \subseteq committed' /\ cached' = cached
    BY <1>5 DEF Insert, Commit, CInv, CopyCommitted
  <2> QED
    BY <2>1, <2>2 DEF CInv, CacheWasCommitted, CopyCommitted
<1>6. ASSUME NEW h \in Handlers, Select(h) PROVE CacheWasCommitted' /\ CopyCommitted'
  <2>1. \A g \in Handlers : HasCopy(g)' => handler'[g].cfg \in committed
    BY <1>0, <1>6, BeginCopy, QuitCopy DEF Select, Go, CInv, CopyCommitted
  <2> QED
    BY <1>6, <2>1 DEF Select, CInv, CacheWasCommitted, CopyCommitted
<1>7. ASSUME NEW h \in Handlers, Fill(h) PROVE CacheWasCommitted' /\ CopyCommitted'
  <2>1. handler[h].cfg \in committed
    BY <1>7 DEF Fill, HasCopy, CInv, CopyCommitted
  <2>2. \A g \in Handlers : HasCopy(g)' => handler'[g].cfg \in committed
    BY <1>0, <1>7, <2>1, BeginCopy, QuitCopy DEF Fill, Go, CInv, CopyCommitted
  <2>3. \A i \in Instances : cached'[i] \subseteq committed
    BY <1>0, <1>7, <2>1 DEF Fill, TypeOK, CInv, CacheWasCommitted
  <2> QED
    BY <1>7, <2>2, <2>3 DEF Fill, CInv, CacheWasCommitted, CopyCommitted
<1>8. ASSUME NEW h \in Handlers, Update(h) PROVE CacheWasCommitted' /\ CopyCommitted'
  <2> DEFINE s == Flip(handler[h].cfg, handler[h].want.field)
  <2>1. /\ s \in Settings /\ cached' = cached
        /\ \/ row' = {s} /\ committed' = committed \cup {s} /\ (Go(h, "store", s) \/ Quit(h))
           \/ Quit(h) /\ UNCHANGED <<row, committed>>
    BY <1>0, <1>8, UpdateEffect
  <2> HIDE DEF s
  <2>2. \A g \in Handlers : HasCopy(g)' => handler'[g].cfg \in committed'
    BY <1>0, <2>1, BeginCopy, QuitCopy DEF Go, CInv, CopyCommitted
  <2> QED
    BY <2>1, <2>2 DEF CInv, CacheWasCommitted, CopyCommitted
<1>9. ASSUME NEW h \in Handlers, Store(h) PROVE CacheWasCommitted' /\ CopyCommitted'
  <2>1. handler[h].cfg \in committed
    BY <1>9 DEF Store, HasCopy, CInv, CopyCommitted
  <2>2. \A g \in Handlers : HasCopy(g)' => handler'[g].cfg \in committed
    BY <1>0, <1>9, QuitCopy DEF Store, CInv, CopyCommitted
  <2>3. \A i \in Instances : cached'[i] \subseteq committed
    BY <1>0, <1>9, <2>1 DEF Store, TypeOK, CInv, CacheWasCommitted
  <2> QED
    BY <1>9, <2>2, <2>3 DEF Store, CInv, CacheWasCommitted, CopyCommitted
<1>10. CASE UNCHANGED vars
  BY <1>10 DEF vars, CInv, CacheWasCommitted, CopyCommitted, HasCopy
<1> QED
  BY <1>1, <1>2, <1>3, <1>4, <1>5, <1>6, <1>7, <1>8, <1>9, <1>10 DEF Next, Step

(* Nothing is cached or in hand at first. *)
LEMMA CInit == Init => CInv
<1> SUFFICES ASSUME Init PROVE CacheWasCommitted /\ CopyCommitted
  BY TypeInit DEF CInv
<1> QED
  BY DEF Init, CacheWasCommitted, CopyCommitted, HasCopy, Idle

(* No cache ever holds settings that were not in the table at some time,    *)
(* whatever overlaps, fails or restarts, an old database included.          *)
THEOREM CachesWereCommitted == Spec => []CacheWasCommitted
<1>1. CInv /\ [Next]_vars => CInv'
  BY CStep, TypeStep DEF CInv
<1>2. CInv => CacheWasCommitted
  BY DEF CInv
<1> QED
  BY <1>1, <1>2, CInit, PTL DEF Spec

----------------------------------------------------------------------------
(* An instance that is down has no cache and no handlers. *)
DownIsEmpty ==
  \A i \in Instances : i \notin up =>
    /\ cached[i] = {}
    /\ \A w \in Workers : handler[<<i, w>>] = Idle

(* Steps of a handler of an instance that is up. *)
LEMMA UpStep ==
  ASSUME TypeOK, DownIsEmpty, NEW h \in Handlers, h[1] \in up,
         \A g \in Handlers : g # h => handler'[g] = handler[g],
         \A j \in Instances : j # h[1] => cached'[j] = cached[j],
         UNCHANGED up
  PROVE  DownIsEmpty'
<1> SUFFICES ASSUME NEW i \in Instances, i \notin up
             PROVE  cached'[i] = {} /\ \A w \in Workers : handler'[<<i, w>>] = Idle
  BY DEF DownIsEmpty
<1>1. i # h[1] /\ \A w \in Workers : <<i, w>> \in Handlers /\ <<i, w>> # h
  BY DEF Handlers
<1> QED
  BY <1>1 DEF DownIsEmpty

(* Whoever is at work is of an instance that is up, so that every step keeps *)
(* the instances that are down empty.                                        *)
LEMMA DownStep == TypeOK /\ DownIsEmpty /\ [Next]_vars => DownIsEmpty'
<1> SUFFICES ASSUME TypeOK, DownIsEmpty, [Next]_vars PROVE DownIsEmpty'
  OBVIOUS
<1>1. ASSUME NEW i \in Instances, Start(i) PROVE DownIsEmpty'
  BY <1>1 DEF Start, DownIsEmpty
<1>2. ASSUME NEW i \in Instances, Crash(i) PROVE DownIsEmpty'
  BY <1>2 DEF Crash, DownIsEmpty, TypeOK, Handlers
<1>3. ASSUME NEW h \in Handlers,
             BeginRead(h) \/ Step(h) \/ \E f \in Fields : BeginChange(h, f)
      PROVE  DownIsEmpty'
  <2>1. h[1] \in Instances /\ h = <<h[1], h[2]>> /\ h[2] \in Workers
    BY DEF Handlers
  <2>2. h[1] \in up
    <3>1. CASE Step(h)
      <4>1. handler[h].at # "idle"
        BY <3>1 DEF Step, Insert, Select, Fill, Update, Store
      <4> QED
        BY <2>1, <4>1 DEF DownIsEmpty, Idle
    <3>2. CASE ~Step(h)
      BY <1>3, <3>2 DEF BeginRead, BeginChange
    <3> QED
      BY <3>1, <3>2
  <2>3. \A g \in Handlers : g # h => handler'[g] = handler[g]
    BY <1>3 DEF TypeOK, Step, Insert, Select, Fill, Update, Store, BeginRead, BeginChange,
                Go, Begin, Quit
  <2>4. UNCHANGED up /\ \A j \in Instances : j # h[1] => cached'[j] = cached[j]
    BY <1>3 DEF TypeOK, Step, Insert, Select, Fill, Update, Store, BeginRead, BeginChange,
                Stable
  <2> QED
    BY <2>2, <2>3, <2>4, UpStep
<1>4. CASE UNCHANGED vars
  BY <1>4 DEF vars, DownIsEmpty
<1> QED
  BY <1>1, <1>2, <1>3, <1>4 DEF Next

(* A group without a row is as the owner would have it, and no older version *)
(* left it with block_media.                                                 *)
Unborn == row = {} => intended = Defaults /\ legacy = {}

(* A start does not touch a group that is not there, and nothing takes a row *)
(* away again.                                                               *)
LEMMA UnbornStep == Unborn /\ [Next]_vars => Unborn'
<1> SUFFICES ASSUME Unborn, [Next]_vars, row' = {}
             PROVE  intended' = Defaults /\ legacy' = {}
  BY DEF Unborn
<1>1. ASSUME NEW i \in Instances, Start(i) PROVE intended' = Defaults /\ legacy' = {}
  <2>1. row = {} /\ legacy' = legacy /\ intended' \in {intended, Upgraded(intended)}
    BY <1>1 DEF Start
  <2>2. legacy = {} /\ intended = Defaults
    BY <2>1 DEF Unborn
  <2>3. Upgraded(intended) = intended
    BY <2>2 DEF Upgraded, Defaults
  <2> QED
    BY <2>1, <2>2, <2>3
<1>2. ASSUME ~ \E i \in Instances : Start(i) PROVE UNCHANGED <<row, intended, legacy>>
  BY <1>2, Zenon DEF Next, Step, Crash, BeginChange, BeginRead, Insert, Select, Fill,
                     Update, Store, Commit, Stable, history, vars
<1> QED
  BY <1>1, <1>2 DEF Unborn

----------------------------------------------------------------------------
(* What keeps the row and the caches right as long as no change is crossed: *)
(* whoever has settings in hand has those of the row, so that writing all   *)
(* of them back changes one.                                                *)
CopyIsCurrent == \A h \in Handlers : HasCopy(h) => crossed \/ row = {handler[h].cfg}

Ground == CInv /\ DownIsEmpty /\ Unborn
SInv == Ground /\ SavesAreKept /\ CacheIsCurrent /\ CopyIsCurrent

(* Every step keeps the ground the rest stands on. *)
LEMMA GroundStep == Ground /\ [Next]_vars => Ground'
BY TypeStep, CStep, DownStep, UnbornStep DEF Ground, CInv

(* A copy in hand decides the row when nothing is crossed. *)
LEMMA UncrossedUpdate ==
  ASSUME SInv, NEW h \in Handlers, HasCopy(h), ~crossed
  PROVE  row = {handler[h].cfg} /\ intended = handler[h].cfg
BY DEF SInv, SavesAreKept, CopyIsCurrent

(* Only a save brings a handler to "store", and only the last step, or a    *)
(* crash, takes it away.                                                    *)
LEMMA StoringKept ==
  ASSUME NEW i \in Instances,
         \A h \in Handlers : handler[h].at = "store" => handler'[h].at = "store"
  PROVE  Storing(i) => Storing(i)'
BY DEF Storing, Handlers

(* The steps that change neither the row nor what is intended, nor a copy,  *)
(* a cache or a save under way but for dropping them.                       *)
LEMMA QuietStep ==
  ASSUME SInv, Ground',
         UNCHANGED <<row, intended, crossed>>,
         \A h \in Handlers : HasCopy(h)' => HasCopy(h) /\ handler'[h] = handler[h],
         \A i \in Instances : cached'[i] = {} \/
            (cached'[i] = cached[i] /\ (Storing(i) => Storing(i)'))
  PROVE  SInv'
<1>1. SavesAreKept'
  BY DEF SInv, SavesAreKept
<1>2. CopyIsCurrent'
  BY DEF SInv, CopyIsCurrent
<1>3. CacheIsCurrent'
  BY DEF SInv, CacheIsCurrent
<1> QED
  BY <1>1, <1>2, <1>3 DEF SInv

(* Every step preserves it: one case per action. *)
LEMMA SStep == SInv /\ Ground' /\ [Next]_vars => SInv'
<1> SUFFICES ASSUME SInv, Ground', [Next]_vars PROVE SInv'
  OBVIOUS
<1>0. /\ TypeOK /\ TypeOK'
      /\ \A s \in row : s \in Settings
      /\ \A i \in Instances : \A s \in cached[i] : s \in Settings /\ cached[i] = {s}
      /\ \A h \in Handlers : handler[h].cfg \in Settings /\ handler[h].want \in Wants
      /\ \A h \in Handlers : h[1] \in Instances
  BY DEF SInv, Ground, CInv, TypeOK, Handlers
<1> USE DEF history, Stable, NoFault, Fault
<1>1. ASSUME NEW i \in Instances, Start(i) PROVE SInv'
  <2>1. UNCHANGED <<cached, handler>> /\ row' = {Upgraded(s) : s \in row}
    BY <1>1 DEF Start
  <2>2. CASE crossed'
    BY <2>2 DEF SInv, SavesAreKept, CacheIsCurrent, CopyIsCurrent
  <2>3. CASE UNCHANGED <<row, intended, crossed>>
    BY <2>1, <2>3, QuietStep DEF HasCopy, Storing
  <2>4. CASE ~crossed /\ up = {} /\ intended' = Upgraded(intended)
    <3>1. crossed' \/ row' \subseteq {intended'}
      BY <2>1, <2>4 DEF SInv, SavesAreKept
    <3>2. /\ \A j \in Instances : cached'[j] = {}
          /\ \A h \in Handlers : ~HasCopy(h)'
      BY <2>1, <2>4 DEF SInv, Ground, DownIsEmpty, HasCopy, Idle, Handlers
    <3> QED
      BY <3>1, <3>2 DEF SInv, SavesAreKept, CacheIsCurrent, CopyIsCurrent
  <2>5. \/ intended' = Upgraded(intended) /\ up = {} /\ UNCHANGED crossed
        \/ crossed' = (crossed \/ row' # row) /\ UNCHANGED intended
    BY <1>1, Zenon DEF Start
  <2>6. crossed \in BOOLEAN /\ crossed' \in BOOLEAN
    BY <1>0 DEF TypeOK
  <2> QED
    BY <2>2, <2>3, <2>4, <2>5, <2>6
<1>2. ASSUME NEW i \in Instances, Crash(i) PROVE SInv'
  <2>1. \A h \in Handlers : HasCopy(h)' => HasCopy(h) /\ handler'[h] = handler[h]
    BY <1>2 DEF Crash, HasCopy, Idle
  <2>2. \A j \in Instances : cached'[j] = {} \/
           (cached'[j] = cached[j] /\ (Storing(j) => Storing(j)'))
    BY <1>0, <1>2 DEF Crash, TypeOK, Storing, Handlers
  <2> QED
    BY <1>2, <2>1, <2>2, QuietStep DEF Crash
<1>3. ASSUME NEW h \in Handlers, NEW f \in Fields, BeginChange(h, f) PROVE SInv'
  <2>1. [kind |-> "change", field |-> f] \in Wants
    BY DEF Wants
  <2>2. UNCHANGED <<row, cached, intended>> /\ handler[h].at = "idle"
    BY <1>3 DEF BeginChange
  <2>3. CASE Begin(h, "insert", [kind |-> "change", field |-> f], handler[h].cfg)
             /\ UNCHANGED crossed
    <3>1. \A g \in Handlers : HasCopy(g)' => HasCopy(g) /\ handler'[g] = handler[g]
      BY <1>0, <2>1, <2>3, BeginCopy
    <3>2. \A g \in Handlers : handler[g].at = "store" => handler'[g].at = "store"
      BY <1>0, <2>1, <2>2, <2>3, BeginCopy
    <3> QED
      BY <2>2, <2>3, <3>1, <3>2, StoringKept, QuietStep
  <2>4. CASE /\ \E s \in cached[h[1]] :
                  Begin(h, "update", [kind |-> "change", field |-> f], s)
             /\ crossed' = (crossed \/ Storing(h[1]))
    <3>1. PICK s \in cached[h[1]] : Begin(h, "update", [kind |-> "change", field |-> f], s)
      BY <2>4
    <3>2. /\ s \in Settings /\ cached[h[1]] = {s} /\ h[1] \in Instances
          /\ handler'[h].cfg = s
          /\ \A g \in Handlers : g # h =>
               handler'[g] = handler[g] /\ (HasCopy(g)' <=> HasCopy(g))
      BY <1>0, <2>1, <3>1, BeginCopy
    <3>3. crossed => crossed'
      BY <2>4
    <3>4. SavesAreKept'
      BY <2>2, <3>3 DEF SInv, SavesAreKept
    <3>5. ~crossed' => row = {s}
      <4>1. ~crossed' => cached[h[1]] \subseteq row
        BY <2>4, <3>2 DEF SInv, CacheIsCurrent
      <4> QED
        BY <1>0, <3>2, <4>1 DEF TypeOK
    <3>6. CopyIsCurrent'
      BY <2>2, <3>2, <3>3, <3>5 DEF SInv, CopyIsCurrent
    <3>7. CacheIsCurrent'
      <4>1. \A g \in Handlers : handler[g].at = "store" => handler'[g].at = "store"
        BY <2>2, <3>2
      <4> QED
        BY <2>2, <3>3, <4>1, StoringKept DEF SInv, CacheIsCurrent
    <3> QED
      BY <3>4, <3>6, <3>7 DEF SInv
  <2> QED
    BY <1>3, <2>3, <2>4 DEF BeginChange
<1>4. ASSUME NEW h \in Handlers, BeginRead(h) PROVE SInv'
  <2>1. [kind |-> "read"] \in Wants /\ [kind |-> "peek"] \in Wants
    BY DEF Wants
  <2>2. \A g \in Handlers : HasCopy(g)' => HasCopy(g) /\ handler'[g] = handler[g]
    BY <1>0, <1>4, <2>1, BeginCopy DEF BeginRead
  <2>3. \A g \in Handlers : handler[g].at = "store" => handler'[g].at = "store"
    BY <1>0, <1>4, <2>1, BeginCopy DEF BeginRead
  <2> QED
    BY <1>4, <2>2, <2>3, StoringKept, QuietStep DEF BeginRead
<1>5. ASSUME NEW h \in Handlers, Insert(h) PROVE SInv'
  <2>1. /\ \A g \in Handlers : HasCopy(g)' => HasCopy(g) /\ handler'[g] = handler[g]
        /\ \A g \in Handlers : handler[g].at = "store" => handler'[g].at = "store"
        /\ UNCHANGED <<cached, intended, crossed>>
    BY <1>0, <1>5, BeginCopy, QuitCopy DEF Insert, Go
  <2>2. CASE row' = row
    BY <2>1, <2>2, StoringKept, QuietStep
  <2>3. CASE row = {} /\ row' = {Defaults}
    <3>1. SavesAreKept'
      BY <2>1, <2>3 DEF SInv, Ground, Unborn, SavesAreKept
    <3>2. CopyIsCurrent'
      BY <2>1, <2>3 DEF SInv, CopyIsCurrent
    <3>3. CacheIsCurrent'
      BY <2>1, <2>3, StoringKept DEF SInv, CacheIsCurrent
    <3> QED
      BY <3>1, <3>2, <3>3 DEF SInv
  <2> QED
    BY <1>5, <2>2, <2>3 DEF Insert, Commit
<1>6. ASSUME NEW h \in Handlers, Select(h) PROVE SInv'
  <2>1. UNCHANGED <<row, cached, intended, crossed>> /\ handler[h].at = "select"
    BY <1>6 DEF Select
  <2>2. CASE Quit(h)
    <3>1. /\ \A g \in Handlers : HasCopy(g)' => HasCopy(g) /\ handler'[g] = handler[g]
          /\ \A g \in Handlers : handler[g].at = "store" => handler'[g].at = "store"
      BY <1>0, <2>1, <2>2, QuitCopy
    <3> QED
      BY <2>1, <3>1, StoringKept, QuietStep
  <2>3. CASE \E s \in row : Go(h, "fill", s)
    <3>1. PICK s \in row : Go(h, "fill", s)
      BY <2>3
    <3>2. row = {s} /\ s \in Settings
      BY <1>0, <3>1 DEF TypeOK
    <3>3. /\ handler'[h].cfg = s
          /\ \A g \in Handlers : g # h =>
               handler'[g] = handler[g] /\ (HasCopy(g)' <=> HasCopy(g))
      BY <1>0, <3>1, <3>2, BeginCopy DEF Go
    <3>4. SavesAreKept'
      BY <2>1 DEF SInv, SavesAreKept
    <3>5. CopyIsCurrent'
      BY <2>1, <3>2, <3>3 DEF SInv, CopyIsCurrent
    <3>6. CacheIsCurrent'
      <4>1. \A g \in Handlers : handler[g].at = "store" => handler'[g].at = "store"
        BY <2>1, <3>3
      <4> QED
        BY <2>1, <4>1, StoringKept DEF SInv, CacheIsCurrent
    <3> QED
      BY <3>4, <3>5, <3>6 DEF SInv
  <2> QED
    BY <1>6, <2>2, <2>3 DEF Select
<1>7. ASSUME NEW h \in Handlers, Fill(h) PROVE SInv'
  <2>1. /\ UNCHANGED <<row, intended, crossed>> /\ handler[h].at = "fill" /\ HasCopy(h)
        /\ cached' = [cached EXCEPT ![h[1]] = {handler[h].cfg}]
    BY <1>7 DEF Fill, HasCopy
  <2>2. crossed \/ row = {handler[h].cfg}
    BY <2>1 DEF SInv, CopyIsCurrent
  <2>3. /\ \A g \in Handlers : HasCopy(g)' => HasCopy(g) /\ handler'[g].cfg = handler[g].cfg
        /\ \A g \in Handlers : handler[g].at = "store" => handler'[g].at = "store"
    BY <1>0, <1>7, <2>1, BeginCopy, QuitCopy DEF Fill, Go
  <2>4. SavesAreKept'
    BY <2>1 DEF SInv, SavesAreKept
  <2>5. CopyIsCurrent'
    BY <2>1, <2>3 DEF SInv, CopyIsCurrent
  <2>6. CacheIsCurrent'
    <3>1. \A i \in Instances : cached'[i] = cached[i] \/ cached'[i] = {handler[h].cfg}
      BY <1>0, <2>1 DEF TypeOK
    <3> QED
      BY <2>1, <2>2, <2>3, <3>1, StoringKept DEF SInv, CacheIsCurrent
  <2> QED
    BY <2>4, <2>5, <2>6 DEF SInv
<1>8. ASSUME NEW h \in Handlers, Update(h) PROVE SInv'
  <2> DEFINE s == Flip(handler[h].cfg, handler[h].want.field)
  <2>1. /\ handler[h].at = "update" /\ s \in Settings /\ cached' = cached
        /\ \/ /\ row' = {s} /\ intended' = Flip(intended, handler[h].want.field)
              /\ \/ Go(h, "store", s) /\ crossed' = (crossed \/ Crosses(h))
                 \/ Quit(h) /\ crossed'
           \/ Quit(h) /\ UNCHANGED <<row, intended, crossed>>
    BY <1>0, <1>8, UpdateEffect
  <2>2. HasCopy(h)
    BY <2>1 DEF HasCopy
  <2>3. ~crossed => s = Flip(intended, handler[h].want.field)
    BY <2>2, UncrossedUpdate
  <2> HIDE DEF s
  <2>4. CASE row' = {s} /\ Quit(h) /\ crossed'
    BY <2>4 DEF SInv, SavesAreKept, CopyIsCurrent, CacheIsCurrent
  <2>5. CASE Quit(h) /\ UNCHANGED <<row, intended, crossed>>
    <3>1. /\ \A g \in Handlers : HasCopy(g)' => HasCopy(g) /\ handler'[g] = handler[g]
          /\ \A g \in Handlers : handler[g].at = "store" => handler'[g].at = "store"
      BY <1>0, <2>1, <2>5, QuitCopy
    <3> QED
      BY <2>1, <2>5, <3>1, StoringKept, QuietStep
  <2>6. CASE /\ row' = {s} /\ intended' = Flip(intended, handler[h].want.field)
             /\ Go(h, "store", s) /\ crossed' = (crossed \/ Crosses(h))
    <3>1. /\ handler'[h].at = "store" /\ handler'[h].cfg = s
          /\ \A g \in Handlers : g # h =>
               handler'[g] = handler[g] /\ (HasCopy(g)' <=> HasCopy(g))
      BY <1>0, <2>1, <2>6, BeginType, BeginCopy DEF Go
    <3>2. SavesAreKept'
      BY <2>3, <2>6 DEF SInv, SavesAreKept
    <3>3. CopyIsCurrent'
      <4> SUFFICES ASSUME NEW g \in Handlers, HasCopy(g)', ~crossed'
                   PROVE  row' = {handler'[g].cfg}
        BY DEF CopyIsCurrent
      <4>1. g = h
        BY <2>6, <3>1 DEF Crosses
      <4> QED
        BY <2>6, <3>1, <4>1
    <3>4. CacheIsCurrent'
      <4> SUFFICES ASSUME NEW i \in Instances, ~crossed', ~Storing(i)'
                   PROVE  cached'[i] = {}
        BY DEF CacheIsCurrent
      <4>1. i # h[1]
        BY <1>0, <3>1 DEF Storing, Handlers
      <4> QED
        BY <2>1, <2>6, <4>1 DEF Crosses
    <3> QED
      BY <3>2, <3>3, <3>4 DEF SInv
  <2> QED
    BY <2>1, <2>4, <2>5, <2>6
<1>9. ASSUME NEW h \in Handlers, Store(h) PROVE SInv'
  <2>1. /\ UNCHANGED <<row, intended, crossed>> /\ HasCopy(h) /\ Quit(h)
        /\ cached' = [cached EXCEPT ![h[1]] = {handler[h].cfg}]
    BY <1>9 DEF Store, HasCopy
  <2>2. crossed \/ row = {handler[h].cfg}
    BY <2>1 DEF SInv, CopyIsCurrent
  <2>3. \A g \in Handlers : g # h => handler'[g] = handler[g] /\ (HasCopy(g)' <=> HasCopy(g))
    BY <1>0, <2>1, QuitCopy
  <2>4. SavesAreKept'
    BY <2>1 DEF SInv, SavesAreKept
  <2>5. CopyIsCurrent'
    BY <1>0, <2>1, <2>3, QuitCopy DEF SInv, CopyIsCurrent
  <2>6. CacheIsCurrent'
    <3> SUFFICES ASSUME NEW i \in Instances, ~crossed, ~Storing(i)'
                 PROVE  cached'[i] \subseteq row
      BY <2>1 DEF CacheIsCurrent
    <3>1. CASE i = h[1]
      BY <1>0, <2>1, <2>2, <3>1 DEF TypeOK
    <3>2. CASE i # h[1]
      <4>1. cached'[i] = cached[i]
        BY <1>0, <2>1, <3>2 DEF TypeOK
      <4>2. \A w \in Workers : <<i, w>> \in Handlers /\ <<i, w>> # h
        BY <3>2 DEF Handlers
      <4>3. Storing(i) => Storing(i)'
        BY <2>3, <4>2 DEF Storing
      <4> QED
        BY <4>1, <4>3 DEF SInv, CacheIsCurrent
    <3> QED
      BY <3>1, <3>2
  <2> QED
    BY <2>4, <2>5, <2>6 DEF SInv
<1>10. CASE UNCHANGED vars
  BY <1>10, QuietStep DEF vars, HasCopy, Storing
<1> QED
  BY <1>1, <1>2, <1>3, <1>4, <1>5, <1>6, <1>7, <1>8, <1>9, <1>10 DEF Next, Step

(* At first the group has no row, or the defaults and block_media. *)
LEMMA SInit == Init => SInv
<1> SUFFICES ASSUME Init PROVE SInv
  OBVIOUS
<1>1. /\ row \subseteq {intended} /\ intended = Defaults /\ (row = {} => legacy = {})
      /\ \A h \in Handlers : handler[h] = Idle /\ ~HasCopy(h)
      /\ \A i \in Instances : cached[i] = {}
  BY DEF Init, HasCopy, Idle
<1>2. CacheIsCurrent /\ DownIsEmpty
  BY <1>1 DEF CacheIsCurrent, DownIsEmpty, Handlers
<1> QED
  BY <1>1, <1>2, CInit DEF SInv, Ground, Unborn, SavesAreKept, CopyIsCurrent

(* The invariant of the row and the caches holds throughout. *)
LEMMA SInvariant == Spec => []SInv
<1>1. Init => SInv
  BY SInit
<1>2. SInv /\ [Next]_vars => SInv'
  BY GroundStep, SStep DEF SInv
<1> QED
  BY <1>1, <1>2, PTL DEF Spec

(* Unless a change was crossed, a cache differs from the row only between a *)
(* save of its own instance and the SetGroup that follows it.               *)
THEOREM CachesAreCurrent == Spec => []CacheIsCurrent
<1>1. SInv => CacheIsCurrent
  BY DEF SInv
<1> QED
  BY <1>1, SInvariant, PTL

(* Unless a change was crossed, the row holds exactly the saved changes. *)
THEOREM ChangesAreKept == Spec => []SavesAreKept
<1>1. SInv => SavesAreKept
  BY DEF SInv
<1> QED
  BY <1>1, SInvariant, PTL
=============================================================================
