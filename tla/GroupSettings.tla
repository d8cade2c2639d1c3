--------------------------- MODULE GroupSettings ---------------------------
(***************************************************************************)
(* The settings of one group: its row in the groups table, the copy each   *)
(* instance of the bot keeps in GroupCache, and the handlers that read and *)
(* change them (ensureGroup in internal/bot/helpers.go, the dashboard and  *)
(* /setlog in internal/bot/admin.go, the readers in bot.go and tasks.go).  *)
(*                                                                         *)
(* A setting is a switch: the language and the log channel are changed in  *)
(* the same way, by writing the whole row with one column changed.         *)
(*                                                                         *)
(* intended and crossed are history.  intended is what the owner would     *)
(* have with changes made one at a time.  A change is crossed if, while    *)
(* it was made, another handler or another instance had the settings in    *)
(* hand, if its answer was lost, or if a later start undid it on a         *)
(* database that has the column block_media.                               *)
(***************************************************************************)
EXTENDS Naturals

CONSTANTS
  Fields,      \* the settings
  Legacy,      \* the settings that took the place of block_media
  Instances,   \* running copies of the bot on one database
  Workers,     \* update workers, the audit worker and the task worker of each
  MaxChanges,  \* bound on changes begun
  MaxFaults,   \* bound on failing database calls
  MaxCrashes   \* bound on crashes

ASSUME SettingsAssumption ==
  /\ Legacy \subseteq Fields
  /\ MaxChanges \in Nat /\ MaxFaults \in Nat /\ MaxCrashes \in Nat

VARIABLES
  row,       \* the row of the table, as the empty set or a singleton
  legacy,    \* the settings that the row's block_media turns on, if any
  up,        \* the instances that run
  cached,    \* per instance: GroupCache's copy, the empty set or a singleton
  handler,   \* per handler: what it is doing
  changes, faults, crashes,
  intended,  \* history: the settings with the changes applied to them
  committed, \* history: every state the row was ever in
  crossed    \* history: some change was crossed

vars == <<row, legacy, up, cached, handler, changes, faults, crashes,
          intended, committed, crossed>>
history == <<intended, committed, crossed>>

Handlers == Instances \X Workers

Settings == [Fields -> BOOLEAN]

(* Columns' defaults differ; the properties do not depend on them. *)
Defaults == [f \in Fields |-> FALSE]

(* What a handler wants: one of the settings changed, the settings, or the *)
(* settings of a group that is there already (GetGroup alone).             *)
Wants == [kind : {"change"}, field : Fields] \cup [kind : {"read", "peek"}]

Idle == [at |-> "idle", want |-> [kind |-> "read"], cfg |-> Defaults]

TypeOK ==
  /\ row \in {{}} \cup {{s} : s \in Settings}
  /\ legacy \subseteq Fields /\ up \subseteq Instances
  /\ cached \in [Instances -> {{}} \cup {{s} : s \in Settings}]
  /\ handler \in [Handlers ->
       [at : {"idle", "insert", "select", "fill", "update", "store"},
        want : Wants, cfg : Settings]]
  /\ changes \in Nat /\ faults \in Nat /\ crashes \in Nat
  /\ intended \in Settings /\ committed \subseteq Settings
  /\ crossed \in BOOLEAN

(* A database of an older version has the group already, with block_media on. *)
Init ==
  /\ \/ row = {} /\ legacy = {}
     \/ row = {Defaults} /\ legacy = Legacy
  /\ up = {}
  /\ cached = [i \in Instances |-> {}]
  /\ handler = [h \in Handlers |-> Idle]
  /\ changes = 0 /\ faults = 0 /\ crashes = 0
  /\ intended = Defaults /\ committed = row /\ crossed = FALSE

----------------------------------------------------------------------------
Flip(s, f) == [s EXCEPT ![f] = ~@]

(* A handler that has the settings in hand and goes on to use them. *)
HasCopy(h) == handler[h].at \in {"fill", "update", "store"}

(* A change of instance i is in the database and not yet in its cache. *)
Storing(i) == \E w \in Workers : handler[<<i, w>>].at = "store"

Commit(s) ==
  /\ row' = {s}
  /\ committed' = committed \cup {s}

(* New runs EnsureCoreSchema, which copies block_media, TRUE only for groups *)
(* that an older version left with it, over the columns that replaced it:    *)
(* at the first start, which is the upgrade, and at every later one.         *)
Upgraded(s) == [f \in Fields |-> s[f] \/ f \in legacy]

Start(i) ==
  /\ i \notin up
  /\ up' = up \cup {i}
  /\ row' = {Upgraded(s) : s \in row}
  /\ committed' = committed \cup row'
  /\ IF crashes = 0 /\ up = {}
     THEN intended' = Upgraded(intended) /\ UNCHANGED crossed
     ELSE crossed' = (crossed \/ row' # row) /\ UNCHANGED intended
  /\ UNCHANGED <<legacy, cached, handler, changes, faults, crashes>>

Crash(i) ==
  /\ i \in up
  /\ crashes < MaxCrashes
  /\ crashes' = crashes + 1
  /\ up' = up \ {i}
  /\ cached' = [cached EXCEPT ![i] = {}]
  /\ handler' = [h \in Handlers |-> IF h[1] = i THEN Idle ELSE handler[h]]
  /\ UNCHANGED <<row, legacy, changes, faults, history>>

Begin(h, step, want, s) ==
  handler' = [handler EXCEPT ![h] = [at |-> step, want |-> want, cfg |-> s]]
Go(h, step, s) == Begin(h, step, handler[h].want, s)
Quit(h) == handler' = [handler EXCEPT ![h] = Idle]
Stable == UNCHANGED <<legacy, up, changes, crashes>>
NoFault == UNCHANGED faults
Fault == faults < MaxFaults /\ faults' = faults + 1

(* A handler begins with GetGroup.  (A read that finds the copy is over at  *)
(* once, and one that would change a setting goes on to change it.)         *)
BeginChange(h, f) ==
  /\ h[1] \in up /\ handler[h].at = "idle" /\ changes < MaxChanges
  /\ changes' = changes + 1
  /\ \/ /\ \E s \in cached[h[1]] : Begin(h, "update", [kind |-> "change", field |-> f], s)
        /\ crossed' = (crossed \/ Storing(h[1]))
     \/ /\ cached[h[1]] = {}
        /\ Begin(h, "insert", [kind |-> "change", field |-> f], handler[h].cfg)
        /\ UNCHANGED crossed
  /\ NoFault
  /\ UNCHANGED <<row, legacy, up, cached, crashes, intended, committed>>

BeginRead(h) ==
  /\ h[1] \in up /\ handler[h].at = "idle" /\ cached[h[1]] = {}
  /\ \/ Begin(h, "insert", [kind |-> "read"], handler[h].cfg)
     \/ Begin(h, "select", [kind |-> "peek"], handler[h].cfg)
  /\ Stable /\ NoFault
  /\ UNCHANGED <<row, cached, history>>

Insert_Bug(h) ==  \* DO UPDATE SET the defaults
  /\ handler[h].at = "insert"
  /\ Go(h, "select", handler[h].cfg)
  /\ Commit(Defaults)
  /\ Stable /\ NoFault
  /\ UNCHANGED <<cached, intended, crossed>>

(* GetOrCreateGroup: INSERT ... ON CONFLICT DO NOTHING, then SELECT. *)
Insert(h) ==
  /\ handler[h].at = "insert"
  /\ \/ /\ IF row = {} THEN Commit(Defaults) ELSE UNCHANGED <<row, committed>>
        /\ Go(h, "select", handler[h].cfg)
        /\ NoFault
     \/ /\ Fault
        /\ Quit(h)
        /\ UNCHANGED <<row, committed>>
  /\ Stable
  /\ UNCHANGED <<cached, intended, crossed>>

(* A peek at a group without a row ends in an error, like any that fails. *)
Select(h) ==
  /\ handler[h].at = "select"
  /\ \/ /\ \E s \in row : Go(h, "fill", s)
        /\ NoFault
     \/ row = {} /\ Quit(h) /\ NoFault
     \/ Fault /\ Quit(h)
  /\ Stable
  /\ UNCHANGED <<row, cached, history>>

(* SetGroup with what was read. *)
Fill(h) ==
  /\ handler[h].at = "fill"
  /\ cached' = [cached EXCEPT ![h[1]] = {handler[h].cfg}]
  /\ IF handler[h].want.kind = "change" THEN Go(h, "update", handler[h].cfg) ELSE Quit(h)
  /\ Stable /\ NoFault
  /\ UNCHANGED <<row, history>>

(* Other holders of the settings at the moment handler h saves a change. *)
Crosses(h) ==
  \/ \E g \in Handlers : g # h /\ HasCopy(g)
  \/ \E i \in Instances : i # h[1] /\ cached[i] # {}

Update_Bug(h) ==  \* the cache is set although the save failed
  /\ handler[h].at = "update"
  /\ LET s == Flip(handler[h].cfg, handler[h].want.field)
     IN  /\ Go(h, "store", s)
         /\ \/ /\ Commit(s) /\ NoFault
               /\ intended' = Flip(intended, handler[h].want.field)
               /\ crossed' = (crossed \/ Crosses(h))
            \/ Fault /\ UNCHANGED <<row, history>>
  /\ Stable
  /\ UNCHANGED cached

(* UpdateGroup writes every column from the handler's copy.  When it fails  *)
(* the handler gives up, and says so, whether the row was written or not.   *)
Update(h) ==
  /\ handler[h].at = "update"
  /\ LET s == Flip(handler[h].cfg, handler[h].want.field)
     IN  \/ /\ Commit(s)
            /\ intended' = Flip(intended, handler[h].want.field)
            /\ \/ Go(h, "store", s) /\ NoFault /\ crossed' = (crossed \/ Crosses(h))
               \/ Quit(h) /\ Fault /\ crossed' = TRUE
         \/ /\ Fault
            /\ Quit(h)
            /\ UNCHANGED <<row, history>>
  /\ Stable
  /\ UNCHANGED cached

Store_Bug(h) ==  \* the cache is not told
  /\ handler[h].at = "store"
  /\ Quit(h)
  /\ Stable /\ NoFault
  /\ UNCHANGED <<row, cached, history>>

(* SetGroup with what was saved; "Settings saved" is said. *)
Store(h) ==
  /\ handler[h].at = "store"
  /\ cached' = [cached EXCEPT ![h[1]] = {handler[h].cfg}]
  /\ Quit(h)
  /\ Stable /\ NoFault
  /\ UNCHANGED <<row, history>>

Step(h) == Insert(h) \/ Select(h) \/ Fill(h) \/ Update(h) \/ Store(h)

Next ==
  \/ \E i \in Instances : Start(i) \/ Crash(i)
  \/ \E h \in Handlers : BeginRead(h) \/ Step(h) \/ \E f \in Fields : BeginChange(h, f)

Spec == Init /\ [][Next]_vars

----------------------------------------------------------------------------
(* A cache never holds settings that were not in the database at some time: *)
(* not defaults made up on the way, nor a change whose save failed, through *)
(* any overlap of readers, changes, failures and restarts.                  *)
CacheWasCommitted == \A i \in Instances : cached[i] \subseteq committed

(* A cache disagrees with the database only while a change of its own       *)
(* instance is between its save and its SetGroup, or once a change was      *)
(* crossed: reads that overlap reads never leave a stale copy.              *)
CacheIsCurrent ==
  \A i \in Instances :
    \/ cached[i] \subseteq row
    \/ crossed
    \/ Storing(i)

(* Unless a change was crossed, the row holds every change that was saved   *)
(* and nothing else: writing the whole row from a copy loses no column, and *)
(* neither creating the group again nor a restart resets one, "idempotent   *)
(* and safe for old deployments" (store.go) but for the media settings.     *)
SavesAreKept == crossed \/ row \subseteq {intended}
=============================================================================
