----------------------------- MODULE WordLists -----------------------------
(***************************************************************************)
(* A word list of one group: the bad words or the allowed domains, which   *)
(* the same code keeps in a table of their own and in GroupCache.  Scans   *)
(* of messages (runSecurityChecks, internal/bot/security.go), the warm-up  *)
(* of a group's lists (internal/bot/helpers.go) and the commands /badword  *)
(* and /allowdomain (internal/bot/admin.go).  Where the settings of a group *)
(* are written through the cache, a change of a list drops the cached copy. *)
(*                                                                         *)
(* stored and crossed are history: the lists the table ever held, and      *)
(* whether a change was made while a loaded copy was in some other hand,   *)
(* or its answer was lost.                                                 *)
(***************************************************************************)
EXTENDS Naturals

CONSTANTS
  Words,
  Instances,   \* running copies of the bot on one database
  Workers,     \* update workers and warm-up goroutines of each
  MaxChanges,  \* bound on changes begun
  MaxFaults,   \* bound on failing database calls
  MaxCrashes   \* bound on crashes

ASSUME ListsAssumption ==
  MaxChanges \in Nat /\ MaxFaults \in Nat /\ MaxCrashes \in Nat

VARIABLES
  words,    \* the table
  cached,   \* per instance: GroupCache's copy, the empty set or a singleton
  handler,  \* per handler: what it is doing
  changes, faults, crashes,
  stored,   \* history: every list the table held
  crossed   \* history: some change was crossed

vars == <<words, cached, handler, changes, faults, crashes, stored, crossed>>

Handlers == Instances \X Workers

Edits == [kind : {"add", "remove"}, word : Words]

(* A reader has a list, a command an edit. *)
Idle == [at |-> "idle"]
Loading == [at |-> "load"]
Filling(list) == [at |-> "fill", list |-> list]
Writing(e) == [at |-> "write", edit |-> e]
Dropping == [at |-> "drop"]

TypeOK ==
  /\ words \subseteq Words
  /\ cached \in [Instances -> {{}} \cup {{list} : list \in SUBSET Words}]
  /\ handler \in [Handlers ->
       {Idle, Loading, Dropping} \cup {Filling(list) : list \in SUBSET Words}
       \cup {Writing(e) : e \in Edits}]
  /\ changes \in Nat /\ faults \in Nat /\ crashes \in Nat
  /\ stored \subseteq SUBSET Words
  /\ crossed \in BOOLEAN

Init ==
  /\ words = {} /\ stored = {{}}
  /\ cached = [i \in Instances |-> {}]
  /\ handler = [h \in Handlers |-> Idle]
  /\ changes = 0 /\ faults = 0 /\ crashes = 0
  /\ crossed = FALSE

----------------------------------------------------------------------------
Becomes(h, state) == handler' = [handler EXCEPT ![h] = state]
NoFault == UNCHANGED faults
Fault == faults < MaxFaults /\ faults' = faults + 1
Table == <<words, stored, crossed>>

(* A scan finds no list in the cache; a warm-up and /badword list do not ask *)
(* the cache.  (A scan that finds one is over at once.)                      *)
BeginLoad(h) ==
  /\ handler[h] = Idle
  /\ Becomes(h, Loading)
  /\ NoFault
  /\ UNCHANGED <<Table, cached, changes, crashes>>

(* GetBadWords, GetWhitelist.  When it fails, a scan does without. *)
Load(h) ==
  /\ handler[h] = Loading
  /\ \/ Becomes(h, Filling(words)) /\ NoFault
     \/ Becomes(h, Idle) /\ Fault
  /\ UNCHANGED <<Table, cached, changes, crashes>>

Fill_Bug(h) ==  \* added to what is there
  /\ handler[h].at = "fill"
  /\ cached' = [cached EXCEPT ![h[1]] = {UNION @ \cup handler[h].list}]
  /\ Becomes(h, Idle)
  /\ NoFault
  /\ UNCHANGED <<Table, changes, crashes>>

(* SetBadWords, SetWhitelist. *)
Fill(h) ==
  /\ handler[h].at = "fill"
  /\ cached' = [cached EXCEPT ![h[1]] = {handler[h].list}]
  /\ Becomes(h, Idle)
  /\ NoFault
  /\ UNCHANGED <<Table, changes, crashes>>

BeginChange(h, e) ==
  /\ handler[h] = Idle /\ changes < MaxChanges
  /\ changes' = changes + 1
  /\ Becomes(h, Writing(e))
  /\ NoFault
  /\ UNCHANGED <<Table, cached, crashes>>

Edited(e) == IF e.kind = "add" THEN words \cup {e.word} ELSE words \ {e.word}

Crosses(h) ==
  \/ \E g \in Handlers : handler[g].at = "fill"
  \/ \E i \in Instances : i # h[1] /\ cached[i] # {}

(* AddBadWord, RemoveBadWord and their like.  When one fails, the command   *)
(* gives up and says so, whether the table was changed or not.              *)
Write(h) ==
  /\ handler[h].at = "write"
  /\ LET list == Edited(handler[h].edit)
     IN  \/ /\ words' = list
            /\ stored' = stored \cup {list}
            /\ \/ Becomes(h, Dropping) /\ NoFault /\ crossed' = (crossed \/ Crosses(h))
               \/ Becomes(h, Idle) /\ Fault /\ crossed' = TRUE
         \/ /\ Fault
            /\ Becomes(h, Idle)
            /\ UNCHANGED Table
  /\ UNCHANGED <<cached, changes, crashes>>

Drop_Bug(h) ==  \* the cached copy stays
  /\ handler[h] = Dropping
  /\ Becomes(h, Idle)
  /\ NoFault
  /\ UNCHANGED <<Table, cached, changes, crashes>>

(* DeleteBadWords, DeleteWhitelist; "Bad word removed" is said. *)
Drop(h) ==
  /\ handler[h] = Dropping
  /\ cached' = [cached EXCEPT ![h[1]] = {}]
  /\ Becomes(h, Idle)
  /\ NoFault
  /\ UNCHANGED <<Table, changes, crashes>>

(* An instance dies and is started again. *)
Restart(i) ==
  /\ crashes < MaxCrashes
  /\ crashes' = crashes + 1
  /\ cached' = [cached EXCEPT ![i] = {}]
  /\ handler' = [h \in Handlers |-> IF h[1] = i THEN Idle ELSE handler[h]]
  /\ NoFault
  /\ UNCHANGED <<Table, changes>>

Step(h) == Load(h) \/ Fill(h) \/ Write(h) \/ Drop(h)

Next ==
  \/ \E i \in Instances : Restart(i)
  \/ \E h \in Handlers : BeginLoad(h) \/ Step(h) \/ \E e \in Edits : BeginChange(h, e)

Spec == Init /\ [][Next]_vars

----------------------------------------------------------------------------
(* What a scan goes by was the group's list at some time, as a whole: never *)
(* a mixture of lists, nor words that were only about to be stored.         *)
CachedWasStored == \A i \in Instances : cached[i] \subseteq stored

(* A cached list differs from the table's only until the command that       *)
(* changed it drops it (or dies with it), or once a change was crossed.     *)
CachedIsCurrent ==
  \A i \in Instances :
    \/ cached[i] \subseteq {words}
    \/ crossed
    \/ \E w \in Workers : handler[<<i, w>>] = Dropping
=============================================================================
