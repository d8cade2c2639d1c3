--------------------------- MODULE DelayedAction ---------------------------
(***************************************************************************)
(* What the task queue promises its producers, with no table and no        *)
(* workers: an action put off to a moment is owed until it is settled; it  *)
(* is performed at that moment or later, at least once before it counts as *)
(* settled, perhaps several times, and not after it was withdrawn.         *)
(***************************************************************************)
EXTENDS Integers

CONSTANTS
  Keys,    \* what actions are about: one action is owed per key at most
  Actions  \* the actions that may be requested: records of a reference
           \* (ref) and a moment (at)

VARIABLES
  slot,       \* per key: the action owed, as the empty set or a singleton
  performed,  \* the actions performed so far, by reference
  now

Init ==
  /\ slot = [k \in Keys |-> {}]
  /\ performed = {}
  /\ now = 0

(* A new action is owed; its reference was never used before. *)
Request(k) ==
  /\ slot[k] = {}
  /\ \E a \in Actions :
       /\ a.at >= now
       /\ a.ref \notin performed
       /\ \A j \in Keys : \A b \in slot[j] : a.ref # b.ref
       /\ slot' = [slot EXCEPT ![k] = {a}]
  /\ UNCHANGED <<performed, now>>

Perform(k) ==
  /\ \E a \in slot[k] :
       /\ a.at <= now
       /\ performed' = performed \cup {a.ref}
  /\ UNCHANGED <<slot, now>>

Settle(k) ==
  /\ \E a \in slot[k] : a.ref \in performed
  /\ slot' = [slot EXCEPT ![k] = {}]
  /\ UNCHANGED <<performed, now>>

Withdraw(k) ==
  /\ slot[k] # {}
  /\ slot' = [slot EXCEPT ![k] = {}]
  /\ UNCHANGED <<performed, now>>

Tick ==
  /\ now' = now + 1
  /\ UNCHANGED <<slot, performed>>

Next ==
  \/ \E k \in Keys : Request(k) \/ Perform(k) \/ Settle(k) \/ Withdraw(k)
  \/ Tick

Spec == Init /\ [][Next]_<<slot, performed, now>>
=============================================================================
