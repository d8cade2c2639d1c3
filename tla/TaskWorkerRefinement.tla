------------------------ MODULE TaskWorkerRefinement ------------------------
(***************************************************************************)
(* One instance of the bot and keys that are enqueued once implement       *)
(* DelayedAction.  (With keys that are enqueued again the upsert replaces a *)
(* row under the worker's claim, and with two instances a recovery does;    *)
(* TaskWorker's contested payloads are what DelayedAction then loses.)      *)
(***************************************************************************)
EXTENDS TaskWorker

(* A pending or running row is an action owed; "done", "failed",            *)
(* "cancelled" and no row at all owe nothing.                               *)
slot == [k \in Keys |-> IF tasks[k].status \in {"pending", "running"}
                        THEN {tasks[k].payload} ELSE {}]

DA == INSTANCE DelayedAction
        WITH performed <- ran,
             Actions <- [ref : 1..MaxEnqueues, at : 0..Horizon]

(* The queue keeps its promise: every step of the table and the worker,     *)
(* retries, crashes and failing database calls included, is a step of       *)
(* DelayedAction or leaves what is owed and performed alone.                *)
ImplementsDelayedAction == DA!Spec
=============================================================================
