------------------------------ MODULE TaskState ------------------------------
(***************************************************************************)
(* The state machine every scheduler drives: the enum TaskState and        *)
(* TaskDescriptor::transition_to of core/src/task.cpp.  The module holds   *)
(* only constant operators; the schedulers own the state.                  *)
(***************************************************************************)

TaskStates == {"Queued", "Ready", "Running", "Paused", "Canceled", "Failed", "Succeeded"}

IsTerminal(s) == s \in {"Canceled", "Failed", "Succeeded"}

(* Failed -> Queued is the retry edge: Failed is terminal and yet has a    *)
(* successor.                                                              *)
Successors ==
  [Queued    |-> {"Ready", "Paused", "Canceled"},
   Ready     |-> {"Running", "Paused", "Canceled"},
   Running   |-> {"Paused", "Succeeded", "Failed", "Canceled"},
   Paused    |-> {"Queued", "Ready", "Running", "Canceled"},
   Failed    |-> {"Queued"},
   Canceled  |-> {},
   Succeeded |-> {}]

Legal(from, to) == to \in Successors[from]

(* Faulty variant: remembers the state entered instead of the one left. *)
PausedFromTarget(pf, from, to) == IF to = "Paused" THEN to ELSE pf

(* paused_from after a legal transition: set on entry to Paused, cleared on *)
(* the way out and by a retry; "None" is the empty optional.               *)
PausedFromAfter(pf, from, to) ==
  IF to = "Paused" THEN from
  ELSE IF from = "Paused" \/ (from = "Failed" /\ to = "Queued") THEN "None"
  ELSE pf
==============================================================================
