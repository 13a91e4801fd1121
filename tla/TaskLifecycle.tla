---------------------------- MODULE TaskLifecycle ----------------------------
(***************************************************************************)
(* What a scheduler promises about a task graph, without threads, budgets, *)
(* pauses or events (docs/M3_SCHEDULER_DESIGN.md, "DAG Wakeup / Failure     *)
(* Propagation"): a task starts only after everything it needs is done, it  *)
(* ends once, and a task that fails or is canceled takes exactly the tasks *)
(* that need it along.                                                     *)
(***************************************************************************)
EXTENDS FiniteSets

CONSTANT Tasks

VARIABLES status, needs

vars == <<status, needs>>

Init ==
  /\ status = [t \in Tasks |-> "absent"]
  /\ needs = [t \in Tasks |-> {}]

(* Only known tasks can be needed; needing an aborted one aborts at once. *)
Admit(t, S) ==
  /\ status[t] = "absent"
  /\ needs' = [needs EXCEPT ![t] = S]
  /\ \/ /\ \A d \in S : status[d] \in {"pending", "active", "done"}
        /\ status' = [status EXCEPT ![t] = "pending"]
     \/ /\ \E d \in S : status[d] = "aborted"
        /\ status' = [status EXCEPT ![t] = "aborted"]

Start(t) ==
  /\ status[t] = "pending"
  /\ \A d \in needs[t] : status[d] = "done"
  /\ status' = [status EXCEPT ![t] = "active"]
  /\ UNCHANGED needs

Complete(t) ==
  /\ status[t] = "active"
  /\ status' = [status EXCEPT ![t] = "done"]
  /\ UNCHANGED needs

(* S is everything unfinished that (transitively) needs root, with or       *)
(* without root itself.                                                    *)
Abort(S) ==
  /\ \A t \in S : status[t] \in {"pending", "active"}
  /\ \A t \in Tasks : status[t] = "pending" /\ needs[t] \cap S # {} => t \in S
  /\ \E root \in Tasks : \A t \in S \ {root} : needs[t] \cap (S \cup {root}) # {}
  /\ status' = [t \in Tasks |-> IF t \in S THEN "aborted" ELSE status[t]]
  /\ UNCHANGED needs

Next ==
  \/ \E t \in Tasks : (\E S \in SUBSET Tasks : Admit(t, S)) \/ Start(t) \/ Complete(t)
  \/ \E S \in SUBSET Tasks : Abort(S)

Spec == Init /\ [][Next]_vars
==============================================================================
