---------------------------- MODULE MCThreadPool ----------------------------
(* Instances of ThreadPoolScheduler for TLC, with up to four tasks. *)
EXTENDS ThreadPoolScheduler, TLC

CONSTANTS a, b, c, d

PerTask(x, y, z, v) == [t \in Tasks |-> CASE t = a -> x [] t = b -> y [] t = c -> z [] t = d -> v]

(* Dependency lists: c waits for a and b, and b for a; or b waits for a, and d *)
(* for c; or c is submitted with a and b, or with b alone (the stray edge of  *)
(* a refused submit()).                                                    *)
Chain == PerTask({<<>>}, {<<a>>}, {<<a, b>>}, {<<>>})
Pairs == PerTask({<<>>}, {<<a>>}, {<<>>}, {<<c>>})
Again == PerTask({<<>>}, {<<>>}, {<<a, b>>, <<b>>}, {<<>>})

(* Tokens: one per task, or one for the workflow. *)
OwnToken == [t \in Tasks |-> t]
OneToken == [t \in Tasks |-> CHOOSE k \in Tokens : TRUE]

(* Demands and priorities: with two CPU slots and a soft RAM limit of two,   *)
(* a and d can run together, b needs both slots, and c fits beside a but     *)
(* exceeds the soft limit by itself.                                       *)
Zeros == PerTask(0, 0, 0, 0)
Slots == PerTask(1, 2, 0, 1)
Ram   == PerTask(1, 1, 3, 1)
Ranks == PerTask(0, 1, 2, 0)

ThreadSymmetry == Permutations(Workers) \cup Permutations(Clients)
=============================================================================
