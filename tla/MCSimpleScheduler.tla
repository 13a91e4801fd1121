-------------------------- MODULE MCSimpleScheduler --------------------------
(* Instance of SimpleScheduler for TLC: c needs a and b, and d needs c.      *)
EXTENDS SimpleScheduler

CONSTANTS a, b, c, d

PerTask(w, x, y, z) == [t \in Tasks |-> CASE t = a -> w [] t = b -> x [] t = c -> y [] t = d -> z]

(* b may be submitted with or without a dependency on a. *)
Graph == PerTask({{}}, {{}, {a}}, {{a, b}}, {{c}})
Ranks == PerTask(0, 1, 2, 2)

OwnToken == [t \in Tasks |-> t]
==============================================================================
