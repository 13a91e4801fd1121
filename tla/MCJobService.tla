---------------------------- MODULE MCJobService ----------------------------
(* Instances of JobService for TLC. *)
EXTENDS JobService, TLC

CONSTANTS j1, j2, alice, c1, c2, none, k1

OneUser == [c \in Clients |-> alice]

(* c1 starts and retries, or only starts, and c2 (if there) cancels; or every *)
(* client starts.                                                          *)
Roles    == [c \in Clients |-> IF c = c1 THEN {"start", "retry"} ELSE {"cancel"}]
NoRetry  == [c \in Clients |-> IF c = c1 THEN {"start"} ELSE {"cancel"}]
AllStart == [c \in Clients |-> {"start"}]
=============================================================================
