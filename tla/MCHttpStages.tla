---------------------------- MODULE MCHttpStages ----------------------------
(* Instance of HttpStages for TLC: an HTTP stage and a mock stage of one      *)
(* workflow share its token, and a bare use of the client has none.        *)
EXTENDS HttpStages

CONSTANTS image, mock, bare, workflow

Kinds  == [c \in Calls |-> CASE c = image -> "http" [] c = mock -> "mock" [] c = bare -> "bare"]
Shared == [c \in Calls |-> IF c = bare THEN NoToken ELSE workflow]
Watch  == [o \in Observers |-> workflow]
=============================================================================
