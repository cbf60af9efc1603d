----------------------------- MODULE MCService -----------------------------
(***************************************************************************)
(* A service with two slots, two full sync tasks and one grant task; a     *)
(* sync reads the roles of a subscription, then sends a request to Graph.  *)
(***************************************************************************)
EXTENDS Service

CONSTANTS s1, s2, grant, hello, u1, sub

AllTasks == {s1, s2, grant, hello}
TwoReads == <<sub, u1>>
=============================================================================
