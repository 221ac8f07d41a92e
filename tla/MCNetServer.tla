----------------------------- MODULE MCNetServer -----------------------------
(* c1 makes sockets; c2 is its child, and may die or send what it should not. *)
EXTENDS NetServer

CONSTANTS c1, c2

MCThread == 0 .. QUEUE_SIZE + 1
MCMay ==
  ({c1} \X {"socket", "api", "recv", "close", "fork"})
  \cup ({c2} \X {"recv", "close", "nopage", "timer", "die"})
=============================================================================
