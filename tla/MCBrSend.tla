------------------------------ MODULE MCBrSend ------------------------------
EXTENDS BrSend

\* a and b are threads of two processes, s and t post urgent and other messages
\* of the service itself
MCPoster == {"a", "b", "s", "t"}
MCPid == [p \in MCPoster |-> CASE p = "a" -> 1 [] p = "b" -> 2 [] OTHER -> 0]
MCLevel == [p \in MCPoster |-> IF p = "s" THEN 1 ELSE 3]
MCLength == [p \in MCPoster |-> IF p = "a" THEN 2 ELSE 1]
MCConfig == {[window |-> 2, quota |-> 1], [window |-> 1, quota |-> 2]}

Posts(a, b, s, t) ==
  [p \in MCPoster |-> CASE p = "a" -> a [] p = "b" -> b [] p = "s" -> s [] p = "t" -> t]

\* a full queue beside another process; every kind of queue at once;
\* acknowledgements until the window has shrunk and is restored, and up to the
\* end of the connection; limits that change while long nodes are written; a little
\* of all of it
MCWorkload ==
  {[posts |-> Posts(3, 1, 0, 0), changes |-> 0, cut |-> FALSE],
   [posts |-> Posts(1, 1, 1, 1), changes |-> 0, cut |-> FALSE],
   [posts |-> Posts(0, 0, 9, 0), changes |-> 0, cut |-> FALSE],
   [posts |-> Posts(0, 0, 6, 0), changes |-> 0, cut |-> TRUE],
   [posts |-> Posts(2, 0, 0, 0), changes |-> 2, cut |-> FALSE],
   [posts |-> Posts(1, 0, 1, 0), changes |-> 1, cut |-> TRUE]}
=============================================================================
