--------------------------- MODULE MCProxyChannel ---------------------------
(* Two openers, and behaviours in which a link in use is lost, the client    *)
(* dies, or an application closes channels, one kind of trouble at a time.   *)
EXTENDS ProxyChannel

CONSTANTS c1, c2

MCChannels == {c1, c2}

MCWorkloads ==
    {[loss |-> 1, death |-> FALSE, closers |-> {}],
     [loss |-> 0, death |-> TRUE, closers |-> {}],
     [loss |-> 0, death |-> FALSE, closers |-> {c1}]}
=============================================================================
