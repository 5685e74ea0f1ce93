----------------------------- MODULE TunnelConsoleMC -----------------------------
(* The bounds TLC explores TunnelConsole with, as alternatives, because the    *)
(* product of them all is out of reach: events that come, go and get lost on   *)
(* the socket; states and host keys that change under one click; two clicks    *)
(* and what follows them; a click while events arrive.                         *)
EXTENDS TunnelConsole

ConsoleBounds ==
  { [events |-> 3, noise |-> 1, calls |-> 0,
     socket |-> TRUE, fails |-> FALSE, keys |-> {}],
    [events |-> 3, noise |-> 0, calls |-> 1,
     socket |-> FALSE, fails |-> TRUE, keys |-> {CHOOSE k \in Key : TRUE}],
    [events |-> 1, noise |-> 0, calls |-> 2,
     socket |-> FALSE, fails |-> FALSE, keys |-> Key],
    [events |-> 1, noise |-> 0, calls |-> 1,
     socket |-> TRUE, fails |-> FALSE, keys |-> {}] }
=============================================================================
