------------------------------- MODULE WebAdminMC -------------------------------
(* The bounds TLC explores WebAdmin with, as alternatives, because the product *)
(* of them all is out of reach: the forms of connections, the forms of tunnels *)
(* with the deletes of both kinds, the settings with a file that today's rules *)
(* refuse, the login, a chain of two hops.                                     *)
EXTENDS WebAdmin

AConn == CHOOSE c \in Conn : TRUE
ATunnel == CHOOSE t \in Tunnel : TRUE
ASecret == CHOOSE s \in Secret : TRUE

Known(auth, sound) ==
  [auth |-> auth, secret |-> ASecret, phrase |-> Empty, sound |-> sound]
Through(chain) == [NewTunnel EXCEPT !.chain = chain, !.sound = TRUE]

File(conns, tunnels) ==
  [conns |-> [c \in Conn |-> IF c \in DOMAIN conns THEN conns[c] ELSE Absent],
   tunnels |-> [t \in Tunnel |-> IF t \in DOMAIN tunnels THEN tunnels[t] ELSE Absent],
   settings |-> [level |-> "info", theme |-> "light"]]

One(auth, sound) == [c \in {AConn} |-> Known(auth, sound)]
Using == [t \in {ATunnel} |-> Through(<<AConn>>)]

Sent(op, kind, id, body) == [op |-> op, kind |-> kind, id |-> id, body |-> body]

AdminBounds ==
  { [calls |-> 2, edits |-> 2, restarts |-> 0, fails |-> FALSE, login |-> FALSE,
     pages |-> {"ssh"}, config |-> File(One("password", TRUE), <<>>),
     script |-> {Sent("update", "conn", AConn,
                      [auth |-> "inline", secret |-> ASecret, phrase |-> ASecret])}],
    [calls |-> 2, edits |-> 2, restarts |-> 0, fails |-> FALSE, login |-> FALSE,
     pages |-> {"tunnels"}, config |-> File(One("none", TRUE), <<>>),
     script |-> {Sent("delete", "conn", AConn, <<>>)}],
    [calls |-> 2, edits |-> 0, restarts |-> 1, fails |-> TRUE, login |-> FALSE,
     pages |-> {"ssh"}, config |-> File(One("none", TRUE), <<>>),
     script |-> {Sent("create", "tunnel", New, Through(<<AConn>>))}],
    [calls |-> 2, edits |-> 0, restarts |-> 1, fails |-> TRUE, login |-> FALSE,
     pages |-> {"tunnels", "settings"}, config |-> File(One("none", FALSE), Using),
     script |-> {Sent("update", "conn", AConn, [sound |-> TRUE]),
                 Sent("patch", "settings", New, [level |-> "debug", theme |-> "bad"])}],
    [calls |-> 3, edits |-> 0, restarts |-> 1, fails |-> TRUE, login |-> TRUE,
     pages |-> {"ssh"}, config |-> File(<<>>, <<>>), script |-> {}],
    [calls |-> 1, edits |-> 2, restarts |-> 0, fails |-> FALSE, login |-> FALSE,
     pages |-> {"tunnels"}, script |-> {},
     config |-> File([c \in Conn |-> Known("none", TRUE)],
                     [t \in {ATunnel} |-> [Through(SetToSeq(Conn)) EXCEPT
                        !.userpass = TRUE, !.proxy = ASecret]])] }
=============================================================================
