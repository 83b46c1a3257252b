------------------------------- MODULE MCEdge -------------------------------
(***************************************************************************)
(* Instances of Edge for TLC: agents that come for one name one after the  *)
(* other, by HTTP or with a port, the first behind a password.             *)
(***************************************************************************)
EXTENDS Edge, TLC

CONSTANTS adm, tok, s1, s2, c1, c2, k1, v1, v2

NoLimit == [t \in Tokens |-> 0]

Agent(type, p) == [token |-> tok, sub |-> s1, type |-> type, port |-> p]
BothTypes == {Agent("http", NoPort), Agent("tcp", NoPort)}
OnlyTcp   == {Agent("tcp", NoPort)}

Request(kind, t, c) == [kind |-> kind, actor |-> adm, token |-> t, sub |-> NoSub, tun |-> c]
KillOnly     == {Request("kill", NoToken, c1)}
DropRequests == {Request("revoke", tok, NoConn), Request("delete", tok, NoConn), Request("kill", NoToken, c1)}

Visit(via, h, p, s) == [via |-> via, host |-> h, port |-> p, secret |-> s]
PublicAsks == {Visit("http", s1, 0, NoSecret), Visit("http", s1, 0, "pw"),
               Visit("http", "api", 0, NoSecret), Visit("http", "other", 0, NoSecret),
               Visit("tcp", "other", 1, NoSecret)}
TunnelAsks == {Visit("http", s1, 0, NoSecret), Visit("http", s1, 0, "pw"),
               Visit("tcp", "other", 1, NoSecret)}
PlainAsk   == {Visit("http", s1, 0, NoSecret)}

FirstGuarded == [c \in Conns |-> IF c = c1 THEN "pw" ELSE NoSecret]
Unguarded    == [c \in Conns |-> NoSecret]
=============================================================================
