------------------------------ MODULE MCServer ------------------------------
(***************************************************************************)
(* Instances of Server for TLC.  Each cfg picks the Hellos agents may send *)
(* and the requests clients may make from the definitions below.           *)
(***************************************************************************)
EXTENDS Server, TLC

CONSTANTS adm, adm2, adm3, tok, s1, s2, c1, c2, c3, k1, k2

Http(t, s)   == [token |-> t, sub |-> s, type |-> "http", port |-> NoPort]
Tcp(t, s, p) == [token |-> t, sub |-> s, type |-> "tcp", port |-> p]

Ask(kind, actor, t, s, c) ==
    [kind |-> kind, actor |-> actor, token |-> t, sub |-> s, tun |-> c]
Revoke(actor, t)     == Ask("revoke", actor, t, NoSub, NoConn)
Delete(actor, t)     == Ask("delete", actor, t, NoSub, NoConn)
ReserveFor(actor, t, s) == Ask("reserve", actor, t, s, NoConn)
GiveBack(actor, s)   == Ask("release", actor, NoToken, s, NoConn)
Read(actor)          == Ask("read", actor, NoToken, NoSub, NoConn)
Create(actor)        == Ask("create", actor, NoToken, NoSub, NoConn)

NoLimit == [t \in Tokens |-> 0]

WalkingHellos == {Http(tok, s1), Tcp(tok, NoSub, 1), Tcp(tok, s1, NoPort)}
OneHello   == {Http(tok, s1)}

RevokeOnly    == {Revoke(adm, tok)}
StoreRequests == {Read(tok), Create(adm), Revoke(adm, tok), Delete(adm, tok),
                  Revoke(adm, adm2), Revoke(adm2, adm),
                  ReserveFor(tok, tok, s1), ReserveFor(adm, tok, s2), ReserveFor(adm, adm, s1),
                  GiveBack(tok, s1), GiveBack(adm, s1)}

RequestSymmetry == Permutations(Requests)
=============================================================================
