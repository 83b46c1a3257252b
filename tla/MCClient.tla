------------------------------ MODULE MCClient ------------------------------
(***************************************************************************)
(* Instances of ClientConfig for TLC.                                      *)
(***************************************************************************)
EXTENDS ClientConfig

CONSTANTS p1, p2, t1, m1, m2, k1, k2

Want(kind, name, keep) == [kind |-> kind, name |-> name, keep |-> keep]
Wants == {Want("login", p2, TRUE), Want("login", p2, FALSE), Want("logout", p1, FALSE),
          Want("logout", NoName, FALSE), Want("forget", t1, FALSE), Want("new", t1, FALSE),
          Want("select", p2, FALSE), Want("select", p1, FALSE)}

NoEnv == [profile |-> NoName, server |-> FALSE, token |-> FALSE]
Shells == {NoEnv, [profile |-> p2, server |-> TRUE, token |-> TRUE]}

OneProfile == [NewConfig EXCEPT !.default = p1, !.profiles = {p1}]
Both       == [NewConfig EXCEPT !.default = p1, !.profiles = {p1, p2}, !.tunnels = {t1}]
AnyFile    == {NoFile, Garbled, OneProfile, Both}
=============================================================================
