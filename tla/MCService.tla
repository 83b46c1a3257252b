----------------------------- MODULE MCService -----------------------------
(***************************************************************************)
(* Instances of Service for TLC: the commands, the machines and the        *)
(* environments of each cfg.                                               *)
(***************************************************************************)
EXTENDS Service

Install(from, proxy) == [kind |-> "install", root |-> TRUE, dry |-> FALSE, start |-> TRUE,
                         proxy |-> proxy, from |-> from]
Uninstall(purge)     == [kind |-> "uninstall", root |-> TRUE, dry |-> FALSE, purge |-> purge]
Tunnel               == [kind |-> "tunnel", root |-> TRUE, dry |-> FALSE, from |-> "v1", args |-> "args"]
Doctor(root)         == [kind |-> "doctor", root |-> root, dry |-> FALSE]
Mint                 == [kind |-> "adminToken", root |-> TRUE, dry |-> FALSE]

Everything ==
    {Install("v1", FALSE), Install("installed", TRUE), Uninstall(FALSE), Uninstall(TRUE), Tunnel,
     Doctor(TRUE), Doctor(FALSE), Mint,
     [Install("v1", TRUE) EXCEPT !.dry = TRUE, !.root = FALSE],
     [Install("v1", TRUE) EXCEPT !.start = FALSE],
     [Uninstall(TRUE) EXCEPT !.root = FALSE]}

\* A shell without the variables, one with a token, one with another domain.
Variables == {NoEnv, [NoEnv EXCEPT !.token = "dns"], [NoEnv EXCEPT !.domain = <<"other", "org">>]}

\* Nobody, nginx, and a zerock that was started by hand.
Rivals == {{}, {"443"}, {"443", "7223", "7224"}}
=============================================================================
