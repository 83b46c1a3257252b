------------------------------ MODULE MCAgent ------------------------------
(***************************************************************************)
(* Instances of Agent for TLC.                                             *)
(***************************************************************************)
EXTENDS Agent

CONSTANTS e1, e2

AnyName == {NoName}
NameA   == {"a"}
=============================================================================
