----------------------------- MODULE NameLease -----------------------------
(***************************************************************************)
(* What the server promises about names, without saying how: a name is     *)
(* leased to one connection at a time, a connection gets at most one lease *)
(* in its life, and a lease that ended never comes back.  A name never     *)
(* passes from one connection to another in one step.                      *)
(***************************************************************************)
CONSTANTS Names, Holders, Nobody

VARIABLES
    holder,   \* [Names -> Holders \cup {Nobody}]
    life      \* [Holders -> {"new", "holding", "over"}]

leaseVars == <<holder, life>>

LeaseInit ==
    /\ holder = [s \in Names |-> Nobody]
    /\ life = [h \in Holders |-> "new"]

Acquire(h, s) ==
    /\ holder[s] = Nobody
    /\ life[h] = "new"
    /\ holder' = [holder EXCEPT ![s] = h]
    /\ life' = [life EXCEPT ![h] = "holding"]

GiveUp(h, s) ==
    /\ holder[s] = h
    /\ holder' = [holder EXCEPT ![s] = Nobody]
    /\ life' = [life EXCEPT ![h] = "over"]

\* A connection that is refused never holds a name.
Refuse(h) ==
    /\ life[h] = "new"
    /\ life' = [life EXCEPT ![h] = "over"]
    /\ UNCHANGED holder

\* The server process stops: every connection it had is gone.
Lose ==
    /\ holder' = [s \in Names |-> Nobody]
    /\ \E lost \in SUBSET Holders :
          life' = [h \in Holders |-> IF h \in lost THEN "over" ELSE life[h]]
    /\ \A h \in Holders : life'[h] # "holding"

LeaseNext ==
    \/ \E h \in Holders, s \in Names : Acquire(h, s) \/ GiveUp(h, s)
    \/ \E h \in Holders : Refuse(h)
    \/ Lose

LeaseSpec == LeaseInit /\ [][LeaseNext]_leaseVars
=============================================================================
