------------------------------- MODULE Store -------------------------------
(***************************************************************************)
(* The bbolt store of internal/store: the tokens bucket and the            *)
(* reservations bucket.  bbolt serialises transactions, so every operator  *)
(* below that primes a variable is ONE transaction; a store function that  *)
(* opens two (TouchToken, RevokeToken: read, then write back) appears here *)
(* as the read and the write, and its callers take them as two steps.      *)
(*                                                                         *)
(* A token record is abstracted to what the other parts tell apart: that   *)
(* it exists and whether RevokedAt is set.  "unborn" is an id that         *)
(* CreateToken has not minted, "deleted" one whose record is gone; the     *)
(* code reads both as ErrNotFound, the model keeps them apart because ids  *)
(* are random and never minted twice.                                      *)
(***************************************************************************)
EXTENDS Integers, FiniteSets

CONSTANTS
    Tokens,               \* token ids, minted or not
    Admins,               \* the ids whose record carries the admin scope
    Subs,                 \* subdomain labels
    NoToken,              \* "no reservation" / "no owner"
    MaxReservations,      \* [Tokens -> Nat]: Token.MaxReservations
    DefaultReservations   \* Config.MaxReservationsPerToken

ASSUME StoreAssumption ==
    /\ Admins \subseteq Tokens
    /\ NoToken \notin Tokens
    /\ MaxReservations \in [Tokens -> Nat]
    /\ DefaultReservations \in Nat
    /\ IsFiniteSet(Subs)
    /\ IsFiniteSet(Tokens)

VARIABLES
    token,   \* bucket "tokens":        [Tokens -> TokenStatus]
    resv     \* bucket "reservations":  [Subs -> the TokenID, or NoToken]

storeVars == <<token, resv>>

TokenStatus == {"unborn", "active", "revoked", "deleted"}

StoreTypeOK ==
    /\ token \in [Tokens -> TokenStatus]
    /\ resv \in [Subs -> Tokens \cup {NoToken}]

(***************************************************************************)
(* Reads.                                                                  *)
(***************************************************************************)

\* GetToken: ErrNotFound unless the record is there.
Found(t) == token[t] \in {"active", "revoked"}

\* Authenticate's last test, Token.Active; a wrong secret or an expired
\* token is a refusal its callers may take at any time.
Active(t) == token[t] = "active"

\* HasScope: admin implies every scope.
HasAdminScope(t) == t \in Admins

\* CountAdmins, as far as Bootstrap looks at it.
UsableAdmins == {t \in Admins : Active(t)}

\* The subdomains bound to a token.
Held(t) == {s \in Subs : resv[s] = t}

\* effectiveReservationLimit; zero means unlimited.
EffectiveReservationLimit(t) ==
    IF MaxReservations[t] > 0 THEN MaxReservations[t]
    ELSE IF HasAdminScope(t) THEN 0
    ELSE DefaultReservations

(***************************************************************************)
(* Write transactions.                                                     *)
(***************************************************************************)

\* CreateToken: a fresh id, active.
CreateToken(t) ==
    /\ token[t] = "unborn"
    /\ token' = [token EXCEPT ![t] = "active"]
    /\ UNCHANGED resv

\* putToken: an unconditional Put of the record the caller holds, whatever
\* the bucket says by now.
PutToken(t, status) ==
    /\ token' = [token EXCEPT ![t] = status]
    /\ UNCHANGED resv

\* DeleteToken: the record and every reservation it holds, in one Update.
DeleteToken(t) ==
    /\ token' = [token EXCEPT ![t] = "deleted"]
    /\ resv' = [s \in Subs |-> IF resv[s] = t THEN NoToken ELSE resv[s]]

\* Mutant of MayReserve: the cap compared with <=.
MayReserveOneMore(s, t) ==
    \/ resv[s] = t
    \/ /\ resv[s] = NoToken
       /\ LET limit == EffectiveReservationLimit(t)
          IN  limit > 0 => Cardinality(Held(t)) <= limit

\* Mutant of MayReserve: no ErrReservationTaken.
MayReserveTaken(s, t) ==
    LET limit == EffectiveReservationLimit(t)
    IN  limit > 0 => Cardinality(Held(t)) < limit

\* Reserve's refusals and its write.  The same token re-reserving is a no-op.
MayReserve(s, t) ==
    \/ resv[s] = t
    \/ /\ resv[s] = NoToken
       /\ LET limit == EffectiveReservationLimit(t)
          IN  limit > 0 => Cardinality(Held(t)) < limit

Reserve(s, t) ==
    /\ resv' = [resv EXCEPT ![s] = t]
    /\ UNCHANGED token

\* Release: drops whatever is bound to s, whoever it belongs to.
Release(s) ==
    /\ resv' = [resv EXCEPT ![s] = NoToken]
    /\ UNCHANGED token
=============================================================================
