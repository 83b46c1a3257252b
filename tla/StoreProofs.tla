---------------------------- MODULE StoreProofs ----------------------------
(***************************************************************************)
(* What the store keeps under concurrent handlers and requests, for any    *)
(* instance: revocations, up to the stale copies under way, and the two    *)
(* rules of reservations.                                                  *)
(***************************************************************************)
EXTENDS ServerProofs, FiniteSetTheorems

\* The steps that write the store or copy a token record; every other step of
\* a connection leaves the store and the copies alone.
LEMMA QuietConnStep ==
    ASSUME IInv, NEW c \in Conns, ConnStep(c), ~TouchRead(c), ~TouchWrite(c)
    PROVE  /\ UNCHANGED <<token, resv, held>>
           /\ pc'[c] = "touchWrite" => pc[c] = "touchWrite" /\ owner'[c] = owner[c]
           /\ \A d \in Conns \ {c} : pc'[d] = pc[d] /\ owner'[d] = owner[d]
  <1> USE DEF IInv, TypeOK, RegistryTypeOK, ControlTypeOK, registryVars, tunnelVars, controlVars,
              storeVars, Goto
  <1>1. CASE ReadHello(c) \/ RefuseHello(c)
    BY <1>1 DEF ReadHello, RefuseHello
  <1>2. CASE AgentLeaves(c)
    BY <1>2 DEF AgentLeaves
  <1>3. CASE Authenticate(c) \/ RefuseToken(c) \/ CheckLimit(c)
    BY <1>3 DEF Authenticate, RefuseToken, CheckLimit
  <1>4. CASE CheckReservation(c) \/ CheckLive(c)
    BY <1>4 DEF CheckReservation, CheckLive, AfterName
  <1>5. CASE Draw(c) \/ CheckDrawn(c) \/ DrawFails(c)
    BY <1>5 DEF Draw, CheckDrawn, DrawFails, AfterName
  <1>6. CASE BindPort(c) \/ SkipPort(c) \/ RefusePort(c) \/ AddFails(c) \/ AddTunnel(c)
    BY <1>6 DEF BindPort, SkipPort, RefusePort, AddFails, AddTunnel
  <1>7. CASE WriteAck(c) \/ HandshakeFails(c) \/ OpenSession(c) \/ MarkReady(c)
    BY <1>7 DEF WriteAck, HandshakeFails, OpenSession, MarkReady
  <1>8. CASE StartAccept(c) \/ SessionEnds(c) \/ RemoveTunnel(c)
    BY <1>8 DEF StartAccept, SessionEnds, RemoveTunnel
  <1>9. CASE CloseTunnel(c)
    <2>1. UNCHANGED <<token, resv, held, owner>>
      BY <1>9 DEF CloseTunnel, CloseBegin, CloseListener, CloseSession
    <2>2. \E to \in {"closeListener", "closeSession", "done"} : pc' = [pc EXCEPT ![c] = to]
      BY <1>9 DEF CloseTunnel
    <2>3. QED
      BY <2>1, <2>2
  <1>10. QED
    BY <1>1, <1>2, <1>3, <1>4, <1>5, <1>6, <1>7, <1>8, <1>9 DEF ConnStep, HandlerStep

-----------------------------------------------------------------------------
(* Revocations.                                                            *)

\* A token that is out, and of which nobody holds a usable copy, stays so.
Out(t) == token[t] \in {"revoked", "deleted"} /\ ~StaleCopy(t)

LEMMA ConnStepKeepsOut ==
    ASSUME IInv, NEW t \in Tokens, Out(t),
           NEW c \in Conns, ConnStep(c), UNCHANGED <<apiVars, restarts>>
    PROVE  token'[t] # "active" /\ ~StaleCopy(t)'
  <1> USE DEF IInv, TypeOK, StoreTypeOK, RegistryTypeOK, ControlTypeOK, Out, StaleCopy, apiVars,
              Actor
  <1>1. CASE TouchRead(c)
    BY <1>1 DEF TouchRead, Goto, tunnelVars, storeVars
  <1>2. CASE TouchWrite(c)
    <2>1. owner[c] = t => held[c] # "active"
      BY <1>2 DEF TouchWrite, Goto
    <2>2. QED
      BY <1>2, <2>1 DEF TouchWrite, Goto, PutToken, tunnelVars
  <1>3. CASE ~TouchRead(c) /\ ~TouchWrite(c)
    BY <1>3, QuietConnStep
  <1>4. QED
    BY <1>1, <1>2, <1>3

LEMMA RequestStepKeepsOut ==
    ASSUME IInv, NEW t \in Tokens, Out(t),
           NEW k \in Requests, RequestStep(k), UNCHANGED <<controlVars, restarts>>
    PROVE  token'[t] # "active" /\ ~StaleCopy(t)'
  <1> USE DEF IInv, TypeOK, StoreTypeOK, ApiTypeOK, Out, StaleCopy, controlVars, Actor, Step
  <1>1. owner' = owner
    BY DEF RequestStep, HandleStep, Authed, TouchActorRead, TouchActorWrite, HandleRead,
           HandleCreateToken, HandleRevokeToken, RevokeWrite, HandleDeleteToken,
           HandleCloseTunnel, ListTunnels, DropTunnel, CloseDropped, DropDone, HandleReserve,
           ReserveWrite, HandleRelease, ReleaseWrite, CloseBegin, CloseListener, CloseSession,
           tunnelVars
  <1>2. CASE Authed(k)
    BY <1>1, <1>2 DEF Authed, storeVars
  <1>3. CASE TouchActorRead(k)
    BY <1>1, <1>3 DEF TouchActorRead, storeVars
  <1>4. CASE TouchActorWrite(k)
    <2>1. req[k].actor = t => record[k] # "active"
      BY <1>4 DEF TouchActorWrite
    <2>2. QED
      BY <1>1, <1>4, <2>1 DEF TouchActorWrite, PutToken
  <1>5. CASE HandleRead(k) \/ HandleRevokeToken(k) \/ HandleCloseTunnel(k)
    BY <1>1, <1>5 DEF HandleRead, HandleRevokeToken, HandleCloseTunnel, storeVars
  <1>6. CASE HandleCreateToken(k)
    BY <1>1, <1>6 DEF HandleCreateToken, CreateToken, storeVars
  <1>7. CASE RevokeWrite(k)
    BY <1>1, <1>7 DEF RevokeWrite, PutToken
  <1>8. CASE HandleDeleteToken(k)
    BY <1>1, <1>8 DEF HandleDeleteToken, DeleteToken, storeVars
  <1>9. CASE ListTunnels(k) \/ DropTunnel(k) \/ DropDone(k)
    BY <1>1, <1>9 DEF ListTunnels, DropTunnel, DropDone, storeVars
  <1>10. CASE CloseDropped(k)
    <2>1. UNCHANGED <<token, record, req>>
      BY <1>10 DEF CloseDropped, storeVars
    <2>2. \E to \in {"closeListener", "closeSession", "drop"} : rpc' = [rpc EXCEPT ![k] = to]
      BY <1>10 DEF CloseDropped
    <2>3. QED
      BY <1>1, <2>1, <2>2
  <1>11. CASE HandleReserve(k) \/ HandleRelease(k)
    BY <1>1, <1>11 DEF HandleReserve, HandleRelease, storeVars
  <1>12. CASE ReserveWrite(k) \/ ReleaseWrite(k)
    BY <1>1, <1>12 DEF ReserveWrite, ReleaseWrite, Reserve, Release, storeVars
  <1>13. QED
    BY <1>2, <1>3, <1>4, <1>5, <1>6, <1>7, <1>8, <1>9, <1>10, <1>11, <1>12
    DEF RequestStep, HandleStep

\* A revoked or deleted token comes back only through a TouchToken that was
\* under way: with none, nothing a handler, a request or a restart does makes
\* it usable again, or makes a usable copy of it.
THEOREM RevocationIsFinal == Spec => RevocationSticks
  <1>1. ASSUME IInv, [Next]_vars, NEW t \in Tokens, Out(t)
        PROVE  token'[t] # "active" /\ ~StaleCopy(t)'
    <2>1. ASSUME NEW c \in Conns, ConnStep(c), UNCHANGED <<apiVars, restarts>>
          PROVE  token'[t] # "active" /\ ~StaleCopy(t)'
      BY <1>1, <2>1, ConnStepKeepsOut
    <2>2. ASSUME NEW k \in Requests, RequestStep(k), UNCHANGED <<controlVars, restarts>>
          PROVE  token'[t] # "active" /\ ~StaleCopy(t)'
      BY <1>1, <2>2, RequestStepKeepsOut
    <2>3. CASE Restart
      BY <1>1, <2>3
      DEF Restart, Bootstrap, CreateToken, storeVars, Out, StaleCopy, IInv, TypeOK, StoreTypeOK
    <2>4. CASE UNCHANGED vars
      BY <1>1, <2>4 DEF vars, storeVars, tunnelVars, controlVars, apiVars, Out, StaleCopy, Actor
    <2>5. QED
      BY <1>1, <2>1, <2>2, <2>3, <2>4 DEF Next
  <1>2. IInv /\ [Next]_vars =>
          [\A t \in Tokens : token[t] \in {"revoked", "deleted"} /\ ~StaleCopy(t)
              => token'[t] # "active" /\ ~StaleCopy(t)']_vars
    BY <1>1 DEF Out
  <1>3. QED
    BY <1>2, Invariance, PTL DEF Spec, RevocationSticks

-----------------------------------------------------------------------------
(* Reservations.                                                           *)

\* What one step may do to the reservations.
ResvStep ==
    \/ UNCHANGED resv
    \/ \E s \in Subs, t \in Tokens : MayReserve(s, t) /\ Reserve(s, t)
    \/ \E s \in Subs : Release(s)
    \/ \E t \in Tokens : DeleteToken(t)

LEMMA NextResv ==
    ASSUME IInv, [Next]_vars
    PROVE  ResvStep
  <1>1. ASSUME NEW c \in Conns, ConnStep(c)
        PROVE  UNCHANGED resv
    <2>1. CASE TouchRead(c) \/ TouchWrite(c)
      BY <2>1 DEF TouchRead, TouchWrite, PutToken, storeVars
    <2>2. QED
      BY <1>1, <2>1, QuietConnStep
  <1>2. ASSUME NEW k \in Requests, RequestStep(k)
        PROVE  ResvStep
    <2>1. rpc[k] \notin {"idle", "done"} => req[k] \in RequestInputs
      BY DEF IInv, WellFormed
    <2>2. CASE ReserveWrite(k)
      <3>1. req[k].sub \in Subs /\ req[k].token \in Tokens
        BY <2>1, <2>2, RequestFields DEF ReserveWrite, Step, IInv, WellFormed
      <3>2. QED
        BY <2>2, <3>1 DEF ReserveWrite, ResvStep, storeVars
    <2>3. CASE ReleaseWrite(k)
      <3>1. req[k].sub \in Subs
        BY <2>1, <2>3, RequestFields DEF ReleaseWrite, Step, IInv, WellFormed
      <3>2. QED
        BY <2>3, <3>1 DEF ReleaseWrite, ResvStep
    <2>4. CASE HandleDeleteToken(k)
      <3>1. req[k].token \in Tokens
        BY <2>1, <2>4, RequestFields DEF HandleDeleteToken, Handles
      <3>2. QED
        BY <2>4, <3>1 DEF HandleDeleteToken, ResvStep, storeVars
    <2>5. CASE ~ReserveWrite(k) /\ ~ReleaseWrite(k) /\ ~HandleDeleteToken(k)
      BY <1>2, <2>5
      DEF RequestStep, HandleStep, Authed, TouchActorRead, TouchActorWrite, HandleRead,
          HandleCreateToken, HandleRevokeToken, RevokeWrite, HandleCloseTunnel, ListTunnels,
          DropTunnel, CloseDropped, DropDone, HandleReserve, HandleRelease, CreateToken,
          PutToken, storeVars, ResvStep
    <2>6. QED
      BY <2>2, <2>3, <2>4, <2>5
  <1>3. CASE Restart
    BY <1>3 DEF Restart, Bootstrap, CreateToken, storeVars, ResvStep
  <1>4. CASE UNCHANGED vars
    BY <1>4 DEF vars, storeVars, ResvStep
  <1>5. QED
    BY <1>1, <1>2, <1>3, <1>4 DEF Next, ResvStep

\* A label bound to a token is never bound to another in one step.
THEOREM NoReservationIsStolen == Spec => ReservationNeverStolen
  <1>1. IInv /\ [Next]_vars =>
          [\A s \in Subs : resv[s] # NoToken => resv'[s] \in {resv[s], NoToken}]_vars
    <2> SUFFICES ASSUME IInv, [Next]_vars, NEW s \in Subs, resv[s] # NoToken
                 PROVE  resv'[s] \in {resv[s], NoToken}
      OBVIOUS
    <2>1. ResvStep
      BY NextResv
    <2>2. QED
      BY <2>1
      DEF ResvStep, MayReserve, Reserve, Release, DeleteToken, IInv, TypeOK, StoreTypeOK
  <1>2. QED
    BY <1>1, Invariance, PTL DEF Spec, ReservationNeverStolen

\* The reservations of a token that loses some, or none, count no more.
LEMMA HeldShrinks ==
    ASSUME NEW t \in Tokens, Held(t)' \subseteq Held(t)
    PROVE  /\ Cardinality(Held(t)) \in Nat /\ Cardinality(Held(t)') \in Nat
           /\ Cardinality(Held(t)') <= Cardinality(Held(t))
  <1>1. IsFiniteSet(Held(t))
    BY StoreAssumption, FS_Subset DEF Held
  <1>2. QED
    BY <1>1, FS_Subset, FS_CardinalityType

LEMMA ReserveKeepsLimit ==
    ASSUME IInv, NEW s \in Subs, NEW t \in Tokens, MayReserve(s, t), Reserve(s, t),
           ReservationLimitHolds
    PROVE  ReservationLimitHolds'
  <1> USE DEF IInv, TypeOK, StoreTypeOK
  <1> SUFFICES ASSUME NEW u \in Tokens, EffectiveReservationLimit(u) > 0
               PROVE  Cardinality(Held(u)') <= EffectiveReservationLimit(u)
    BY DEF ReservationLimitHolds, EffectiveReservationLimit, HasAdminScope
  <1>1. EffectiveReservationLimit(u) \in Nat
    BY StoreAssumption DEF EffectiveReservationLimit
  <1>2. Cardinality(Held(u)) <= EffectiveReservationLimit(u)
    BY DEF ReservationLimitHolds
  <1>3. CASE u # t \/ resv[s] = t
    <2>1. Held(u)' \subseteq Held(u)
      BY <1>3 DEF Held, Reserve, MayReserve
    <2>2. QED
      BY <1>1, <1>2, <2>1, HeldShrinks
  <1>4. CASE u = t /\ resv[s] # t
    <2>1. Cardinality(Held(t)) < EffectiveReservationLimit(t)
      BY <1>4 DEF MayReserve
    <2>2. Held(t)' = Held(t) \cup {s} /\ s \notin Held(t)
      BY <1>4 DEF Held, Reserve
    <2>3. IsFiniteSet(Held(t))
      BY StoreAssumption, FS_Subset DEF Held
    <2>4. Cardinality(Held(t)') = Cardinality(Held(t)) + 1
      BY <2>2, <2>3, FS_AddElement
    <2>5. Cardinality(Held(t)) \in Nat
      BY <2>3, FS_CardinalityType
    <2>6. QED
      BY <1>1, <1>4, <2>1, <2>4, <2>5
  <1>5. QED
    BY <1>3, <1>4

\* No token ever holds more reservations than its cap, whoever reserves on
\* its behalf and however the requests interleave.
THEOREM ReservationsStayCapped == Spec => []ReservationLimitHolds
  <1>1. Init => ReservationLimitHolds
    <2> SUFFICES ASSUME Init, NEW t \in Tokens, EffectiveReservationLimit(t) > 0
                 PROVE  Cardinality(Held(t)) <= EffectiveReservationLimit(t)
      BY DEF ReservationLimitHolds
    <2>1. Held(t) = {}
      BY StoreAssumption DEF Init, Held
    <2>2. Cardinality(Held(t)) = 0
      BY <2>1, FS_EmptySet
    <2>3. EffectiveReservationLimit(t) \in Nat
      BY StoreAssumption DEF EffectiveReservationLimit
    <2>4. QED
      BY <2>2, <2>3
  <1>2. IInv /\ ReservationLimitHolds /\ [Next]_vars => ReservationLimitHolds'
    <2> SUFFICES ASSUME IInv, ReservationLimitHolds, [Next]_vars
                 PROVE  ReservationLimitHolds'
      OBVIOUS
    <2>1. ResvStep
      BY NextResv
    <2>2. ASSUME NEW s \in Subs, NEW t \in Tokens, MayReserve(s, t), Reserve(s, t)
          PROVE  ReservationLimitHolds'
      BY <2>2, ReserveKeepsLimit
    <2>3. CASE \/ UNCHANGED resv
               \/ \E s \in Subs : Release(s)
               \/ \E t \in Tokens : DeleteToken(t)
      <3> SUFFICES ASSUME NEW u \in Tokens, EffectiveReservationLimit(u) > 0
                   PROVE  Cardinality(Held(u)') <= EffectiveReservationLimit(u)
        BY DEF ReservationLimitHolds, EffectiveReservationLimit, HasAdminScope
      <3>1. Held(u)' \subseteq Held(u)
        BY <2>3, StoreAssumption
        DEF Held, Release, DeleteToken, IInv, TypeOK, StoreTypeOK
      <3>2. EffectiveReservationLimit(u) \in Nat
        BY StoreAssumption DEF EffectiveReservationLimit
      <3>3. Cardinality(Held(u)) <= EffectiveReservationLimit(u)
        BY DEF ReservationLimitHolds
      <3>4. QED
        BY <3>1, <3>2, <3>3, HeldShrinks
    <2>4. QED
      BY <2>1, <2>2, <2>3 DEF ResvStep
  <1>3. QED
    BY <1>1, <1>2, Invariance, PTL DEF Spec
=============================================================================
