---------------------------- MODULE ServerProofs ----------------------------
(***************************************************************************)
(* The inductive invariant of Server, proved for any sets of connections,  *)
(* requests, tokens and labels and any port range.                         *)
(*                                                                         *)
(* First the types, one lemma for each kind of step and one case for each  *)
(* action; then the other parts of IInv, laid out the same way; then the   *)
(* refinement of NameLease.                                                *)
(***************************************************************************)
EXTENDS Server, TLAPS

\* The fields of a Hello, as ControlAssumption gives them.
LEMMA HelloFields ==
    \A h \in Hellos : /\ h.token \in Tokens
                      /\ h.sub \in Subs \cup {NoSub}
                      /\ h.port \in Nat
                      /\ h.type \in {"http", "tcp"}
  BY ControlAssumption

\* The fields of a request, as ApiAssumption gives them.
LEMMA RequestFields ==
    \A q \in RequestInputs :
        /\ q.actor \in Tokens
        /\ q.kind \in {"revoke", "delete", "reserve"} => q.token \in Tokens
        /\ q.kind \in {"reserve", "release"} => q.sub \in Subs
        /\ q.kind = "kill" => q.tun \in Conns
  BY ApiAssumption

\* Ports are naturals, so that the candidate port of bindTCP is one.
LEMMA PortTypes == Ports \subseteq Nat /\ PortFrom \in Nat /\ NoPort \in Nat
  BY RegistryAssumption DEF Ports, NoPort

-----------------------------------------------------------------------------
(* The registry's two writes and Tunnel.Close.                             *)

LEMMA AddType ==
    ASSUME RegistryTypeOK, NEW c \in Conns, name[c] \in Subs, owner[c] \in Tokens, Add(c)
    PROVE  /\ bySub' \in [Subs -> Conns \cup {NoConn}]
           /\ byPort' \in [Ports -> Conns \cup {NoConn}]
           /\ byToken' \in [Tokens -> Nat]
  <1>1. bySub' \in [Subs -> Conns \cup {NoConn}]
    BY DEF Add, RegistryTypeOK
  <1>2. byPort' \in [Ports -> Conns \cup {NoConn}]
    BY DEF Add, RegistryTypeOK
  <1>3. byToken' \in [Tokens -> Nat]
    BY DEF Add, RegistryTypeOK
  <1>4. QED
    BY <1>1, <1>2, <1>3

\* The count of the owner is a natural still: it stops at zero.
LEMMA RemoveType ==
    ASSUME RegistryTypeOK, NEW c \in Conns, owner[c] \in Tokens, Remove(c)
    PROVE  /\ bySub' \in [Subs -> Conns \cup {NoConn}]
           /\ byPort' \in [Ports -> Conns \cup {NoConn}]
           /\ byToken' \in [Tokens -> Nat]
  <1>1. bySub' \in [Subs -> Conns \cup {NoConn}]
    BY DEF Remove, RegistryTypeOK
  <1>2. byPort' \in [Ports -> Conns \cup {NoConn}]
    BY DEF Remove, RegistryTypeOK
  <1>3. byToken' \in [Tokens -> Nat]
    BY DEF Remove, RegistryTypeOK
  <1>4. QED
    BY <1>1, <1>2, <1>3

\* One of the three steps of Tunnel.Close, or the return of a second caller.
CloseStep(c) == \/ CloseBegin(c) \/ CloseListener(c) \/ CloseSession(c)
                \/ closed[c] /\ UNCHANGED tunnelVars

\* Close touches nobody's flag but its tunnel's, and only ever sets it.
LEMMA CloseEffect ==
    ASSUME RegistryTypeOK, NEW c \in Conns, CloseStep(c)
    PROVE  /\ UNCHANGED <<name, owner, port, ready>>
           /\ closed' \in [Conns -> BOOLEAN]
           /\ session' \in [Conns -> {"none", "open", "closed"}]
           /\ bound' \in [Ports -> Conns \cup {NoConn}]
           /\ \A d \in Conns : closed[d] => closed'[d]
           /\ \A d \in Conns \ {c} : closed'[d] = closed[d]
  <1> USE DEF RegistryTypeOK, tunnelVars
  <1>1. CASE CloseBegin(c)
    BY <1>1 DEF CloseBegin
  <1>2. CASE CloseListener(c)
    BY <1>2 DEF CloseListener
  <1>3. CASE CloseSession(c)
    BY <1>3 DEF CloseSession
  <1>4. CASE closed[c] /\ UNCHANGED tunnelVars
    BY <1>4
  <1>5. QED
    BY <1>1, <1>2, <1>3, <1>4 DEF CloseStep

-----------------------------------------------------------------------------
\* A step of a connection keeps every variable in its type.
LEMMA ConnStepType ==
    ASSUME IInv, NEW c \in Conns, ConnStep(c), UNCHANGED <<apiVars, restarts>>
    PROVE  TypeOK'
  <1> USE DEF IInv, TypeOK, StoreTypeOK, RegistryTypeOK, ControlTypeOK, ApiTypeOK,
              storeVars, registryVars, tunnelVars, controlVars, apiVars, Goto
  <1>0. pc[c] \notin {"idle", "done"} => hello[c] \in Hellos /\ Token(c) \in Tokens
    BY HelloFields DEF WellFormed, Token
  <1>a. pc[c] \notin {"idle", "done", "authenticate"} => owner[c] \in Tokens
    BY <1>0 DEF WellFormed
  <1>1. CASE ReadHello(c)
    BY <1>1, HelloFields, PortTypes DEF ReadHello, ConnPC, Resolving
  <1>2. CASE RefuseHello(c)
    BY <1>2 DEF RefuseHello, ConnPC
  <1>3. CASE AgentLeaves(c)
    BY <1>3 DEF AgentLeaves
  <1>4. CASE Authenticate(c)
    BY <1>4, <1>0 DEF Authenticate, ConnPC, Resolving, Token, Active, TokenStatus
  <1>5. CASE RefuseToken(c)
    BY <1>5 DEF RefuseToken, ConnPC
  <1>6. CASE CheckLimit(c)
    BY <1>6 DEF CheckLimit, ConnPC, Resolving
  <1>7. CASE CheckReservation(c)
    BY <1>7 DEF CheckReservation, ConnPC, Resolving
  <1>8. CASE CheckLive(c)
    BY <1>8 DEF CheckLive, ConnPC, Resolving, AfterName
  <1>9. CASE Draw(c)
    BY <1>9, ControlAssumption DEF Draw, ConnPC, Resolving
  <1>10. CASE CheckDrawn(c)
    BY <1>10 DEF CheckDrawn, ConnPC, Resolving, AfterName
  <1>11. CASE DrawFails(c)
    BY <1>11 DEF DrawFails, ConnPC
  <1>12. CASE BindPort(c)
    BY <1>12 DEF BindPort, ConnPC, Resolving
  <1>13. CASE SkipPort(c)
    BY <1>13, PortTypes DEF SkipPort, ConnPC, Resolving
  <1>14. CASE RefusePort(c)
    BY <1>14 DEF RefusePort, ConnPC
  <1>15. CASE AddTunnel(c)
    <2>1. name[c] \in Subs /\ owner[c] \in Tokens /\ Add(c)
      BY <1>15, <1>a DEF AddTunnel, WellFormed
    <2>2. UNCHANGED <<hello, cursor, tries, held, tunnelVars, storeVars>>
      BY <1>15 DEF AddTunnel
    <2>3. pc' \in [Conns -> ConnPC]
      BY <1>15 DEF AddTunnel, ConnPC, Handshake
    <2>4. QED
      BY <2>1, <2>2, <2>3, AddType
  <1>16. CASE AddFails(c)
    BY <1>16 DEF AddFails, ConnPC, Releasing
  <1>17. CASE WriteAck(c)
    BY <1>17 DEF WriteAck, ConnPC, Handshake
  <1>18. CASE HandshakeFails(c)
    BY <1>18 DEF HandshakeFails, ConnPC, Releasing
  <1>19. CASE OpenSession(c)
    BY <1>19 DEF OpenSession, ConnPC, Handshake
  <1>20. CASE MarkReady(c)
    BY <1>20 DEF MarkReady, ConnPC, Serving
  <1>21. CASE TouchRead(c)
    BY <1>21, <1>a DEF TouchRead, ConnPC, Serving, Found
  <1>22. CASE TouchWrite(c)
    BY <1>22, <1>a DEF TouchWrite, ConnPC, Serving, PutToken, TokenStatus
  <1>23. CASE StartAccept(c)
    BY <1>23 DEF StartAccept, ConnPC, Serving, Releasing
  <1>24. CASE SessionEnds(c)
    BY <1>24 DEF SessionEnds, ConnPC, Releasing
  <1>25. CASE RemoveTunnel(c)
    <2>1. owner[c] \in Tokens /\ Remove(c)
      BY <1>25, <1>a DEF RemoveTunnel
    <2>2. UNCHANGED <<hello, cursor, tries, held, tunnelVars, storeVars>>
      BY <1>25 DEF RemoveTunnel
    <2>3. pc' \in [Conns -> ConnPC]
      BY <1>25 DEF RemoveTunnel, ConnPC, Releasing
    <2>4. QED
      BY <2>1, <2>2, <2>3, RemoveType
  <1>26. CASE CloseTunnel(c)
    <2>1. pc' \in [Conns -> ConnPC]
      BY <1>26 DEF CloseTunnel, ConnPC, Releasing
    <2>2. CloseStep(c) /\ UNCHANGED <<hello, cursor, tries, held, registryVars, storeVars>>
      BY <1>26 DEF CloseTunnel, CloseStep
    <2>3. QED
      BY <2>1, <2>2, CloseEffect
  <1>27. QED
    BY <1>1, <1>2, <1>3, <1>4, <1>5, <1>6, <1>7, <1>8, <1>9, <1>10, <1>11, <1>12, <1>13, <1>14, <1>15, <1>16, <1>17, <1>18, <1>19, <1>20, <1>21, <1>22, <1>23, <1>24, <1>25, <1>26 DEF ConnStep, HandlerStep

\* A step of a request keeps every variable in its type.
LEMMA RequestStepType ==
    ASSUME IInv, NEW k \in Requests, RequestStep(k), UNCHANGED <<controlVars, restarts>>
    PROVE  TypeOK'
  <1> USE DEF IInv, TypeOK, StoreTypeOK, RegistryTypeOK, ControlTypeOK, ApiTypeOK,
              storeVars, registryVars, tunnelVars, controlVars, apiVars, Step
  <1>0. rpc[k] \notin {"idle", "done"} =>
          /\ Actor(k) \in Tokens
          /\ req[k].kind \in {"revoke", "delete", "reserve"} => req[k].token \in Tokens
          /\ req[k].kind \in {"reserve", "release"} => req[k].sub \in Subs
          /\ req[k].kind = "kill" => req[k].tun \in Conns
    BY RequestFields DEF WellFormed, Actor
  <1>a. \A c \in todo[k] : c \in Conns /\ owner[c] \in Tokens
    BY DEF DropTargets
  <1>1. CASE Authed(k)
    BY <1>1 DEF Authed, RequestPC
  <1>2. CASE TouchActorRead(k)
    BY <1>2, <1>0 DEF TouchActorRead, RequestPC, Found
  <1>3. CASE TouchActorWrite(k)
    BY <1>3, <1>0 DEF TouchActorWrite, RequestPC, PutToken, TokenStatus
  <1>4. CASE HandleRead(k)
    BY <1>4 DEF HandleRead, RequestPC
  <1>5. CASE HandleCreateToken(k)
    BY <1>5 DEF HandleCreateToken, RequestPC, CreateToken, TokenStatus
  <1>6. CASE HandleRevokeToken(k)
    BY <1>6 DEF HandleRevokeToken, RequestPC
  <1>7. CASE RevokeWrite(k)
    BY <1>7, <1>0 DEF RevokeWrite, RequestPC, PutToken, TokenStatus
  <1>8. CASE HandleDeleteToken(k)
    <2>1. rpc' \in [Requests -> RequestPC]
      <3>1. \E to \in {"done", "list"} : rpc' = [rpc EXCEPT ![k] = to]
        BY <1>8 DEF HandleDeleteToken
      <3>2. QED
        BY <3>1 DEF RequestPC
    <2>2. token' \in [Tokens -> TokenStatus] /\ resv' \in [Subs -> Tokens \cup {NoToken}]
      <3>1. DeleteToken(req[k].token) \/ UNCHANGED storeVars
        BY <1>8 DEF HandleDeleteToken
      <3>2. CASE DeleteToken(req[k].token)
        BY <3>2 DEF DeleteToken, TokenStatus
      <3>3. QED
        BY <3>1, <3>2
    <2>3. UNCHANGED <<req, record, todo, cur, tunnelVars, registryVars>>
      BY <1>8 DEF HandleDeleteToken
    <2>4. QED
      BY <2>1, <2>2, <2>3
  <1>9. CASE HandleCloseTunnel(k)
    <2>1. req[k].tun \in Conns
      BY <1>9, <1>0 DEF HandleCloseTunnel, Handles
    <2>2. \E to \in {"drop", "done"} : rpc' = [rpc EXCEPT ![k] = to]
      BY <1>9 DEF HandleCloseTunnel
    <2>3. rpc' \in [Requests -> RequestPC]
      BY <2>2 DEF RequestPC
    <2>4. todo' \in [Requests -> SUBSET Conns]
      BY <1>9, <2>1 DEF HandleCloseTunnel
    <2>5. UNCHANGED <<req, record, cur, tunnelVars, registryVars, storeVars>>
      BY <1>9 DEF HandleCloseTunnel
    <2>6. QED
      BY <2>3, <2>4, <2>5
  <1>10. CASE ListTunnels(k)
    BY <1>10 DEF ListTunnels, RequestPC, List
  <1>11. CASE DropTunnel(k)
    <2>1. PICK c \in todo[k] :
            /\ Step(k, "drop", "close")
            /\ Remove(c)
            /\ cur' = [cur EXCEPT ![k] = c]
            /\ todo' = [todo EXCEPT ![k] = @ \ {c}]
            /\ UNCHANGED <<req, record, tunnelVars, storeVars>>
      BY <1>11 DEF DropTunnel
    <2>2. c \in Conns /\ owner[c] \in Tokens
      BY <1>a
    <2>3. rpc' \in [Requests -> RequestPC]
      BY <2>1 DEF RequestPC
    <2>4. QED
      BY <2>1, <2>2, <2>3, RemoveType
  <1>12. CASE CloseDropped(k)
    <2>1. rpc' \in [Requests -> RequestPC]
      BY <1>12 DEF CloseDropped, RequestPC
    <2>2. CloseStep(cur[k]) /\ UNCHANGED <<req, record, todo, cur, registryVars, storeVars>>
      BY <1>12 DEF CloseDropped, CloseStep
    <2>3. cur[k] \in Conns
      BY <1>12 DEF CloseDropped, DropTargets
    <2>4. QED
      BY <2>1, <2>2, <2>3, CloseEffect
  <1>13. CASE DropDone(k)
    BY <1>13 DEF DropDone, RequestPC
  <1>14. CASE HandleReserve(k)
    BY <1>14 DEF HandleReserve, RequestPC
  <1>15. CASE ReserveWrite(k)
    BY <1>15, <1>0 DEF ReserveWrite, RequestPC, WellFormed, Reserve, MayReserve
  <1>16. CASE HandleRelease(k)
    BY <1>16 DEF HandleRelease, RequestPC
  <1>17. CASE ReleaseWrite(k)
    BY <1>17, <1>0 DEF ReleaseWrite, RequestPC, Release
  <1>18. QED
    BY <1>1, <1>2, <1>3, <1>4, <1>5, <1>6, <1>7, <1>8, <1>9, <1>10, <1>11, <1>12, <1>13, <1>14, <1>15, <1>16, <1>17 DEF RequestStep, HandleStep

\* So does a restart.
LEMMA RestartType ==
    ASSUME TypeOK, Restart
    PROVE  TypeOK'
  BY ServerAssumption
  DEF TypeOK, StoreTypeOK, RegistryTypeOK, ControlTypeOK, ApiTypeOK, Restart, Bootstrap,
      CreateToken, TokenStatus, storeVars, ConnPC, RequestPC

-----------------------------------------------------------------------------
(* The parts of IInv about names, and what they rest on.                   *)

Names ==
    /\ WellFormed
    /\ DropTargets
    /\ FlagsFollowHandler
    /\ HandshakeUndisturbed
    /\ NoOrphanTunnel
    /\ NoStaleName

\* A step of a connection.  A handler publishes its tunnel under a free name
\* and takes out nobody's name but its own.
LEMMA ConnStepNames ==
    ASSUME IInv, NEW c \in Conns, ConnStep(c), UNCHANGED <<apiVars, restarts>>
    PROVE  Names'
  <1> USE RegistryAssumption
      DEF IInv, Names, WellFormed, DropTargets, FlagsFollowHandler, HandshakeUndisturbed,
          NoOrphanTunnel, NoStaleName, Registered, Published, Dropping, PastHandshake, Token,
          ConnPC, Resolving, Handshake, Serving, Releasing, TypeOK, RegistryTypeOK,
          ControlTypeOK, ApiTypeOK, storeVars, registryVars, tunnelVars, controlVars, apiVars,
          Goto
  <1>1. CASE ReadHello(c)
    BY <1>1, HelloFields DEF ReadHello
  <1>2. CASE RefuseHello(c)
    BY <1>2 DEF RefuseHello
  <1>3. CASE AgentLeaves(c)
    BY <1>3 DEF AgentLeaves
  <1>4. CASE Authenticate(c)
    BY <1>4, HelloFields DEF Authenticate
  <1>5. CASE RefuseToken(c)
    BY <1>5 DEF RefuseToken
  <1>6. CASE CheckLimit(c)
    BY <1>6 DEF CheckLimit
  <1>7. CASE CheckReservation(c)
    BY <1>7 DEF CheckReservation
  <1>8. CASE CheckLive(c)
    BY <1>8 DEF CheckLive, AfterName
  <1>9. CASE Draw(c)
    BY <1>9 DEF Draw
  <1>10. CASE CheckDrawn(c)
    BY <1>10 DEF CheckDrawn, AfterName
  <1>11. CASE DrawFails(c)
    BY <1>11 DEF DrawFails
  <1>12. CASE BindPort(c)
    BY <1>12 DEF BindPort
  <1>13. CASE SkipPort(c)
    BY <1>13 DEF SkipPort
  <1>14. CASE RefusePort(c)
    BY <1>14 DEF RefusePort
  <1>15. CASE AddTunnel(c)
    BY <1>15 DEF AddTunnel, Add
  <1>16. CASE AddFails(c)
    BY <1>16 DEF AddFails
  <1>17. CASE WriteAck(c)
    BY <1>17 DEF WriteAck
  <1>18. CASE HandshakeFails(c)
    <2>1. pc[c] \in Handshake /\ pc' = [pc EXCEPT ![c] = "remove"]
      BY <1>18 DEF HandshakeFails
    <2>2. UNCHANGED <<hello, tunnelVars, registryVars>>
      BY <1>18 DEF HandshakeFails
    <2>3. QED
      BY <2>1, <2>2
  <1>19. CASE OpenSession(c)
    BY <1>19 DEF OpenSession
  <1>20. CASE MarkReady(c)
    BY <1>20 DEF MarkReady
  <1>21. CASE TouchRead(c)
    BY <1>21 DEF TouchRead
  <1>22. CASE TouchWrite(c)
    BY <1>22 DEF TouchWrite
  <1>23. CASE StartAccept(c)
    BY <1>23 DEF StartAccept
  <1>24. CASE SessionEnds(c)
    BY <1>24 DEF SessionEnds
  <1>25. CASE RemoveTunnel(c)
    BY <1>25 DEF RemoveTunnel, Remove
  <1>26. CASE CloseTunnel(c)
    <2>1. /\ pc[c] \in Releasing \ {"remove"}
          /\ \E to \in {"closeListener", "closeSession", "done"} : pc' = [pc EXCEPT ![c] = to]
      BY <1>26 DEF CloseTunnel
    <2>2. /\ UNCHANGED <<hello, name, owner, ready, registryVars>>
          /\ closed' \in [Conns -> BOOLEAN]
          /\ \A d \in Conns : closed[d] => closed'[d]
          /\ \A d \in Conns \ {c} : closed'[d] = closed[d]
      <3>1. CloseStep(c)
        BY <1>26 DEF CloseTunnel, CloseStep
      <3>2. UNCHANGED <<hello, registryVars>>
        BY <1>26 DEF CloseTunnel
      <3>3. QED
        BY <3>1, <3>2, CloseEffect
    <2>3. WellFormed' /\ FlagsFollowHandler' /\ HandshakeUndisturbed'
      BY <2>1, <2>2
    <2>4. DropTargets'
      BY <2>1, <2>2
    <2>5. NoOrphanTunnel' /\ NoStaleName'
      BY <2>1, <2>2
    <2>6. QED
      BY <2>3, <2>4, <2>5
  <1>27. QED
    BY <1>1, <1>2, <1>3, <1>4, <1>5, <1>6, <1>7, <1>8, <1>9, <1>10, <1>11, <1>12, <1>13, <1>14, <1>15, <1>16, <1>17, <1>18, <1>19, <1>20, <1>21, <1>22, <1>23, <1>24, <1>25, <1>26 DEF ConnStep, HandlerStep

\* A step of a request.  It can find routable tunnels only, so a tunnel in its
\* handshake is out of its reach, and what it takes out it goes on to close.
LEMMA RequestStepNames ==
    ASSUME IInv, NEW k \in Requests, RequestStep(k), UNCHANGED <<controlVars, restarts>>
    PROVE  Names'
  <1> USE RegistryAssumption
      DEF IInv, Names, WellFormed, DropTargets, FlagsFollowHandler, HandshakeUndisturbed,
          NoOrphanTunnel, NoStaleName, Registered, Published, Dropping, PastHandshake, Token,
          ConnPC, RequestPC, Resolving, Handshake, Serving, Releasing, TypeOK, RegistryTypeOK,
          ControlTypeOK, ApiTypeOK, storeVars, registryVars, tunnelVars, controlVars, apiVars,
          Step, Handles
  <1>1. CASE Authed(k)
    BY <1>1 DEF Authed
  <1>2. CASE TouchActorRead(k)
    BY <1>2 DEF TouchActorRead
  <1>3. CASE TouchActorWrite(k)
    BY <1>3 DEF TouchActorWrite
  <1>4. CASE HandleRead(k)
    BY <1>4 DEF HandleRead
  <1>5. CASE HandleCreateToken(k)
    BY <1>5 DEF HandleCreateToken
  <1>6. CASE HandleRevokeToken(k)
    BY <1>6 DEF HandleRevokeToken
  <1>7. CASE RevokeWrite(k)
    BY <1>7 DEF RevokeWrite
  <1>8. CASE HandleDeleteToken(k)
    BY <1>8 DEF HandleDeleteToken
  <1>9. CASE HandleCloseTunnel(k)
    <2> DEFINE d == req[k].tun
    <2>1. req[k] \in RequestInputs /\ req[k].kind = "kill" /\ d \in Conns
      BY <1>9, RequestFields DEF HandleCloseTunnel
    <2>2. CASE ByID(d)
      <3>1. Registered(d) /\ ready[d] /\ Published(d)
        BY <2>1, <2>2 DEF ByID
      <3>2. PastHandshake(d) /\ name[d] \in Subs
        BY <2>1, <3>1
      <3>3. owner[d] = Token(d) /\ hello[d] \in Hellos
        BY <2>1, <3>1
      <3>4. owner[d] \in Tokens
        BY <3>3, HelloFields
      <3>5. /\ UNCHANGED <<hello, name, owner, pc, ready, closed, bySub, req, cur>>
            /\ \/ rpc' = [rpc EXCEPT ![k] = "drop"] /\ todo' = [todo EXCEPT ![k] = {d}]
               \/ rpc' = [rpc EXCEPT ![k] = "done"] /\ todo' = todo
        BY <1>9, <2>2 DEF HandleCloseTunnel
      <3>6. WellFormed'
        BY <2>1, <3>5
      <3>a. FlagsFollowHandler' /\ HandshakeUndisturbed'
        BY <3>5
      <3>7. DropTargets'
        BY <2>1, <3>2, <3>4, <3>5
      <3>8. \A j \in Requests, e \in Conns : Dropping(j, e)' <=> Dropping(j, e)
        <4>1. rpc[k] = "handle" /\ rpc'[k] \in {"drop", "done"}
          BY <1>9, <3>5 DEF HandleCloseTunnel
        <4>2. \A j \in Requests \ {k} : rpc'[j] = rpc[j]
          BY <3>5
        <4>3. cur' = cur
          BY <3>5
        <4>4. QED
          BY <4>1, <4>2, <4>3
      <3>9. NoOrphanTunnel'
        BY <3>5, <3>8
      <3>b. NoStaleName'
        BY <3>5
      <3>10. QED
        BY <3>6, <3>a, <3>7, <3>9, <3>b
    <2>3. CASE ~ByID(d)
      BY <1>9, <2>3 DEF HandleCloseTunnel
    <2>4. QED
      BY <2>2, <2>3
  <1>10. CASE ListTunnels(k)
    <2>1. \A d \in List(req[k].token) :
            d \in Conns /\ PastHandshake(d) /\ name[d] \in Subs /\ owner[d] \in Tokens
      <3> SUFFICES ASSUME NEW d \in List(req[k].token)
                   PROVE  d \in Conns /\ PastHandshake(d) /\ name[d] \in Subs /\ owner[d] \in Tokens
        OBVIOUS
      <3>1. d \in Conns /\ Registered(d) /\ ready[d] /\ Published(d)
        BY DEF List
      <3>2. QED
        BY <3>1, HelloFields
    <2>2. QED
      BY <1>10, <2>1 DEF ListTunnels
  <1>11. CASE DropTunnel(k)
    <2>1. PICK d \in todo[k] :
            /\ Step(k, "drop", "close")
            /\ Remove(d)
            /\ cur' = [cur EXCEPT ![k] = d]
            /\ todo' = [todo EXCEPT ![k] = @ \ {d}]
            /\ UNCHANGED <<req, tunnelVars>>
      BY <1>11 DEF DropTunnel
    <2>2. d \in Conns /\ PastHandshake(d) /\ name[d] \in Subs /\ owner[d] \in Tokens
      BY <2>1
    <2>3. \A e \in Conns \ {d} : Registered(e)' <=> Registered(e)
      BY <2>1, <2>2 DEF Remove
    <2>4. WellFormed' /\ DropTargets' /\ FlagsFollowHandler'
      BY <2>1, <2>2
    <2>5. HandshakeUndisturbed'
      BY <2>1, <2>2, <2>3
    <2>6. NoOrphanTunnel'
      BY <2>1, <2>2, <2>3
    <2>7. NoStaleName'
      BY <2>1, <2>2 DEF Remove
    <2>8. QED
      BY <2>4, <2>5, <2>6, <2>7
  <1>12. CASE CloseDropped(k)
    <2> DEFINE d == cur[k]
    <2>1. d \in Conns /\ PastHandshake(d)
      BY <1>12 DEF CloseDropped
    <2>2. /\ UNCHANGED <<req, todo, cur, name, owner, ready, registryVars>>
          /\ closed' \in [Conns -> BOOLEAN]
          /\ \A e \in Conns : closed[e] => closed'[e]
          /\ \A e \in Conns \ {d} : closed'[e] = closed[e]
      <3>1. CloseStep(d)
        BY <1>12 DEF CloseDropped, CloseStep
      <3>2. UNCHANGED <<req, todo, cur, registryVars>>
        BY <1>12 DEF CloseDropped
      <3>3. QED
        BY <2>1, <3>1, <3>2, CloseEffect
    <2>3. \/ rpc[k] = "close" /\ rpc' = [rpc EXCEPT ![k] = "closeListener"] /\ closed'[d]
          \/ rpc[k] = "close" /\ rpc' = [rpc EXCEPT ![k] = "drop"] /\ closed[d]
          \/ rpc[k] = "closeListener" /\ rpc' = [rpc EXCEPT ![k] = "closeSession"] /\ closed[d]
          \/ rpc[k] = "closeSession" /\ rpc' = [rpc EXCEPT ![k] = "drop"] /\ closed[d]
      BY <1>12, <2>1 DEF CloseDropped, CloseBegin
    <2>4. WellFormed' /\ FlagsFollowHandler' /\ HandshakeUndisturbed' /\ NoStaleName'
      BY <2>1, <2>2, <2>3
    <2>5. DropTargets'
      BY <2>1, <2>2, <2>3
    <2>6. NoOrphanTunnel'
      BY <2>1, <2>2, <2>3
    <2>7. QED
      BY <2>4, <2>5, <2>6
  <1>13. CASE DropDone(k)
    BY <1>13 DEF DropDone
  <1>14. CASE HandleReserve(k)
    BY <1>14 DEF HandleReserve
  <1>15. CASE ReserveWrite(k)
    BY <1>15 DEF ReserveWrite
  <1>16. CASE HandleRelease(k)
    BY <1>16 DEF HandleRelease
  <1>17. CASE ReleaseWrite(k)
    BY <1>17 DEF ReleaseWrite
  <1>18. QED
    BY <1>1, <1>2, <1>3, <1>4, <1>5, <1>6, <1>7, <1>8, <1>9, <1>10, <1>11, <1>12, <1>13, <1>14, <1>15, <1>16, <1>17 DEF RequestStep, HandleStep

\* A restart: what is not over has not begun.
LEMMA RestartNames ==
    ASSUME IInv, Restart
    PROVE  Names'
  BY RegistryAssumption
  DEF IInv, Names, Restart, WellFormed, DropTargets, FlagsFollowHandler, HandshakeUndisturbed,
      NoOrphanTunnel, NoStaleName, Registered, Published, Dropping, PastHandshake, Token,
      ConnPC, RequestPC, Resolving, Handshake, Serving, Releasing, TypeOK, RegistryTypeOK,
      ControlTypeOK, ApiTypeOK

-----------------------------------------------------------------------------
LEMMA InitIInv == Init => IInv
  BY StoreAssumption, RegistryAssumption, ControlAssumption, ServerAssumption
  DEF Init, IInv, TypeOK, StoreTypeOK, RegistryTypeOK, ControlTypeOK, ApiTypeOK, TokenStatus,
      RegistryInit, ControlInit, ApiInit, ConnPC, RequestPC, WellFormed, DropTargets,
      FlagsFollowHandler, HandshakeUndisturbed, NoOrphanTunnel, NoStaleName, Registered,
      Published, Dropping, PastHandshake, Resolving, Handshake, Serving, Releasing

LEMMA NextIInv == IInv /\ [Next]_vars => IInv'
  <1> SUFFICES ASSUME IInv, [Next]_vars
               PROVE  IInv'
    OBVIOUS
  <1>1. ASSUME NEW c \in Conns, ConnStep(c), UNCHANGED <<apiVars, restarts>>
        PROVE  IInv'
    BY <1>1, ConnStepType, ConnStepNames DEF IInv, Names
  <1>2. ASSUME NEW k \in Requests, RequestStep(k), UNCHANGED <<controlVars, restarts>>
        PROVE  IInv'
    BY <1>2, RequestStepType, RequestStepNames DEF IInv, Names
  <1>3. CASE Restart
    BY <1>3, RestartType, RestartNames DEF IInv, Names
  <1>4. CASE UNCHANGED vars
    BY <1>4
    DEF vars, storeVars, registryVars, tunnelVars, controlVars, apiVars, IInv, TypeOK,
        StoreTypeOK, RegistryTypeOK, ControlTypeOK, ApiTypeOK, WellFormed, DropTargets,
        FlagsFollowHandler, HandshakeUndisturbed, NoOrphanTunnel, NoStaleName, Registered,
        Published, Dropping, PastHandshake, Token
  <1>5. QED
    BY <1>1, <1>2, <1>3, <1>4 DEF Next

\* IInv holds in every reachable state, whatever the size of the instance.
THEOREM Invariance == Spec => []IInv
  BY InitIInv, NextIInv, PTL DEF Spec

\* Every variable of the server keeps its type for ever.
THEOREM TypeCorrect == Spec => []TypeOK
  <1>1. IInv => TypeOK
    BY DEF IInv
  <1>2. QED
    BY <1>1, Invariance, PTL

\* A handshake is never disturbed by a management request: its tunnel keeps
\* the name it was given and is not closed under it (what byID and list may
\* see in registry.go, and the order of handleControlConn).
THEOREM HandshakeIsSafe == Spec => []HandshakeUndisturbed
  <1>1. IInv => HandshakeUndisturbed
    BY DEF IInv
  <1>2. QED
    BY <1>1, Invariance, PTL

\* No live tunnel is ever lost to the edge, however often registry.remove is
\* called for tunnels that held its name before.
THEOREM NoTunnelIsOrphaned == Spec => []NoOrphanTunnel
  <1>1. IInv => NoOrphanTunnel
    BY DEF IInv
  <1>2. QED
    BY <1>1, Invariance, PTL

\* No name is ever left leading to a tunnel whose handler has let go of it.
THEOREM NoNameGoesStale == Spec => []NoStaleName
  <1>1. IInv => NoStaleName
    BY DEF IInv
  <1>2. QED
    BY <1>1, Invariance, PTL

-----------------------------------------------------------------------------
(* The server implements a lease of names, for any instance: every step of *)
(* Server is a step of NameLease on bySub and Lives, or changes neither.   *)

\* The handler has not published its tunnel.
New == {"idle"} \cup Resolving

\* Only a tunnel its handler runs is registered (NoStaleName), so the life of
\* a connection is read off its pc before and after that.
LEMMA RegisteredIsPublished ==
    ASSUME IInv, NEW c \in Conns, Registered(c)
    PROVE  Published(c)
  BY RegistryAssumption DEF IInv, NoStaleName, Registered

LEMMA NewLife ==
    ASSUME IInv, NEW c \in Conns, pc[c] \in New
    PROVE  LeaseLife(c) = "new"
  <1>1. ~Published(c)
    BY DEF New, Published, Resolving, Handshake, Serving
  <1>2. QED
    BY <1>1, RegisteredIsPublished DEF LeaseLife, New

LEMMA LaterLife ==
    ASSUME NEW c \in Conns, pc[c] \notin New
    PROVE  LeaseLife(c) = IF Registered(c) THEN "holding" ELSE "over"
  BY DEF LeaseLife, New

\* What a step of a connection does, short of registry.add and registry.remove.
LEMMA ConnMoves ==
    ASSUME IInv, NEW c \in Conns, ConnStep(c), ~AddTunnel(c), ~RemoveTunnel(c)
    PROVE  /\ bySub' = bySub
           /\ \A d \in Conns \ {c} : pc'[d] = pc[d] /\ name'[d] = name[d]
           /\ \/ pc[c] \in New /\ pc'[c] \in New \cup {"done", "close"}
              \/ pc[c] \notin New /\ pc'[c] \notin New /\ name'[c] = name[c]
  <1> USE DEF IInv, TypeOK, RegistryTypeOK, ControlTypeOK, registryVars, tunnelVars, controlVars,
              Goto, New, Resolving
  <1>1. CASE ReadHello(c) \/ RefuseHello(c) \/ AgentLeaves(c)
    BY <1>1 DEF ReadHello, RefuseHello, AgentLeaves
  <1>2. CASE Authenticate(c) \/ RefuseToken(c) \/ CheckLimit(c)
    BY <1>2 DEF Authenticate, RefuseToken, CheckLimit
  <1>3. CASE CheckReservation(c) \/ CheckLive(c)
    BY <1>3 DEF CheckReservation, CheckLive, AfterName
  <1>4. CASE Draw(c) \/ CheckDrawn(c) \/ DrawFails(c)
    BY <1>4 DEF Draw, CheckDrawn, DrawFails, AfterName
  <1>5. CASE BindPort(c) \/ SkipPort(c) \/ RefusePort(c) \/ AddFails(c)
    BY <1>5 DEF BindPort, SkipPort, RefusePort, AddFails
  <1>6. CASE WriteAck(c) \/ HandshakeFails(c) \/ OpenSession(c) \/ MarkReady(c)
    BY <1>6 DEF WriteAck, HandshakeFails, OpenSession, MarkReady
  <1>7. CASE TouchRead(c) \/ TouchWrite(c) \/ StartAccept(c) \/ SessionEnds(c)
    BY <1>7 DEF TouchRead, TouchWrite, StartAccept, SessionEnds
  <1>8. CASE CloseTunnel(c)
    <2>1. UNCHANGED <<bySub, name>>
      BY <1>8 DEF CloseTunnel, CloseBegin, CloseListener, CloseSession
    <2>2. /\ pc[c] \in {"close", "closeListener", "closeSession"}
          /\ \E to \in {"closeListener", "closeSession", "done"} : pc' = [pc EXCEPT ![c] = to]
      BY <1>8 DEF CloseTunnel
    <2>3. QED
      BY <2>1, <2>2
  <1>9. QED
    BY <1>1, <1>2, <1>3, <1>4, <1>5, <1>6, <1>7, <1>8 DEF ConnStep, HandlerStep

\* registry.remove of a tunnel that is past its handshake ends its lease, if
\* it still has one, and nobody else's.
LEMMA RemoveEndsLease ==
    ASSUME IInv, NEW c \in Conns, pc[c] \notin New, pc'[c] \notin New, name[c] \in Subs,
           Remove(c), name' = name, \A d \in Conns \ {c} : pc'[d] = pc[d]
    PROVE  Lease!GiveUp(c, name[c]) \/ UNCHANGED <<bySub, Lives>>
  <1> USE DEF IInv, TypeOK, RegistryTypeOK
  <1>1. \A d \in Conns \ {c} : LeaseLife(d)' = LeaseLife(d)
    <2>1. \A d \in Conns \ {c} : Registered(d)' <=> Registered(d)
      BY RegistryAssumption DEF Remove, Registered
    <2>2. QED
      BY <2>1 DEF LeaseLife
  <1>2. CASE bySub[name[c]] = c
    <2>1. bySub' = [bySub EXCEPT ![name[c]] = NoConn]
      BY <1>2 DEF Remove
    <2>2. LeaseLife(c)' = "over"
      BY <2>1, RegistryAssumption DEF LeaseLife, Registered, New
    <2>3. Lives' = [Lives EXCEPT ![c] = "over"]
      BY <1>1, <2>2 DEF Lives
    <2>4. QED
      BY <1>2, <2>1, <2>3 DEF Lease!GiveUp
  <1>3. CASE bySub[name[c]] # c
    <2>1. bySub' = bySub
      BY <1>3 DEF Remove
    <2>2. LeaseLife(c)' = LeaseLife(c)
      BY <2>1 DEF LeaseLife, Registered, New
    <2>3. Lives' = Lives
      BY <1>1, <2>2 DEF Lives
    <2>4. QED
      BY <2>1, <2>3
  <1>4. QED
    BY <1>2, <1>3

\* A step of a connection is Acquire, GiveUp, Refuse or none of the lease's business.
LEMMA ConnStepLease ==
    ASSUME IInv, IInv', NEW c \in Conns, ConnStep(c), UNCHANGED <<apiVars, restarts>>
    PROVE  Lease!LeaseNext \/ UNCHANGED <<bySub, Lives>>
  <1> USE DEF IInv, TypeOK, RegistryTypeOK, ControlTypeOK
  <1>1. CASE AddTunnel(c)
    <2>1. /\ name[c] \in Subs /\ bySub[name[c]] = NoConn
          /\ bySub' = [bySub EXCEPT ![name[c]] = c]
          /\ pc[c] = "add" /\ pc' = [pc EXCEPT ![c] = "ack"]
          /\ name' = name
      BY <1>1 DEF AddTunnel, Add, Goto, WellFormed, tunnelVars
    <2>2. \A d \in Conns \ {c} : LeaseLife(d)' = LeaseLife(d)
      <3>1. \A d \in Conns \ {c} : Registered(d)' <=> Registered(d)
        BY <2>1, RegistryAssumption DEF Registered
      <3>2. QED
        BY <2>1, <3>1 DEF LeaseLife
    <2>3. LeaseLife(c) = "new"
      BY <2>1, NewLife DEF New, Resolving
    <2>4. LeaseLife(c)' = "holding"
      BY <2>1 DEF LeaseLife, Registered
    <2>5. Lives' = [Lives EXCEPT ![c] = "holding"]
      BY <2>2, <2>4 DEF Lives
    <2>6. Lease!Acquire(c, name[c])
      BY <2>1, <2>3, <2>5 DEF Lease!Acquire, Lives
    <2>7. QED
      BY <2>1, <2>6 DEF Lease!LeaseNext
  <1>2. CASE RemoveTunnel(c)
    <2>1. /\ pc[c] = "remove" /\ pc' = [pc EXCEPT ![c] = "close"]
          /\ Remove(c) /\ name' = name
      BY <1>2 DEF RemoveTunnel, Goto, tunnelVars
    <2>2. pc[c] \notin New /\ pc'[c] \notin New /\ name[c] \in Subs
      BY <2>1 DEF New, Resolving, WellFormed
    <2>3. Lease!GiveUp(c, name[c]) \/ UNCHANGED <<bySub, Lives>>
      BY <2>1, <2>2, RemoveEndsLease
    <2>4. QED
      BY <2>2, <2>3 DEF Lease!LeaseNext
  <1>3. CASE ~AddTunnel(c) /\ ~RemoveTunnel(c)
    <2>1. /\ bySub' = bySub
          /\ \A d \in Conns \ {c} : pc'[d] = pc[d] /\ name'[d] = name[d]
          /\ \/ pc[c] \in New /\ pc'[c] \in New \cup {"done", "close"}
             \/ pc[c] \notin New /\ pc'[c] \notin New /\ name'[c] = name[c]
      BY <1>3, ConnMoves
    <2>2. \A d \in Conns \ {c} : LeaseLife(d)' = LeaseLife(d)
      BY <2>1 DEF LeaseLife, Registered
    <2>3. CASE pc[c] \in New /\ pc'[c] \in New
      <3>1. LeaseLife(c) = "new"
        BY <2>3, NewLife
      <3>2. LeaseLife(c)' = "new"
        <4>1. ~Published(c)'
          BY <2>3 DEF New, Published, Resolving, Handshake, Serving
        <4>2. ~Registered(c)'
          BY <4>1, RegistryAssumption DEF NoStaleName, Registered
        <4>3. QED
          BY <2>3, <4>2 DEF LeaseLife, New
      <3>3. Lives' = Lives
        BY <2>2, <3>1, <3>2 DEF Lives
      <3>4. QED
        BY <2>1, <3>3
    <2>4. CASE pc[c] \in New /\ pc'[c] \in {"done", "close"}
      <3>1. LeaseLife(c) = "new"
        BY <2>4, NewLife
      <3>2. LeaseLife(c)' = "over"
        <4>1. ~Published(c)'
          BY <2>4 DEF Published, Handshake, Serving
        <4>2. ~Registered(c)'
          BY <4>1, RegistryAssumption DEF NoStaleName, Registered
        <4>3. QED
          BY <2>4, <4>2 DEF LeaseLife, Resolving
      <3>3. Lives' = [Lives EXCEPT ![c] = "over"]
        BY <2>2, <3>2 DEF Lives
      <3>4. Lease!Refuse(c)
        BY <2>1, <3>1, <3>3 DEF Lease!Refuse, Lives
      <3>5. QED
        BY <3>4 DEF Lease!LeaseNext
    <2>5. CASE pc[c] \notin New /\ pc'[c] \notin New /\ name'[c] = name[c]
      <3>1. LeaseLife(c)' = LeaseLife(c)
        BY <2>1, <2>5 DEF LeaseLife, Registered, New
      <3>2. Lives' = Lives
        BY <2>2, <3>1 DEF Lives
      <3>3. QED
        BY <2>1, <3>2
    <2>6. QED
      BY <2>1, <2>3, <2>4, <2>5
  <1>4. QED
    BY <1>1, <1>2, <1>3

\* A step of a request is GiveUp, or none of the lease's business.
LEMMA RequestStepLease ==
    ASSUME IInv, NEW k \in Requests, RequestStep(k), UNCHANGED <<controlVars, restarts>>
    PROVE  Lease!LeaseNext \/ UNCHANGED <<bySub, Lives>>
  <1> USE DEF controlVars
  <1>1. CASE DropTunnel(k)
    <2>1. PICK c \in todo[k] : Remove(c) /\ name' = name
      BY <1>1 DEF DropTunnel, tunnelVars
    <2>2. c \in Conns /\ PastHandshake(c) /\ name[c] \in Subs
      BY DEF IInv, TypeOK, ApiTypeOK, DropTargets
    <2>3. pc[c] \notin New
      BY <2>2 DEF PastHandshake, New, Resolving, Serving, Releasing
    <2>4. Lease!GiveUp(c, name[c]) \/ UNCHANGED <<bySub, Lives>>
      BY <2>1, <2>2, <2>3, RemoveEndsLease
    <2>5. QED
      BY <2>2, <2>4 DEF Lease!LeaseNext
  <1>2. CASE ~DropTunnel(k)
    <2>1. UNCHANGED <<bySub, name>>
      BY <1>2
      DEF RequestStep, HandleStep, Authed, TouchActorRead, TouchActorWrite, HandleRead,
          HandleCreateToken, HandleRevokeToken, RevokeWrite, HandleDeleteToken,
          HandleCloseTunnel, ListTunnels, CloseDropped, DropDone, HandleReserve,
          ReserveWrite, HandleRelease, ReleaseWrite, CloseBegin, CloseListener, CloseSession,
          registryVars, tunnelVars
    <2>2. QED
      BY <2>1 DEF Lives, LeaseLife, Registered
  <1>3. QED
    BY <1>1, <1>2

\* A restart is Lose: of every connection that had begun.
LEMMA RestartLease ==
    ASSUME IInv, Restart
    PROVE  Lease!Lose
  <1> USE DEF IInv, TypeOK, ControlTypeOK
  <1> DEFINE lost == {c \in Conns : pc[c] # "idle"}
  <1>1. \A c \in Conns : ~Registered(c)'
    BY RegistryAssumption DEF Restart, Registered
  <1>2. \A c \in Conns : LeaseLife(c)' = IF c \in lost THEN "over" ELSE LeaseLife(c)
    <2>1. \A c \in Conns : pc[c] = "idle" => LeaseLife(c) = "new"
      BY NewLife DEF New
    <2>2. \A c \in Conns : pc'[c] = IF pc[c] = "idle" THEN "idle" ELSE "done"
      BY DEF Restart
    <2>3. QED
      BY <1>1, <2>1, <2>2 DEF LeaseLife, Resolving
  <1>3. Lives' = [c \in Conns |-> IF c \in lost THEN "over" ELSE Lives[c]]
    BY <1>2 DEF Lives
  <1>4. \A c \in Conns : Lives'[c] # "holding"
    BY <1>1 DEF Lives, LeaseLife
  <1>5. bySub' = [s \in Subs |-> NoConn]
    BY DEF Restart
  <1>6. QED
    BY <1>3, <1>4, <1>5 DEF Lease!Lose

-----------------------------------------------------------------------------
\* The server implements NameLease: a name is leased to one connection at a
\* time, passes through nobody, and a lease that was given up (by the handler,
\* by a request that drops the tunnel, by a restart) never comes back, whoever
\* else calls registry.remove.
THEOREM LeaseRefinement == Spec => ImplementsNameLease
  <1>1. Init => Lease!LeaseInit
    BY RegistryAssumption
    DEF Init, RegistryInit, ControlInit, Lease!LeaseInit, Lives, LeaseLife, Registered
  <1>2. IInv /\ IInv' /\ [Next]_vars => [Lease!LeaseNext]_(Lease!leaseVars)
    <2> SUFFICES ASSUME IInv, IInv', [Next]_vars
                 PROVE  Lease!LeaseNext \/ UNCHANGED <<bySub, Lives>>
      BY DEF Lease!leaseVars
    <2>1. ASSUME NEW c \in Conns, ConnStep(c), UNCHANGED <<apiVars, restarts>>
          PROVE  Lease!LeaseNext \/ UNCHANGED <<bySub, Lives>>
      BY <2>1, ConnStepLease
    <2>2. ASSUME NEW k \in Requests, RequestStep(k), UNCHANGED <<controlVars, restarts>>
          PROVE  Lease!LeaseNext \/ UNCHANGED <<bySub, Lives>>
      BY <2>2, RequestStepLease
    <2>3. CASE Restart
      BY <2>3, RestartLease DEF Lease!LeaseNext
    <2>4. CASE UNCHANGED vars
      BY <2>4 DEF vars, registryVars, tunnelVars, controlVars, Lives, LeaseLife, Registered
    <2>5. QED
      BY <2>1, <2>2, <2>3, <2>4 DEF Next
  <1>3. QED
    BY <1>1, <1>2, Invariance, PTL DEF Spec, ImplementsNameLease, Lease!LeaseSpec
=============================================================================
