--------------------------- MODULE RegistryProofs ---------------------------
(***************************************************************************)
(* Ports, sockets, counts and sessions, for any instance of Server: the    *)
(* port index agrees with the names, a listening socket belongs to the     *)
(* tunnel that was given its port, and nothing is left behind at rest.     *)
(*                                                                         *)
(* The argument rests on who closes a tunnel.  Close may be called by the  *)
(* handler and by any number of requests, but the flag picks one of them,  *)
(* and that one has still to pass the listener and the session; until it   *)
(* has, it stands for them.                                                *)
(***************************************************************************)
EXTENDS ServerProofs, FiniteSetTheorems

\* Before bindTCP has given the tunnel its port.
Unported == {"idle", "authenticate", "limit", "reservation", "lookup", "draw", "drawn", "bind"}

\* With the port bound, and not yet closed by its own handler.
Ported == {"add"} \cup Handshake \cup Serving \cup {"remove", "close"}

\* Request k has won the race for c's Close, and is at one of these steps of it.
Closes(k, c, steps) == cur[k] = c /\ rpc[k] \in steps

\* Whoever closes c has still to come to its listener, or to its session.
ListenerDue(c) ==
    pc[c] = "closeListener" \/ \E k \in Requests : Closes(k, c, {"closeListener"})
SessionDue(c) ==
    \/ pc[c] \in {"closeListener", "closeSession"}
    \/ \E k \in Requests : Closes(k, c, {"closeListener", "closeSession"})

Sockets ==
    /\ \A c \in Conns :
          /\ pc[c] \in Unported => port[c] = NoPort
          /\ pc[c] \in {"closeListener", "closeSession"} => closed[c]
          /\ port[c] # NoPort /\ pc[c] \in Ported /\ ~closed[c] => bound[port[c]] = c
    /\ \A p \in Ports : \A c \in Conns : bound[p] = c =>
          /\ port[c] = p
          /\ pc[c] \notin Unported
          /\ pc[c] \in {"closeListener", "closeSession", "done"} => closed[c]
          /\ closed[c] => ListenerDue(c)

Sessions ==
    \A c \in Conns : session[c] = "open" =>
        /\ pc[c] \notin {"idle", "ack", "yamux"} \cup Resolving
        /\ pc[c] = "done" => closed[c]
        /\ closed[c] => SessionDue(c)

-----------------------------------------------------------------------------
(* Sockets and sessions.                                                   *)

LEMMA ConnStepSockets ==
    ASSUME IInv, Sockets, Sessions,
           NEW c \in Conns, ConnStep(c), UNCHANGED <<apiVars, restarts>>
    PROVE  Sockets' /\ Sessions'
  <1> USE RegistryAssumption, PortTypes
      DEF IInv, TypeOK, RegistryTypeOK, ControlTypeOK, FlagsFollowHandler, HandshakeUndisturbed,
          Sockets, Sessions, Unported, Ported, Closes, ListenerDue, SessionDue,
          ConnPC, Resolving, Handshake, Serving, Releasing, NoPort,
          storeVars, registryVars, tunnelVars, controlVars, apiVars, Goto
  <1>1. CASE ReadHello(c)
    BY <1>1 DEF ReadHello
  <1>2. CASE RefuseHello(c)
    BY <1>2 DEF RefuseHello
  <1>3. CASE AgentLeaves(c)
    BY <1>3 DEF AgentLeaves
  <1>4. CASE Authenticate(c)
    BY <1>4 DEF Authenticate
  <1>5. CASE RefuseToken(c)
    BY <1>5 DEF RefuseToken
  <1>6. CASE CheckLimit(c)
    BY <1>6 DEF CheckLimit
  <1>7. CASE CheckReservation(c)
    BY <1>7 DEF CheckReservation
  <1>8. CASE CheckLive(c)
    BY <1>8 DEF CheckLive, AfterName
  <1>9. CASE Draw(c)
    BY <1>9 DEF Draw
  <1>10. CASE CheckDrawn(c)
    BY <1>10 DEF CheckDrawn, AfterName
  <1>11. CASE DrawFails(c)
    BY <1>11 DEF DrawFails
  <1>12. CASE BindPort(c)
    BY <1>12 DEF BindPort, PortFree
  <1>13. CASE SkipPort(c)
    BY <1>13 DEF SkipPort
  <1>14. CASE RefusePort(c)
    BY <1>14 DEF RefusePort
  <1>15. CASE AddTunnel(c)
    BY <1>15 DEF AddTunnel
  <1>16. CASE AddFails(c)
    BY <1>16 DEF AddFails
  <1>17. CASE WriteAck(c)
    BY <1>17 DEF WriteAck
  <1>18. CASE HandshakeFails(c)
    BY <1>18 DEF HandshakeFails
  <1>19. CASE OpenSession(c)
    BY <1>19 DEF OpenSession
  <1>20. CASE MarkReady(c)
    BY <1>20 DEF MarkReady
  <1>21. CASE TouchRead(c)
    BY <1>21 DEF TouchRead
  <1>22. CASE TouchWrite(c)
    BY <1>22 DEF TouchWrite
  <1>23. CASE StartAccept(c)
    BY <1>23 DEF StartAccept
  <1>24. CASE SessionEnds(c)
    BY <1>24 DEF SessionEnds
  <1>25. CASE RemoveTunnel(c)
    <2>1. pc[c] = "remove" /\ pc' = [pc EXCEPT ![c] = "close"]
      BY <1>25 DEF RemoveTunnel
    <2>2. UNCHANGED <<tunnelVars, rpc, cur>>
      BY <1>25 DEF RemoveTunnel
    <2>3. QED
      BY <2>1, <2>2
  <1>26. CASE CloseTunnel(c)
    <2>1. CASE pc[c] = "close" /\ CloseBegin(c)
      BY <1>26, <2>1 DEF CloseTunnel, CloseBegin
    <2>2. CASE pc[c] = "close" /\ closed[c] /\ UNCHANGED tunnelVars
      BY <1>26, <2>2 DEF CloseTunnel, CloseBegin
    <2>3. CASE pc[c] = "closeListener"
      <3>1. /\ pc' = [pc EXCEPT ![c] = "closeSession"]
            /\ UNCHANGED <<port, closed, session, rpc, cur>>
            /\ bound' = [p \in Ports |-> IF bound[p] = c THEN NoConn ELSE bound[p]]
        BY <1>26, <2>3 DEF CloseTunnel, CloseListener
      <3>2. closed[c]
        BY <2>3
      <3>3. \A p \in Ports, d \in Conns : bound'[p] = d <=> d # c /\ bound[p] = d
        BY <3>1
      <3>4. Sockets'
        BY <2>3, <3>1, <3>2, <3>3
      <3>5. Sessions'
        BY <2>3, <3>1, <3>2
      <3>6. QED
        BY <3>4, <3>5
    <2>4. CASE pc[c] = "closeSession"
      BY <1>26, <2>4 DEF CloseTunnel, CloseSession
    <2>5. QED
      BY <1>26, <2>1, <2>2, <2>3, <2>4 DEF CloseTunnel
  <1>27. QED
    BY <1>1, <1>2, <1>3, <1>4, <1>5, <1>6, <1>7, <1>8, <1>9, <1>10, <1>11, <1>12, <1>13, <1>14, <1>15, <1>16, <1>17, <1>18, <1>19, <1>20, <1>21, <1>22, <1>23, <1>24, <1>25, <1>26 DEF ConnStep, HandlerStep

LEMMA RequestStepSockets ==
    ASSUME IInv, Sockets, Sessions,
           NEW k \in Requests, RequestStep(k), UNCHANGED <<controlVars, restarts>>
    PROVE  Sockets' /\ Sessions'
  <1> USE RegistryAssumption, PortTypes
      DEF IInv, TypeOK, RegistryTypeOK, ControlTypeOK, ApiTypeOK, DropTargets,
          Sockets, Sessions, Unported, Ported, Closes, ListenerDue, SessionDue,
          ConnPC, RequestPC, Resolving, Handshake, Serving, Releasing, NoPort,
          storeVars, registryVars, tunnelVars, controlVars, apiVars, Step
  <1>1. CASE UNCHANGED <<tunnelVars, cur>> /\ \A steps \in {{"closeListener"}, {"closeListener", "closeSession"}} :
                 rpc[k] \notin steps /\ rpc'[k] \notin steps /\ \A j \in Requests \ {k} : rpc'[j] = rpc[j]
    BY <1>1
  <1>2. CASE CloseDropped(k)
    <2> DEFINE c == cur[k]
    <2>0. c \in Conns
      BY <1>2 DEF CloseDropped
    <2>1. CASE rpc[k] = "close" /\ CloseBegin(c)
      BY <1>2, <2>0, <2>1 DEF CloseDropped, CloseBegin
    <2>2. CASE rpc[k] = "close" /\ closed[c] /\ UNCHANGED tunnelVars
      BY <1>2, <2>0, <2>2 DEF CloseDropped, CloseBegin
    <2>3. CASE rpc[k] = "closeListener"
      <3>1. /\ rpc' = [rpc EXCEPT ![k] = "closeSession"]
            /\ UNCHANGED <<port, closed, session, pc, cur>>
            /\ bound' = [p \in Ports |-> IF bound[p] = c THEN NoConn ELSE bound[p]]
        BY <1>2, <2>3 DEF CloseDropped, CloseListener
      <3>2. closed[c]
        BY <2>3
      <3>3. \A p \in Ports, d \in Conns : bound'[p] = d <=> d # c /\ bound[p] = d
        BY <3>1
      <3>4. Sockets'
        BY <2>3, <3>1, <3>2, <3>3
      <3>5. Sessions'
        BY <2>3, <3>1, <3>2
      <3>6. QED
        BY <3>4, <3>5
    <2>4. CASE rpc[k] = "closeSession"
      BY <1>2, <2>0, <2>4 DEF CloseDropped, CloseSession
    <2>5. QED
      BY <1>2, <2>1, <2>2, <2>3, <2>4 DEF CloseDropped
  <1>3. CASE DropTunnel(k) \/ DropDone(k)
    <2>1. /\ rpc[k] = "drop"
          /\ \E to \in {"close", "done"} : rpc' = [rpc EXCEPT ![k] = to]
      BY <1>3 DEF DropTunnel, DropDone
    <2>2. UNCHANGED tunnelVars /\ \E c \in Conns \cup {NoConn} : cur' = [cur EXCEPT ![k] = c]
      BY <1>3 DEF DropTunnel, DropDone
    <2>3. \A j \in Requests, c \in Conns :
             /\ Closes(j, c, {"closeListener"}) => Closes(j, c, {"closeListener"})'
             /\ Closes(j, c, {"closeListener", "closeSession"}) =>
                   Closes(j, c, {"closeListener", "closeSession"})'
      BY <2>1, <2>2
    <2>4. QED
      BY <2>2, <2>3
  <1>4. CASE ~CloseDropped(k) /\ ~DropTunnel(k) /\ ~DropDone(k)
    <2>1. UNCHANGED <<tunnelVars, cur>>
      BY <1>4 DEF RequestStep, HandleStep, Authed, TouchActorRead, TouchActorWrite, HandleRead,
           HandleCreateToken, HandleRevokeToken, RevokeWrite, HandleDeleteToken,
           HandleCloseTunnel, ListTunnels, HandleReserve, ReserveWrite, HandleRelease, ReleaseWrite
    <2>2. /\ \E to \in RequestPC \ {"closeListener", "closeSession"} : rpc' = [rpc EXCEPT ![k] = to]
          /\ rpc[k] \notin {"closeListener", "closeSession"}
      BY <1>4 DEF RequestStep, HandleStep, Authed, TouchActorRead, TouchActorWrite, HandleRead,
           HandleCreateToken, HandleRevokeToken, RevokeWrite, HandleDeleteToken, Handles,
           HandleCloseTunnel, ListTunnels, HandleReserve, ReserveWrite, HandleRelease, ReleaseWrite
    <2>3. QED
      BY <1>1, <2>1, <2>2
  <1>5. QED
    BY <1>2, <1>3, <1>4

-----------------------------------------------------------------------------
(* The port index.                                                         *)

\* What is registered is open, and what is being dropped is registered no more.
Index ==
    /\ PortIndexAgrees
    /\ \A c \in Conns : Registered(c) => ~closed[c]
    /\ \A k \in Requests, c \in Conns : Dropping(k, c) => ~Registered(c)

\* Only a tunnel in the hands of its handler, its port bound, is registered.
LEMMA RegisteredHere ==
    ASSUME IInv, NEW c \in Conns, Registered(c)
    PROVE  pc[c] \in Handshake \cup Serving \cup {"remove"}
  <1>1. bySub[name[c]] # NoConn
    BY RegistryAssumption DEF Registered
  <1>2. QED
    BY <1>1 DEF IInv, NoStaleName, Registered, Published

\* registry.add overwrites nobody's entry: the port was free for the kernel,
\* which every open tunnel of that port would have prevented.
LEMMA AddKeepsIndex ==
    ASSUME IInv, Sockets, Index, NEW c \in Conns, AddTunnel(c), UNCHANGED <<apiVars, restarts>>
    PROVE  Index'
  <1> USE RegistryAssumption, PortTypes DEF NoPort
  <1>1. pc[c] = "add" /\ name[c] \in Subs /\ ~closed[c] /\ bySub[name[c]] = NoConn
    BY DEF AddTunnel, Goto, IInv, WellFormed, FlagsFollowHandler, Resolving
  <1>2. bySub' = [bySub EXCEPT ![name[c]] = c] /\ UNCHANGED <<name, port, closed, rpc, cur>>
    BY DEF AddTunnel, Add, tunnelVars, apiVars
  <1>3. bySub \in [Subs -> Conns \cup {NoConn}] /\ port[c] \in Ports \cup {NoPort}
        /\ byPort \in [Ports -> Conns \cup {NoConn}]
    BY DEF IInv, TypeOK, RegistryTypeOK
  <1>4. ~Registered(c)
    BY <1>1, RegistryAssumption DEF Registered
  <1>5. Registered(c)' /\ \A d \in Conns \ {c} : Registered(d)' <=> Registered(d)
    BY <1>1, <1>2, <1>3 DEF Registered
  <1>6. \A d \in Conns : Registered(d) /\ port[c] # NoPort => port[d] # port[c]
    <2> SUFFICES ASSUME NEW d \in Conns, Registered(d), port[c] # NoPort, port[d] = port[c]
                 PROVE  FALSE
      OBVIOUS
    <2>1. bound[port[d]] = d
      BY RegisteredHere DEF Index, Sockets, Ported
    <2>2. bound[port[c]] = c
      BY <1>1 DEF Sockets, Ported
    <2>3. QED
      BY <2>1, <2>2, <1>4
  <1>7. \A d \in Conns, p \in Ports : byPort'[p] = d <=> Registered(d)' /\ port'[d] = p
    <2> SUFFICES ASSUME NEW d \in Conns, NEW p \in Ports
                 PROVE  byPort'[p] = d <=> Registered(d)' /\ port'[d] = p
      OBVIOUS
    <2>1. byPort[p] = d <=> Registered(d) /\ port[d] = p
      BY DEF Index, PortIndexAgrees
    <2>2. byPort'[p] = IF port[c] = p THEN c ELSE byPort[p]
      <3>1. p # NoPort
        BY PortTypes DEF Ports
      <3>2. byPort' = IF port[c] # NoPort THEN [byPort EXCEPT ![port[c]] = c] ELSE byPort
        BY DEF AddTunnel, Add
      <3>3. QED
        BY <1>3, <3>1, <3>2
    <2>3. port'[d] = port[d] /\ c \in Conns
      BY <1>2
    <2>4. CASE d = c
      <3>1. Registered(d)' /\ byPort[p] # d
        BY <2>1, <2>4, <1>4, <1>5
      <3>2. QED
        BY <2>2, <2>3, <2>4, <3>1
    <2>5. CASE d # c
      <3>1. Registered(d)' <=> Registered(d)
        BY <2>5, <1>5
      <3>2. port[c] = p => ~(Registered(d) /\ port[d] = p)
        <4>1. p # NoPort
          BY PortTypes DEF Ports
        <4>2. QED
          BY <4>1, <1>6
      <3>3. QED
        BY <2>1, <2>2, <2>3, <2>5, <3>1, <3>2
    <2>6. QED
      BY <2>4, <2>5
  <1>8. \A k \in Requests : ~Dropping(k, c)
    BY <1>1 DEF IInv, DropTargets, PastHandshake, Serving, Releasing
  <1>9. QED
    BY <1>1, <1>2, <1>5, <1>7, <1>8 DEF Index, PortIndexAgrees, Dropping

\* registry.remove takes a tunnel out of both maps or of neither.
LEMMA RemoveKeepsIndex ==
    ASSUME IInv, Index, NEW c \in Conns, name[c] \in Subs, Remove(c),
           UNCHANGED <<name, port, closed>>
    PROVE  /\ PortIndexAgrees'
           /\ ~Registered(c)'
           /\ \A d \in Conns \ {c} : Registered(d)' <=> Registered(d)
  <1> USE RegistryAssumption, PortTypes DEF NoPort
  <1>1. bySub \in [Subs -> Conns \cup {NoConn}] /\ port[c] \in Ports \cup {NoPort}
        /\ byPort \in [Ports -> Conns \cup {NoConn}]
    BY DEF IInv, TypeOK, RegistryTypeOK
  <1>2. ~Registered(c)'
    BY <1>1 DEF Registered, Remove
  <1>3. \A d \in Conns \ {c} : Registered(d)' <=> Registered(d)
    BY <1>1 DEF Registered, Remove
  <1>4. \A d \in Conns, p \in Ports : byPort'[p] = d <=> Registered(d)' /\ port'[d] = p
    <2> SUFFICES ASSUME NEW d \in Conns, NEW p \in Ports
                 PROVE  byPort'[p] = d <=> Registered(d)' /\ port'[d] = p
      OBVIOUS
    <2>1. byPort[p] = d <=> Registered(d) /\ port[d] = p
      BY DEF Index, PortIndexAgrees
    <2>2. byPort[p] = c <=> Registered(c) /\ port[c] = p
      BY DEF Index, PortIndexAgrees
    <2>3. byPort'[p] = IF port[c] = p /\ byPort[p] = c THEN NoConn ELSE byPort[p]
      <3>1. p # NoPort
        BY PortTypes DEF Ports
      <3>2. QED
        BY <1>1, <3>1 DEF Remove
    <2>4. QED
      BY <2>1, <2>2, <2>3, <1>2, <1>3
  <1>5. QED
    BY <1>2, <1>3, <1>4 DEF PortIndexAgrees

\* A step of a connection that writes no map leaves the names and ports of the
\* registered tunnels alone: the handlers that change theirs have none there.
LEMMA QuietConnIndex ==
    ASSUME IInv, IInv', Index, NEW c \in Conns, ConnStep(c),
           ~AddTunnel(c), ~RemoveTunnel(c), UNCHANGED <<apiVars, restarts>>
    PROVE  Index'
  <1>1. UNCHANGED <<bySub, byPort, rpc, cur>>
    BY DEF ConnStep, HandlerStep, ReadHello, RefuseHello, AgentLeaves, Authenticate, RefuseToken,
           CheckLimit, CheckReservation, CheckLive, Draw, CheckDrawn, DrawFails, BindPort, SkipPort,
           RefusePort, AddFails, WriteAck, HandshakeFails, OpenSession, MarkReady, TouchRead,
           TouchWrite, StartAccept, SessionEnds, CloseTunnel, registryVars, apiVars
  <1>2. /\ \A d \in Conns \ {c} : UNCHANGED <<name[d], port[d], closed[d]>>
        /\ \/ pc[c] \in Unported
           \/ UNCHANGED <<name[c], port[c], closed[c]>>
           \/ pc[c] = "close" /\ UNCHANGED <<name[c], port[c]>>
    BY DEF ConnStep, HandlerStep, ReadHello, RefuseHello, AgentLeaves, Authenticate, RefuseToken,
           CheckLimit, CheckReservation, CheckLive, Draw, CheckDrawn, DrawFails, BindPort, SkipPort,
           RefusePort, AddFails, WriteAck, HandshakeFails, OpenSession, MarkReady, TouchRead,
           TouchWrite, StartAccept, SessionEnds, CloseTunnel, CloseBegin, CloseListener,
           CloseSession, tunnelVars, Goto, Unported, IInv, TypeOK, RegistryTypeOK
  <1>3. \A d \in Conns \ {c} : Registered(d)' <=> Registered(d)
    BY <1>1, <1>2 DEF Registered
  <1>4. CASE UNCHANGED <<name[c], port[c], closed[c]>>
    <2>1. Registered(c)' <=> Registered(c)
      BY <1>1, <1>4 DEF Registered
    <2>2. QED
      BY <1>1, <1>2, <1>3, <1>4, <2>1 DEF Index, PortIndexAgrees, Dropping
  <1>5. CASE pc[c] \in Unported \cup {"close"}
    <2>1. ~Registered(c)
      BY <1>5, RegisteredHere DEF Unported, Handshake, Serving
    <2>2. ~Registered(c)'
      <3>1. \A s \in Subs : bySub[s] # c
        BY <1>5, RegistryAssumption
        DEF IInv, NoStaleName, Published, Unported, Handshake, Serving
      <3>2. QED
        BY <1>1, <3>1 DEF Registered
    <2>3. QED
      BY <1>1, <1>2, <1>3, <2>1, <2>2 DEF Index, PortIndexAgrees, Dropping
  <1>6. QED
    BY <1>2, <1>4, <1>5

LEMMA ConnStepIndex ==
    ASSUME IInv, IInv', Sockets, Index,
           NEW c \in Conns, ConnStep(c), UNCHANGED <<apiVars, restarts>>
    PROVE  Index'
  <1>1. CASE RemoveTunnel(c)
    <2>1. pc[c] = "remove" /\ name[c] \in Subs /\ Remove(c)
      BY <1>1 DEF RemoveTunnel, Goto, IInv, WellFormed
    <2>2. UNCHANGED <<name, port, closed, rpc, cur>>
      BY <1>1 DEF RemoveTunnel, tunnelVars, apiVars
    <2>3. QED
      BY <2>1, <2>2, RemoveKeepsIndex DEF Index, Dropping
  <1>2. QED
    BY <1>1, AddKeepsIndex, QuietConnIndex

LEMMA RequestStepIndex ==
    ASSUME IInv, Index,
           NEW k \in Requests, RequestStep(k), UNCHANGED <<controlVars, restarts>>
    PROVE  Index'
  <1>1. CASE DropTunnel(k)
    <2>1. PICK c \in todo[k] :
            /\ Step(k, "drop", "close")
            /\ Remove(c)
            /\ cur' = [cur EXCEPT ![k] = c]
            /\ UNCHANGED tunnelVars
      BY <1>1 DEF DropTunnel
    <2>2. c \in Conns /\ name[c] \in Subs /\ UNCHANGED <<name, port, closed>>
      BY <2>1 DEF IInv, TypeOK, ApiTypeOK, DropTargets, tunnelVars
    <2>3. \A j \in Requests, d \in Conns : Dropping(j, d)' => d = c \/ Dropping(j, d)
      BY <2>1 DEF Dropping, Step, IInv, TypeOK, ApiTypeOK
    <2>4. QED
      BY <2>1, <2>2, <2>3, RemoveKeepsIndex DEF Index
  <1>2. CASE CloseDropped(k)
    <2>1. cur[k] \in Conns /\ UNCHANGED <<bySub, byPort, cur>>
      BY <1>2 DEF CloseDropped, IInv, DropTargets, Step, registryVars
    <2>2. UNCHANGED <<name, port>> /\ \A c \in Conns \ {cur[k]} : closed'[c] = closed[c]
      <3>1. CloseStep(cur[k])
        BY <1>2 DEF CloseDropped, CloseStep
      <3>2. QED
        BY <2>1, <3>1, CloseEffect DEF IInv, TypeOK
    <2>3. rpc[k] \in {"close", "closeListener", "closeSession"}
          /\ \E to \in RequestPC : rpc' = [rpc EXCEPT ![k] = to]
      BY <1>2 DEF CloseDropped, Step, RequestPC
    <2>4. \A j \in Requests, d \in Conns : Dropping(j, d)' => Dropping(j, d)
      BY <2>1, <2>3 DEF Dropping
    <2>5. ~Registered(cur[k])
      BY <2>1, <2>3 DEF Index, Dropping
    <2>6. \A c \in Conns : Registered(c)' <=> Registered(c)
      BY <2>1, <2>2 DEF Registered
    <2>7. QED
      BY <2>1, <2>2, <2>4, <2>5, <2>6 DEF Index, PortIndexAgrees
  <1>3. CASE ~DropTunnel(k) /\ ~CloseDropped(k)
    <2>1. UNCHANGED <<bySub, byPort, name, port, closed>>
      BY <1>3 DEF RequestStep, HandleStep, Authed, TouchActorRead, TouchActorWrite, HandleRead,
           HandleCreateToken, HandleRevokeToken, RevokeWrite, HandleDeleteToken, DropDone,
           HandleCloseTunnel, ListTunnels, HandleReserve, ReserveWrite, HandleRelease, ReleaseWrite,
           tunnelVars, registryVars
    <2>2. \E to \in RequestPC \ {"close", "closeListener", "closeSession"} : rpc' = [rpc EXCEPT ![k] = to]
      BY <1>3 DEF RequestStep, HandleStep, Authed, TouchActorRead, TouchActorWrite, HandleRead,
           HandleCreateToken, HandleRevokeToken, RevokeWrite, HandleDeleteToken, DropDone, Step,
           HandleCloseTunnel, ListTunnels, HandleReserve, ReserveWrite, HandleRelease, ReleaseWrite,
           RequestPC
    <2>3. \A j \in Requests \ {k} : cur'[j] = cur[j]
      BY <1>3 DEF RequestStep, HandleStep, Authed, TouchActorRead, TouchActorWrite, HandleRead,
           HandleCreateToken, HandleRevokeToken, RevokeWrite, HandleDeleteToken, DropDone,
           HandleCloseTunnel, ListTunnels, HandleReserve, ReserveWrite, HandleRelease, ReleaseWrite,
           IInv, TypeOK, ApiTypeOK
    <2>4. \A j \in Requests, d \in Conns : Dropping(j, d)' => Dropping(j, d)
      BY <2>2, <2>3 DEF Dropping, IInv, TypeOK, ApiTypeOK
    <2>5. \A c \in Conns : Registered(c)' <=> Registered(c)
      BY <2>1 DEF Registered
    <2>6. QED
      BY <2>1, <2>4, <2>5 DEF Index, PortIndexAgrees
  <1>4. QED
    BY <1>1, <1>2, <1>3

-----------------------------------------------------------------------------
(* The count of a token.                                                   *)

\* A token's live tunnels are finitely many: each has a name of its own.
LEMMA LiveFinite == \A t \in Tokens : IsFiniteSet(Live(t))
  <1> SUFFICES ASSUME NEW t \in Tokens
               PROVE  IsFiniteSet(Live(t))
    OBVIOUS
  <1>1. Live(t) \subseteq Conns /\ IsFiniteSet(Conns)
    BY RegistryAssumption DEF Live
  <1>2. QED
    BY <1>1, FS_Subset

\* One tunnel more, one more counted.
LEMMA AddCounts ==
    ASSUME IInv, NeverOvercounted, NEW c \in Conns, AddTunnel(c)
    PROVE  NeverOvercounted'
  <1>1. /\ pc[c] = "add" /\ name[c] \in Subs /\ bySub[name[c]] = NoConn
        /\ owner[c] \in Tokens
    BY HelloFields DEF AddTunnel, Goto, IInv, WellFormed, Token
  <1>2. /\ bySub' = [bySub EXCEPT ![name[c]] = c]
        /\ byToken' = [byToken EXCEPT ![owner[c]] = @ + 1]
        /\ UNCHANGED <<name, owner>>
    BY DEF AddTunnel, Add, tunnelVars
  <1>3. bySub \in [Subs -> Conns \cup {NoConn}] /\ byToken \in [Tokens -> Nat]
    BY DEF IInv, TypeOK, RegistryTypeOK
  <1>4. c \notin Live(owner[c])
    BY <1>1, RegistryAssumption DEF Live, Registered
  <1>5. \A d \in Conns \ {c} : Registered(d)' <=> Registered(d)
    BY <1>1, <1>2, <1>3, RegistryAssumption DEF Registered
  <1>6. Registered(c)'
    BY <1>1, <1>2, <1>3 DEF Registered
  <1>7. SUFFICES ASSUME NEW t \in Tokens
                 PROVE  byToken'[t] <= Cardinality(Live(t)')
    BY DEF NeverOvercounted
  <1>8. byToken[t] <= Cardinality(Live(t)) /\ IsFiniteSet(Live(t))
    BY LiveFinite DEF NeverOvercounted
  <1>9. CASE t = owner[c]
    <2>1. Live(t)' = Live(t) \cup {c}
      BY <1>2, <1>5, <1>6, <1>9 DEF Live
    <2>2. Cardinality(Live(t)') = Cardinality(Live(t)) + 1
      BY <1>4, <1>8, <1>9, <2>1, FS_AddElement
    <2>3. Cardinality(Live(t)) \in Nat /\ byToken[t] \in Nat /\ byToken'[t] = byToken[t] + 1
      BY <1>1, <1>2, <1>3, <1>8, <1>9, FS_CardinalityType
    <2>4. QED
      BY <1>8, <2>2, <2>3
  <1>10. CASE t # owner[c]
    <2>1. Live(t)' = Live(t)
      BY <1>2, <1>5, <1>10 DEF Live
    <2>2. byToken'[t] = byToken[t]
      BY <1>2, <1>3, <1>10
    <2>3. QED
      BY <1>8, <2>1, <2>2
  <1>11. QED
    BY <1>9, <1>10

\* One tunnel fewer at most, and one fewer counted unless none was.
LEMMA RemoveCounts ==
    ASSUME IInv, NeverOvercounted, NEW c \in Conns, name[c] \in Subs, owner[c] \in Tokens,
           Remove(c), UNCHANGED <<name, owner>>
    PROVE  NeverOvercounted'
  <1>1. bySub \in [Subs -> Conns \cup {NoConn}] /\ byToken \in [Tokens -> Nat]
    BY DEF IInv, TypeOK, RegistryTypeOK
  <1>2. \A d \in Conns \ {c} : Registered(d)' <=> Registered(d)
    BY <1>1, RegistryAssumption DEF Registered, Remove
  <1>3. ~Registered(c)'
    BY <1>1, RegistryAssumption DEF Registered, Remove
  <1>4. SUFFICES ASSUME NEW t \in Tokens
                 PROVE  byToken'[t] <= Cardinality(Live(t)')
    BY DEF NeverOvercounted
  <1>5. byToken[t] <= Cardinality(Live(t)) /\ IsFiniteSet(Live(t))
    BY LiveFinite DEF NeverOvercounted
  <1>6. Cardinality(Live(t)) \in Nat /\ byToken[t] \in Nat
    BY <1>1, <1>5, FS_CardinalityType
  <1>7. Live(t)' = Live(t) \ {c}
    BY <1>2, <1>3 DEF Live
  <1>8. Cardinality(Live(t)') = IF c \in Live(t) THEN Cardinality(Live(t)) - 1 ELSE Cardinality(Live(t))
    BY <1>5, <1>7, FS_RemoveElement
  <1>9. CASE t = owner[c]
    <2>1. byToken'[t] = IF byToken[t] <= 1 THEN 0 ELSE byToken[t] - 1
      BY <1>1, <1>9 DEF Remove
    <2>2. c \in Live(t) => Cardinality(Live(t)) # 0
      BY <1>5, FS_EmptySet
    <2>3. QED
      BY <1>5, <1>6, <1>8, <2>1, <2>2
  <1>10. CASE t # owner[c]
    <2>1. byToken'[t] = byToken[t]
      BY <1>1, <1>10 DEF Remove
    <2>2. c \notin Live(t)
      BY <1>10 DEF Live
    <2>3. QED
      BY <1>5, <1>8, <2>1, <2>2
  <1>11. QED
    BY <1>9, <1>10

\* Nobody else changes a count, or who is registered for whom.
LEMMA ConnStepCounts ==
    ASSUME IInv, IInv', NeverOvercounted, NEW c \in Conns, ConnStep(c),
           UNCHANGED <<apiVars, restarts>>
    PROVE  NeverOvercounted'
  <1>1. CASE AddTunnel(c)
    BY <1>1, AddCounts
  <1>2. CASE RemoveTunnel(c)
    <2>1. name[c] \in Subs /\ owner[c] \in Tokens /\ Remove(c) /\ UNCHANGED <<name, owner>>
      BY <1>2, HelloFields DEF RemoveTunnel, Goto, IInv, WellFormed, Token, tunnelVars
    <2>2. QED
      BY <2>1, RemoveCounts
  <1>3. CASE ~AddTunnel(c) /\ ~RemoveTunnel(c)
    <2>1. UNCHANGED <<bySub, byToken>>
      BY <1>3
      DEF ConnStep, HandlerStep, ReadHello, RefuseHello, AgentLeaves, Authenticate, RefuseToken,
          CheckLimit, CheckReservation, CheckLive, Draw, CheckDrawn, DrawFails, BindPort, SkipPort,
          RefusePort, AddFails, WriteAck, HandshakeFails, OpenSession, MarkReady, TouchRead,
          TouchWrite, StartAccept, SessionEnds, CloseTunnel, registryVars
    <2>2. /\ \A d \in Conns \ {c} : UNCHANGED <<name[d], owner[d]>>
          /\ pc[c] \in Unported \/ UNCHANGED <<name[c], owner[c]>>
      BY <1>3
      DEF ConnStep, HandlerStep, ReadHello, RefuseHello, AgentLeaves, Authenticate, RefuseToken,
          CheckLimit, CheckReservation, CheckLive, Draw, CheckDrawn, DrawFails, BindPort, SkipPort,
          RefusePort, AddFails, WriteAck, HandshakeFails, OpenSession, MarkReady, TouchRead,
          TouchWrite, StartAccept, SessionEnds, CloseTunnel, CloseBegin, CloseListener,
          CloseSession, tunnelVars, Goto, Unported, IInv, TypeOK, RegistryTypeOK
    <2>3. pc[c] \in Unported => \A s \in Subs : bySub[s] # c
      BY RegistryAssumption DEF IInv, NoStaleName, Published, Unported, Handshake, Serving
    <2>4. \A t \in Tokens : Live(t)' = Live(t)
      BY <2>1, <2>2, <2>3 DEF Live, Registered
    <2>5. QED
      BY <2>1, <2>4 DEF NeverOvercounted
  <1>4. QED
    BY <1>1, <1>2, <1>3

LEMMA RequestStepCounts ==
    ASSUME IInv, NeverOvercounted, NEW k \in Requests, RequestStep(k)
    PROVE  NeverOvercounted'
  <1>1. UNCHANGED <<name, owner>>
    BY DEF RequestStep, HandleStep, Authed, TouchActorRead, TouchActorWrite, HandleRead,
           HandleCreateToken, HandleRevokeToken, RevokeWrite, HandleDeleteToken, DropDone,
           HandleCloseTunnel, ListTunnels, HandleReserve, ReserveWrite, HandleRelease, ReleaseWrite,
           DropTunnel, CloseDropped, CloseBegin, CloseListener, CloseSession, tunnelVars
  <1>2. CASE DropTunnel(k)
    <2>1. PICK c \in todo[k] : Remove(c)
      BY <1>2 DEF DropTunnel
    <2>2. c \in Conns /\ name[c] \in Subs /\ owner[c] \in Tokens
      BY DEF IInv, TypeOK, ApiTypeOK, DropTargets
    <2>3. QED
      BY <1>1, <2>1, <2>2, RemoveCounts
  <1>3. CASE ~DropTunnel(k)
    <2>1. UNCHANGED <<bySub, byToken>>
      BY <1>3 DEF RequestStep, HandleStep, Authed, TouchActorRead, TouchActorWrite, HandleRead,
           HandleCreateToken, HandleRevokeToken, RevokeWrite, HandleDeleteToken, DropDone,
           HandleCloseTunnel, ListTunnels, HandleReserve, ReserveWrite, HandleRelease, ReleaseWrite,
           CloseDropped, registryVars
    <2>2. QED
      BY <1>1, <2>1 DEF NeverOvercounted, Live, Registered
  <1>4. QED
    BY <1>2, <1>3

-----------------------------------------------------------------------------
RInv == Sockets /\ Sessions /\ Index /\ NeverOvercounted

LEMMA InitRInv == Init => RInv
  <1> SUFFICES ASSUME Init
               PROVE  RInv
    OBVIOUS
  <1> USE RegistryAssumption, PortTypes
      DEF Init, RegistryInit, ControlInit, ApiInit, Registered
  <1>1. Sockets /\ Sessions
    BY DEF Sockets, Sessions, Unported, Ported, Handshake, Serving, Resolving, NoPort
  <1>2. Index
    BY DEF Index, PortIndexAgrees, Dropping
  <1>3. \A t \in Tokens : byToken[t] = 0 /\ Live(t) = {}
    BY DEF Live
  <1>4. NeverOvercounted
    <2>1. Cardinality({}) = 0
      BY FS_EmptySet
    <2>2. \A t \in Tokens : byToken[t] <= Cardinality(Live(t))
      <3> TAKE t \in Tokens
      <3>1. byToken[t] = 0 /\ Cardinality(Live(t)) = 0
        BY ONLY <1>3, <2>1
      <3>2. QED
        BY ONLY <3>1
    <2>3. QED
      BY ONLY <2>2 DEF NeverOvercounted
  <1>5. QED
    BY <1>1, <1>2, <1>4 DEF RInv

LEMMA RestartRInv ==
    ASSUME IInv, RInv, Restart
    PROVE  RInv'
  <1> USE RegistryAssumption, PortTypes DEF Restart, Registered, IInv, TypeOK, RegistryTypeOK,
          ControlTypeOK, ApiTypeOK
  <1>1. Sockets' /\ Sessions'
    BY DEF RInv, Sockets, Sessions, Unported, Ported, Handshake, Serving, Resolving, NoPort
  <1>2. Index'
    BY DEF Index, PortIndexAgrees, Dropping
  <1>3. \A t \in Tokens : byToken'[t] = 0 /\ Live(t)' = {}
    BY DEF Live
  <1>4. NeverOvercounted'
    <2>1. Cardinality({}) = 0
      BY FS_EmptySet
    <2>2. \A t \in Tokens : byToken'[t] <= Cardinality(Live(t)')
      <3> TAKE t \in Tokens
      <3>1. byToken'[t] = 0 /\ Cardinality(Live(t)') = 0
        BY ONLY <1>3, <2>1
      <3>2. QED
        BY ONLY <3>1
    <2>3. QED
      BY ONLY <2>2 DEF NeverOvercounted
  <1>5. QED
    BY <1>1, <1>2, <1>4 DEF RInv

LEMMA NextRInv == IInv /\ IInv' /\ RInv /\ [Next]_vars => RInv'
  <1> SUFFICES ASSUME IInv, IInv', RInv, [Next]_vars
               PROVE  RInv'
    OBVIOUS
  <1>1. ASSUME NEW c \in Conns, ConnStep(c), UNCHANGED <<apiVars, restarts>>
        PROVE  RInv'
    BY <1>1, ConnStepSockets, ConnStepIndex, ConnStepCounts DEF RInv
  <1>2. ASSUME NEW k \in Requests, RequestStep(k), UNCHANGED <<controlVars, restarts>>
        PROVE  RInv'
    BY <1>2, RequestStepSockets, RequestStepIndex, RequestStepCounts DEF RInv
  <1>3. CASE Restart
    BY <1>3, RestartRInv
  <1>4. CASE UNCHANGED vars
    <2> USE <1>4 DEF vars, registryVars, tunnelVars, controlVars, apiVars
    <2>1. Sockets' /\ Sessions'
      BY DEF RInv, Sockets, Sessions, ListenerDue, SessionDue, Closes
    <2>2. Index'
      BY DEF RInv, Index, PortIndexAgrees, Registered, Dropping
    <2>3. NeverOvercounted'
      BY DEF RInv, NeverOvercounted, Live, Registered
    <2>4. QED
      BY <2>1, <2>2, <2>3 DEF RInv
  <1>5. QED
    BY <1>1, <1>2, <1>3, <1>4 DEF Next

\* RInv, and with it the sockets, the sessions, the index and the counts, holds
\* in every reachable state.
THEOREM RegistryInvariance == Spec => []RInv
  <1>1. Init /\ [][Next]_vars /\ []IInv => []RInv
    BY InitRInv, NextRInv, PTL
  <1>2. QED
    BY <1>1, Invariance, PTL DEF Spec

\* byPort never leads to a tunnel that has lost its name, and never misses one
\* that has not, though registry.add overwrites it without a test.
THEOREM PortIndexIsRight == Spec => []PortIndexAgrees
  <1>1. RInv => PortIndexAgrees
    BY DEF RInv, Index
  <1>2. QED
    BY <1>1, RegistryInvariance, PTL

\* No port is held by a tunnel that was not given it, or that nobody is going
\* to close; no open tunnel is without its socket.
THEOREM ListenersAreOwned == Spec => []ListenerFollowsTunnel
  <1>1. IInv /\ RInv => ListenerFollowsTunnel
    <2> SUFFICES ASSUME IInv, RInv
                 PROVE  ListenerFollowsTunnel
      OBVIOUS
    <2>1. ASSUME NEW p \in Ports, bound[p] # NoConn
          PROVE  port[bound[p]] = p
                 /\ (pc[bound[p]] # "done" \/ \E k \in Requests : Dropping(k, bound[p]))
      <3>1. bound[p] \in Conns
        BY <2>1 DEF IInv, TypeOK, RegistryTypeOK
      <3>2. QED
        BY <2>1, <3>1 DEF RInv, Sockets, ListenerDue, Closes, Dropping
    <2>2. \A c \in Conns : port[c] # NoPort /\ Published(c) /\ ~closed[c] => bound[port[c]] = c
      BY DEF RInv, Sockets, Published, Ported
    <2>3. QED
      BY <2>1, <2>2 DEF ListenerFollowsTunnel
  <1>2. QED
    BY <1>1, Invariance, RegistryInvariance, PTL

\* No token is ever locked out by tunnels it no longer has, whatever the order
\* in which registry.remove is called once or twice for each.
THEOREM CountsNeverExceed == Spec => []NeverOvercounted
  <1>1. RInv => NeverOvercounted
    BY DEF RInv
  <1>2. QED
    BY <1>1, RegistryInvariance, PTL

\* When all is over nothing is left: no name, port, count, socket or session.
THEOREM NothingIsLeft == Spec => []CleanAtRest
  <1>1. IInv /\ RInv => CleanAtRest
    <2> SUFFICES ASSUME IInv, RInv, AtRest
                 PROVE  /\ \A s \in Subs : bySub[s] = NoConn
                        /\ \A p \in Ports : byPort[p] = NoConn /\ bound[p] = NoConn
                        /\ \A t \in Tokens : byToken[t] = 0
                        /\ \A c \in Conns : session[c] # "open"
      BY DEF CleanAtRest
    <2> USE RegistryAssumption DEF IInv, TypeOK, RegistryTypeOK
    <2>1. \A s \in Subs : bySub[s] = NoConn
      BY DEF NoStaleName, Published, AtRest, Handshake, Serving
    <2>2. \A c \in Conns : ~Registered(c)
      BY <2>1 DEF Registered
    <2>3. \A p \in Ports : byPort[p] = NoConn
      BY <2>2 DEF RInv, Index, PortIndexAgrees
    <2>4. \A p \in Ports : bound[p] = NoConn
      BY DEF RInv, Sockets, AtRest, ListenerDue, Closes, Unported
    <2>5. \A t \in Tokens : byToken[t] = 0
      <3> TAKE t \in Tokens
      <3>1. Live(t) = {}
        BY <2>2 DEF Live
      <3>2. byToken[t] <= 0 /\ byToken[t] \in Nat
        BY <3>1, FS_EmptySet DEF RInv, NeverOvercounted
      <3>3. QED
        BY <3>2
    <2>6. \A c \in Conns : session[c] # "open"
      BY DEF RInv, Sessions, AtRest, SessionDue, Closes
    <2>7. QED
      BY <2>1, <2>3, <2>4, <2>5, <2>6
  <1>2. QED
    BY <1>1, Invariance, RegistryInvariance, PTL
=============================================================================
