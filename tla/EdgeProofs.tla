----------------------------- MODULE EdgeProofs -----------------------------
(***************************************************************************)
(* The public side, for any instance: it implements the server it is built *)
(* over, so that all that is proved of Server holds under public traffic   *)
(* too; and a visit only ever reaches the tunnel it was let in to.         *)
(***************************************************************************)
EXTENDS Edge, RegistryProofs

\* A step of the composition is a step of the server, or none.
LEMMA EdgeStep == EdgeNext => [Next]_vars
  BY DEF EdgeNext, Next, vars

\* Public traffic adds nothing to what the server may do.
THEOREM EdgeImplementsServer == EdgeSpec => Spec
  <1>1. EdgeInit => Init
    BY DEF EdgeInit
  <1>2. [EdgeNext]_edgeVars => [Next]_vars
    BY EdgeStep DEF edgeVars
  <1>3. QED
    BY <1>1, <1>2, PTL DEF EdgeSpec, Spec

-----------------------------------------------------------------------------
(* Where a visit may be.                                                   *)

\* The tunnel a visit holds was published under the name, and with the port,
\* the visitor asked for; what it has reached is that tunnel, and a request
\* that is forwarded, or was, showed its credentials.
VisitHolds(v) ==
    LET x == visit[v]
    IN  /\ x.reached \in {NoConn, x.tun}
        /\ x.tun # NoConn =>
              /\ pc[x.tun] \notin {"idle"} \cup Resolving
              /\ x.ask \in Asks
              /\ x.ask.via = "http" => name[x.tun] = x.ask.host
              /\ x.ask.via = "tcp" => port[x.tun] = x.ask.port
        /\ x.pc = "idle" => x.tun = NoConn
        /\ x.pc = "open" => x.ask.via = "tcp"
        /\ x.pc = "forward" \/ (x.reached # NoConn /\ x.ask.via = "http") => Admitted(x.tun, x.ask)

VInv == EdgeTypeOK /\ \A v \in Visits : VisitHolds(v)

\* A name leads to a tunnel that is published under it.
LEMMA ClaimedTunnel ==
    ASSUME IInv, NEW s \in Subs, Claimed(s) # NoConn
    PROVE  /\ Claimed(s) \in Conns
           /\ name[Claimed(s)] = s
           /\ pc[Claimed(s)] \notin {"idle"} \cup Resolving
  BY DEF Claimed, IInv, TypeOK, RegistryTypeOK, NoStaleName, Published, Resolving, Handshake, Serving

\* An update of visit v that keeps its type and its rules keeps VInv.
LEMMA UpdateKeeps ==
    ASSUME VInv, UNCHANGED vars, NEW v \in Visits, NEW x \in VisitRecord, Becomes(v, x),
           x.pc \in {"idle", "done"} \/ x.tun # NoConn,
           visit'[v] = x => VisitHolds(v)'
    PROVE  VInv'
  <1>1. /\ visit' \in [Visits -> VisitRecord]
        /\ visit'[v] = x
        /\ \A u \in Visits \ {v} : visit'[u] = visit[u]
    BY DEF Becomes, VInv, EdgeTypeOK
  <1>2. UNCHANGED <<pc, name, port>>
    BY DEF vars, controlVars, tunnelVars
  <1>3. \A u \in Visits \ {v} : VisitHolds(u)'
    BY <1>1, <1>2 DEF VInv, VisitHolds, Admitted
  <1>4. EdgeTypeOK'
    BY <1>1 DEF VInv, EdgeTypeOK, Tun
  <1>5. QED
    BY <1>1, <1>3, <1>4 DEF VInv

\* So does one that goes on with the same tunnel.
LEMMA GoOnKeeps ==
    ASSUME VInv, UNCHANGED vars, NEW v \in Visits, NEW x \in VisitRecord, Becomes(v, x),
           Tun(v) # NoConn,
           x.tun = Tun(v), x.ask = visit[v].ask, x.reached \in {visit[v].reached, x.tun},
           x.pc \notin {"idle", "open"},
           x.pc = "forward" \/ (x.reached # visit[v].reached /\ x.ask.via = "http") =>
               Admitted(x.tun, x.ask)
    PROVE  VInv'
  <1>1. VisitHolds(v)
    BY DEF VInv
  <1>2. UNCHANGED <<pc, name, port>>
    BY DEF vars, controlVars, tunnelVars
  <1>3. visit'[v] = x => VisitHolds(v)'
    BY <1>1, <1>2 DEF VisitHolds, Admitted, Tun
  <1>4. QED
    BY <1>3, UpdateKeeps

\* The first step of a visit: to nobody, or to the tunnel that claims the name.
LEMMA ArriveKeeps ==
    ASSUME IInv, VInv, NEW v \in Visits, Arrive(v), UNCHANGED vars
    PROVE  VInv'
  <1>1. visit[v] \in VisitRecord /\ VisitHolds(v) /\ visit[v].pc = "idle"
    BY DEF VInv, EdgeTypeOK, Arrive, At
  <1>2. visit[v].tun = NoConn /\ visit[v].reached = NoConn
    BY <1>1 DEF VisitHolds
  <1>0. PICK old \in VisitRecord : old = visit[v]
    BY <1>1
  <1>3. UNCHANGED <<pc, name, port>>
    BY DEF vars, controlVars, tunnelVars
  <1>4. PICK a \in Asks :
          /\ a.via = "http"
          /\ \/ \E s \in {"api", "unknown host", "no tunnel"} :
                   Becomes(v, [visit[v] EXCEPT !.ask = a, !.pc = "done", !.status = s])
             \/ /\ a.host \in Subs /\ Claimed(a.host) # NoConn
                /\ Becomes(v, [visit[v] EXCEPT !.ask = a, !.pc = "load", !.tun = Claimed(a.host)])
    BY DEF Arrive
  <1>5. {"done", "load"} \subseteq VisitPC /\ {"api", "unknown host", "no tunnel"} \subseteq Statuses
    BY DEF VisitPC, Statuses
  <1>6. ASSUME NEW s \in {"api", "unknown host", "no tunnel"},
               Becomes(v, [visit[v] EXCEPT !.ask = a, !.pc = "done", !.status = s])
        PROVE  VInv'
    <2> DEFINE x == [old EXCEPT !.ask = a, !.pc = "done", !.status = s]
    <2>0. /\ x \in VisitRecord /\ x.pc = "done" /\ x.tun = old.tun
          /\ x.ask = a /\ x.reached = old.reached
      BY <1>5 DEF VisitRecord
    <2>2. Becomes(v, x)
      BY <1>0, <1>6
    <2> HIDE DEF x
    <2>1. /\ x \in VisitRecord /\ x.pc = "done" /\ x.tun = NoConn
          /\ x.ask = a /\ x.reached = NoConn
      BY <1>0, <1>2, <2>0
    <2> HIDE DEF x
    <2>3. visit'[v] = x => VisitHolds(v)'
      BY <2>1 DEF VisitHolds
    <2>4. QED
      BY <2>1, <2>2, <2>3, UpdateKeeps
  <1>7. ASSUME a.host \in Subs, Claimed(a.host) # NoConn,
               Becomes(v, [visit[v] EXCEPT !.ask = a, !.pc = "load", !.tun = Claimed(a.host)])
        PROVE  VInv'
    <2>1. /\ Claimed(a.host) \in Conns /\ name[Claimed(a.host)] = a.host
          /\ pc[Claimed(a.host)] \notin {"idle"} \cup Resolving
      BY <1>7, ClaimedTunnel
    <2>0. PICK c \in Conns : c = Claimed(a.host)
      BY <2>1
    <2> DEFINE x == [old EXCEPT !.ask = a, !.pc = "load", !.tun = c]
    <2>a. /\ x \in VisitRecord /\ x.pc = "load" /\ x.tun = c
          /\ x.ask = a /\ x.reached = old.reached
      BY <1>5 DEF VisitRecord
    <2>3. Becomes(v, x)
      BY <1>0, <1>7, <2>0
    <2> HIDE DEF x
    <2>2. /\ x \in VisitRecord /\ x.pc = "load" /\ x.tun = Claimed(a.host)
          /\ x.ask = a /\ x.reached = NoConn
      BY <1>0, <1>2, <2>0, <2>a
    <2>4. visit'[v] = x => VisitHolds(v)'
      BY <1>3, <1>4, <2>1, <2>2 DEF VisitHolds
    <2>5. QED
      BY <1>7, <2>2, <2>3, <2>4, UpdateKeeps
  <1>8. QED
    BY <1>4, <1>6, <1>7

\* A connection comes in at a port that is bound: to the tunnel that was given it.
LEMMA AcceptKeeps ==
    ASSUME RInv, VInv, NEW v \in Visits, Accept(v), UNCHANGED vars
    PROVE  VInv'
  <1>1. PICK a \in Asks, c \in Conns :
          /\ a.via = "tcp" /\ a.port \in Ports /\ bound[a.port] = c
          /\ pc[c] \in {"serve"} \cup Releasing
          /\ Becomes(v, [visit[v] EXCEPT !.ask = a, !.tun = c, !.pc = "open"])
    BY DEF Accept
  <1>2. visit[v] \in VisitRecord /\ VisitHolds(v) /\ visit[v].pc = "idle"
    BY DEF VInv, EdgeTypeOK, Accept, At
  <1>3. visit[v].reached = NoConn
    BY <1>2 DEF VisitHolds
  <1>4. UNCHANGED <<pc, name, port>>
    BY DEF vars, controlVars, tunnelVars
  <1>5. port[c] = a.port /\ pc[c] \notin {"idle"} \cup Resolving
    BY <1>1 DEF RInv, Sockets, Resolving, Releasing
  <1>0. PICK old \in VisitRecord : old = visit[v]
    BY <1>2
  <1> DEFINE x == [old EXCEPT !.ask = a, !.tun = c, !.pc = "open"]
  <1>a. x \in VisitRecord /\ x.pc = "open" /\ x.tun = c /\ x.ask = a /\ x.reached = old.reached
    BY DEF VisitRecord, VisitPC
  <1>7. Becomes(v, x)
    BY <1>0, <1>1
  <1> HIDE DEF x
  <1>6. x \in VisitRecord /\ x.pc = "open" /\ x.tun = c /\ x.ask = a /\ x.reached = NoConn
    BY <1>0, <1>3, <1>a
  <1>8. visit'[v] = x => VisitHolds(v)'
    BY <1>1, <1>4, <1>5, <1>6 DEF VisitHolds
  <1>9. c # NoConn
    BY RegistryAssumption
  <1>10. QED
    BY <1>6, <1>7, <1>8, <1>9, UpdateKeeps

\* Every later step goes on with the tunnel the visit holds.
LEMMA LaterKeeps ==
    ASSUME VInv, NEW v \in Visits, VisitStep(v), ~Arrive(v), ~Accept(v), UNCHANGED vars
    PROVE  VInv'
  <1>1. visit[v] \in VisitRecord /\ VisitHolds(v)
    BY DEF VInv, EdgeTypeOK
  <1>0. PICK x \in VisitRecord : x = visit[v]
    BY <1>1
  <1>2. x.pc \notin {"idle", "done"}
    BY <1>0 DEF VisitStep, VisitRuns, Load, WaitReady, WaitClosed, WaitGivesUp, CheckBasicAuth,
        Forward, Headers, Finish, Breaks, GivesUp, Forwarded, Record, PipeOpen, ClientLeaves,
        VisitorStalls, AgentStalls, Drains, UpEnds, UpFails, DownEnds, DownFails, PipeDone,
        Spliced, At
  <1>3. Tun(v) # NoConn /\ Tun(v) \in Conns
    BY <1>0, <1>1, <1>2 DEF VInv, EdgeTypeOK, VisitRecord, Tun
  <1>a. x.tun = Tun(v)
    BY <1>0 DEF Tun
  <1>4. ASSUME NEW w \in VisitPC \ {"idle", "open"}, To(v, w),
               w = "forward" => Admitted(Tun(v), x.ask)
        PROVE  VInv'
    <2> DEFINE y == [x EXCEPT !.pc = w]
    <2>1. y \in VisitRecord /\ y.pc = w /\ y.tun = x.tun /\ y.ask = x.ask /\ y.reached = x.reached
      BY DEF VisitRecord
    <2>2. Becomes(v, y)
      BY <1>0, <1>4 DEF To
    <2> HIDE DEF y
    <2>3. QED
      BY <1>0, <1>3, <1>4, <1>a, <2>1, <2>2, GoOnKeeps
  <1>5. ASSUME NEW s \in Statuses, Ends(v, s) \/ Returns(v, s)
        PROVE  VInv'
    <2>1. PICK w \in {"done", "record"} : Becomes(v, [x EXCEPT !.pc = w, !.status = s])
      BY <1>0, <1>5 DEF Ends, Returns
    <2> DEFINE y == [x EXCEPT !.pc = w, !.status = s]
    <2>2. y \in VisitRecord /\ y.pc = w /\ y.tun = x.tun /\ y.ask = x.ask /\ y.reached = x.reached
      BY DEF VisitRecord, VisitPC
    <2>3. Becomes(v, y)
      BY <2>1
    <2> HIDE DEF y
    <2>4. QED
      BY <1>0, <1>3, <1>a, <2>2, <2>3, GoOnKeeps
  <1>6. ASSUME NEW w \in {"answering", "spliced"},
               Becomes(v, [x EXCEPT !.pc = w, !.reached = Tun(v)]),
               x.ask.via = "http" => Admitted(Tun(v), x.ask)
        PROVE  VInv'
    <2> DEFINE y == [x EXCEPT !.pc = w, !.reached = Tun(v)]
    <2>1. y \in VisitRecord /\ y.pc = w /\ y.tun = x.tun /\ y.ask = x.ask /\ y.reached = Tun(v)
      BY <1>3 DEF VisitRecord, VisitPC
    <2>2. Becomes(v, y)
      BY <1>0, <1>6
    <2> HIDE DEF y
    <2>3. QED
      BY <1>0, <1>3, <1>6, <1>a, <2>1, <2>2, GoOnKeeps
  <1>7. ASSUME NEW d \in SUBSET {"up", "down"}, Becomes(v, [x EXCEPT !.over = d]), Spliced(v)
        PROVE  VInv'
    <2> DEFINE y == [x EXCEPT !.over = d]
    <2>1. y \in VisitRecord /\ y.pc = x.pc /\ y.tun = x.tun /\ y.ask = x.ask /\ y.reached = x.reached
      BY DEF VisitRecord
    <2>2. Becomes(v, y)
      BY <1>0, <1>7
    <2> HIDE DEF y
    <2>4. x.pc = "spliced"
      BY <1>0, <1>7 DEF Spliced, At
    <2>3. QED
      BY <1>0, <1>3, <1>a, <2>1, <2>2, <2>4, GoOnKeeps
  <1>8. CASE ClientLeaves(v)
    <2> DEFINE y == [x EXCEPT !.client = "gone"]
    <2>1. y \in VisitRecord /\ y.pc = x.pc /\ y.tun = x.tun /\ y.ask = x.ask /\ y.reached = x.reached
      BY DEF VisitRecord
    <2>2. Becomes(v, y)
      BY <1>0, <1>8 DEF ClientLeaves
    <2> HIDE DEF y
    <2>4. x.pc \in {"answering", "streaming", "spliced"}
      BY <1>0, <1>8 DEF ClientLeaves, Forwarded, Spliced, At
    <2>3. QED
      BY <1>0, <1>3, <1>a, <2>1, <2>2, <2>4, GoOnKeeps
  <1>9. CASE Load(v) \/ WaitReady(v)
    BY <1>0, <1>4, <1>9 DEF Load, WaitReady, VisitPC
  <1>10. CASE WaitClosed(v) \/ WaitGivesUp(v) \/ Finish(v) \/ PipeDone(v)
    BY <1>5, <1>10 DEF WaitClosed, WaitGivesUp, Finish, PipeDone, Statuses
  <1>11. CASE CheckBasicAuth(v)
    BY <1>0, <1>4, <1>5, <1>11, <1>a DEF CheckBasicAuth, VisitPC, Statuses
  <1>12. CASE Forward(v)
    <2>1. Admitted(Tun(v), x.ask)
      BY <1>0, <1>1, <1>12, <1>a DEF Forward, At, VisitHolds
    <2>2. QED
      BY <1>0, <1>5, <1>6, <1>12, <2>1 DEF Forward, Statuses
  <1>13. CASE Headers(v) \/ Record(v)
    BY <1>4, <1>13 DEF Headers, Record, VisitPC
  <1>14. CASE Breaks(v) \/ GivesUp(v)
    BY <1>5, <1>14 DEF Breaks, GivesUp, EndEarly, Statuses
  <1>15. CASE PipeOpen(v)
    <2>1. x.ask.via # "http"
      BY <1>0, <1>1, <1>15 DEF PipeOpen, At, VisitHolds
    <2>2. QED
      BY <1>0, <1>5, <1>6, <1>15, <2>1 DEF PipeOpen, Statuses
  <1>16. CASE UpEnds(v) \/ UpFails(v) \/ DownEnds(v) \/ DownFails(v)
    <2>1. Spliced(v) /\ \E way \in {"up", "down"} : Becomes(v, [x EXCEPT !.over = @ \cup {way}])
      BY <1>0, <1>16 DEF UpEnds, UpFails, DownEnds, DownFails, Over
    <2>2. x.over \in SUBSET {"up", "down"}
      BY <1>1 DEF VisitRecord
    <2>3. QED
      BY <1>7, <2>1, <2>2
  <1>17. CASE VisitorStalls(v) \/ AgentStalls(v) \/ Drains(v)
    <2>1. x.stalled \in SUBSET {"up", "down"}
      BY <1>1, <1>0 DEF VisitRecord
    <2>2. PICK d \in SUBSET {"up", "down"} : Becomes(v, [x EXCEPT !.stalled = d])
      <3>1. CASE VisitorStalls(v)
        BY <1>0, <2>1, <3>1 DEF VisitorStalls
      <3>2. CASE AgentStalls(v)
        BY <1>0, <2>1, <3>2 DEF AgentStalls
      <3>3. CASE Drains(v)
        BY <1>0, <2>1, <3>3 DEF Drains
      <3>4. QED
        BY <1>17, <3>1, <3>2, <3>3
    <2>3. x.pc \in {"answering", "streaming", "spliced"}
      BY <1>0, <1>17 DEF VisitorStalls, AgentStalls, Drains, Forwarded, Spliced, At
    <2> DEFINE y == [x EXCEPT !.stalled = d]
    <2>4. y \in VisitRecord /\ y.pc = x.pc /\ y.tun = x.tun /\ y.ask = x.ask /\ y.reached = x.reached
      BY DEF VisitRecord
    <2>5. Becomes(v, y)
      BY <2>2
    <2> HIDE DEF y
    <2>6. QED
      BY <1>0, <1>2, <1>3, <1>a, <2>3, <2>4, <2>5, GoOnKeeps
  <1>18. QED
    BY <1>8, <1>9, <1>10, <1>11, <1>12, <1>13, <1>14, <1>15, <1>16, <1>17 DEF VisitStep, VisitRuns

-----------------------------------------------------------------------------
(* The server under the visits.                                            *)

\* A tunnel that was published keeps its name and its port for ever.
LEMMA PublishedIsFixed ==
    ASSUME IInv, [Next]_vars, NEW c \in Conns, pc[c] \notin {"idle"} \cup Resolving
    PROVE  /\ pc'[c] \notin {"idle"} \cup Resolving
           /\ name'[c] = name[c] /\ port'[c] = port[c]
  <1> USE DEF IInv, TypeOK, RegistryTypeOK, ControlTypeOK, Resolving
  <1>1. ASSUME NEW d \in Conns, ConnStep(d)
        PROVE  /\ pc'[c] \notin {"idle"} \cup Resolving
               /\ name'[c] = name[c] /\ port'[c] = port[c]
    BY <1>1 DEF ConnStep, HandlerStep, ReadHello, RefuseHello, AgentLeaves, Authenticate,
        RefuseToken, CheckLimit, CheckReservation, CheckLive, Draw, CheckDrawn, DrawFails, BindPort,
        SkipPort, RefusePort, AddTunnel, AddFails, WriteAck, HandshakeFails, OpenSession, MarkReady,
        TouchRead, TouchWrite, StartAccept, SessionEnds, RemoveTunnel, CloseTunnel, CloseBegin,
        CloseListener, CloseSession, tunnelVars, controlVars, Goto
  <1>2. ASSUME NEW k \in Requests, RequestStep(k), UNCHANGED controlVars
        PROVE  UNCHANGED <<pc, name, port>>
    BY <1>2 DEF RequestStep, HandleStep, Authed, TouchActorRead, TouchActorWrite, HandleRead,
        HandleCreateToken, HandleRevokeToken, RevokeWrite, HandleDeleteToken, DropDone,
        HandleCloseTunnel, ListTunnels, HandleReserve, ReserveWrite, HandleRelease, ReleaseWrite,
        DropTunnel, CloseDropped, CloseBegin, CloseListener, CloseSession, tunnelVars, controlVars
  <1>3. CASE Restart
    BY <1>3 DEF Restart
  <1>4. CASE UNCHANGED vars
    BY <1>4 DEF vars, tunnelVars, controlVars
  <1>5. QED
    BY <1>1, <1>2, <1>3, <1>4 DEF Next

\* So what a visit holds stays true under it.
LEMMA ServerStepKeeps ==
    ASSUME IInv, VInv, [Next]_vars, UNCHANGED visit
    PROVE  VInv'
  <1>1. ASSUME NEW v \in Visits
        PROVE  VisitHolds(v)'
    <2>1. VisitHolds(v) /\ visit[v] \in VisitRecord
      BY DEF VInv, EdgeTypeOK
    <2>2. visit[v].tun # NoConn => visit[v].tun \in Conns
      BY <2>1 DEF VisitRecord
    <2>3. QED
      BY <2>1, <2>2, PublishedIsFixed DEF VisitHolds, Admitted
  <1>2. EdgeTypeOK'
    BY DEF VInv, EdgeTypeOK, Tun
  <1>3. QED
    BY <1>1, <1>2 DEF VInv

\* A restart cuts every visit off where it is.
Cuts == visit' = [v \in Visits |-> IF At(v, "idle") THEN visit[v]
                                   ELSE [visit[v] EXCEPT !.pc = "done", !.status = "cut"]]

LEMMA CutKeeps ==
    ASSUME IInv, VInv, Restart, Cuts
    PROVE  VInv'
  <1>1. ASSUME NEW v \in Visits
        PROVE  /\ visit'[v] \in VisitRecord
               /\ visit'[v].tun = visit[v].tun /\ visit'[v].ask = visit[v].ask
               /\ visit'[v].reached = visit[v].reached
               /\ visit'[v].pc = IF At(v, "idle") THEN "idle" ELSE "done"
    <2>1. PICK x \in VisitRecord : x = visit[v]
      BY DEF VInv, EdgeTypeOK
    <2> DEFINE y == [x EXCEPT !.pc = "done", !.status = "cut"]
    <2>2. /\ y \in VisitRecord /\ y.pc = "done"
          /\ y.tun = x.tun /\ y.ask = x.ask /\ y.reached = x.reached
      BY DEF VisitRecord, VisitPC, Statuses
    <2>3. visit'[v] = IF At(v, "idle") THEN x ELSE y
      BY <2>1 DEF Cuts
    <2> HIDE DEF y
    <2>4. QED
      BY <2>1, <2>2, <2>3 DEF At
  <1>2. [Next]_vars
    BY DEF Next
  <1>3. ASSUME NEW v \in Visits
        PROVE  VisitHolds(v)'
    <2>1. VisitHolds(v) /\ visit[v] \in VisitRecord
      BY DEF VInv, EdgeTypeOK
    <2>2. visit[v].tun # NoConn => visit[v].tun \in Conns
      BY <2>1 DEF VisitRecord
    <2> DEFINE c == visit[v].tun
    <2>3. c # NoConn /\ pc[c] \notin {"idle"} \cup Resolving =>
              pc'[c] \notin {"idle"} \cup Resolving /\ name'[c] = name[c] /\ port'[c] = port[c]
      BY <1>2, <2>2, PublishedIsFixed
    <2>4. /\ visit'[v].tun = c /\ visit'[v].ask = visit[v].ask
          /\ visit'[v].reached = visit[v].reached
          /\ visit'[v].pc \in {"idle", "done"} /\ (visit'[v].pc = "idle" => visit[v].pc = "idle")
      BY <1>1 DEF At
    <2> HIDE DEF c
    <2>5. c = visit[v].tun
      BY DEF c
    <2>6. QED
      BY <2>1, <2>3, <2>4, <2>5 DEF VisitHolds, Admitted
  <1>4. EdgeTypeOK'
    <2>1. visit' \in [Visits -> VisitRecord]
      BY <1>1 DEF Cuts
    <2>2. \A v \in Visits : visit'[v].pc \in {"idle", "done"}
      BY <1>1
    <2>3. QED
      BY <2>1, <2>2 DEF EdgeTypeOK
  <1>5. QED
    BY <1>3, <1>4 DEF VInv

\* VInv with the server's invariants is inductive.
LEMMA EdgeStepKeeps ==
    ASSUME IInv, RInv, VInv, [EdgeNext]_edgeVars
    PROVE  VInv'
  <1>1. ASSUME NEW v \in Visits, VisitStep(v), UNCHANGED vars
        PROVE  VInv'
    BY <1>1, ArriveKeeps, AcceptKeeps, LaterKeeps
  <1>2. ASSUME UNCHANGED visit, [Next]_vars
        PROVE  VInv'
    BY <1>2, ServerStepKeeps
  <1>4. QED
    <2>1. [Next]_vars
      BY EdgeStep DEF edgeVars
    <2>2. \/ UNCHANGED visit
          \/ \E v \in Visits : VisitStep(v) /\ UNCHANGED vars
          \/ Restart /\ Cuts
      BY DEF EdgeNext, edgeVars, Cuts
    <2>3. QED
      BY <1>1, <1>2, <2>1, <2>2, CutKeeps

LEMMA EdgeInitHolds == EdgeInit => VInv
  <1> SUFFICES ASSUME EdgeInit PROVE VInv
    OBVIOUS
  <1>1. NoVisit \in VisitRecord
    BY DEF NoVisit, VisitRecord, VisitPC, Statuses
  <1>2. \A v \in Visits : visit[v] = NoVisit
    BY DEF EdgeInit
  <1>3. /\ NoVisit.pc = "idle" /\ NoVisit.tun = NoConn /\ NoVisit.reached = NoConn
    BY DEF NoVisit
  <1>4. visit \in [Visits -> VisitRecord]
    BY <1>1 DEF EdgeInit
  <1>5. QED
    BY <1>2, <1>3, <1>4 DEF VInv, EdgeTypeOK, VisitHolds

\* A visit under way was found, checked and forwarded for one tunnel, in every
\* reachable state of the edge.
THEOREM EdgeInvariance == EdgeSpec => []VInv
  <1>1. EdgeInit => VInv
    BY EdgeInitHolds
  <1>2. IInv /\ RInv /\ VInv /\ [EdgeNext]_edgeVars => VInv'
    BY EdgeStepKeeps
  <1>3. EdgeSpec => []IInv /\ []RInv
    BY EdgeImplementsServer, Invariance, RegistryInvariance, PTL
  <1>4. QED
    BY <1>1, <1>2, <1>3, PTL DEF EdgeSpec

\* Every visit has its type, and one that is under way has a tunnel.
THEOREM EdgeTypeCorrect == EdgeSpec => []EdgeTypeOK
  <1>1. VInv => EdgeTypeOK
    BY DEF VInv
  <1>2. QED
    BY <1>1, EdgeInvariance, PTL

\* An agent only ever gets visits to its own name and port, past its own
\* credentials, whoever held the name while the visit was on its way.
THEOREM VisitsReachTheirTunnel == EdgeSpec => []ReachesItsTunnel
  <1>1. VInv => ReachesItsTunnel
    BY DEF VInv, EdgeTypeOK, VisitRecord, VisitHolds, ReachesItsTunnel
  <1>2. QED
    BY <1>1, EdgeInvariance, PTL
=============================================================================
