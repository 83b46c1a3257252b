------------------------------ MODULE Control ------------------------------
(***************************************************************************)
(* internal/server/control.go and bindTCP of tcp.go: the goroutine that    *)
(* runs one agent connection, from its Hello to the end of its session.    *)
(*                                                                         *)
(* pc[c] names the next thing handler c will do.  A step is one access to  *)
(* state another goroutine can see: a store transaction, a registry call   *)
(* under its lock, an atomic flag, the kernel's port table.  name[c] and   *)
(* port[c] are assigned as authorize works them out; nobody can reach the  *)
(* tunnel before AddTunnel publishes it.                                   *)
(***************************************************************************)
EXTENDS Registry

CONSTANTS
    Hellos,        \* the Hello messages agents send: [token, sub, type, port]
    MaxTunnels,    \* [Tokens -> Nat]: Token.MaxTunnels, zero means unlimited
    RandomTries    \* attempts at a random name (12 in the code)

NoHello == [token |-> NoToken, sub |-> NoSub, type |-> "none", port |-> NoPort]

ASSUME ControlAssumption ==
    /\ Hellos \subseteq [token : Tokens, sub : Subs \cup {NoSub},
                         type : {"http", "tcp"}, port : Nat]
    /\ MaxTunnels \in [Tokens -> Nat]
    /\ RandomTries \in Nat

VARIABLES
    pc,       \* [Conns -> ConnPC]
    hello,    \* the Hello of each connection
    cursor,   \* bindTCP's candidate port
    tries,    \* random names drawn so far
    held      \* the record TouchToken has read and will write back

controlVars == <<pc, hello, cursor, tries, held>>

\* In authorize, before the tunnel is published.
Resolving == {"authenticate", "limit", "reservation", "lookup",
              "draw", "drawn", "bind", "add"}
\* Published, not routable yet.
Handshake == {"ack", "yamux", "ready"}
\* Routable, until the handler notices the end of the session.
Serving == {"touch", "touchWrite", "accept", "serve"}
\* releaseTunnel.
Releasing == {"remove", "close", "closeListener", "closeSession"}

ConnPC == {"idle", "done"} \cup Resolving \cup Handshake \cup Serving \cup Releasing

ControlTypeOK ==
    /\ pc \in [Conns -> ConnPC]
    /\ hello \in [Conns -> Hellos \cup {NoHello}]
    /\ cursor \in [Conns -> Nat]
    /\ tries \in [Conns -> 0 .. RandomTries]
    /\ held \in [Conns -> TokenStatus]

ControlInit ==
    /\ pc = [c \in Conns |-> "idle"]
    /\ hello = [c \in Conns |-> NoHello]
    /\ cursor = [c \in Conns |-> 0]
    /\ tries = [c \in Conns |-> 0]
    /\ held = [c \in Conns |-> "unborn"]

Goto(c, from, to) == pc[c] = from /\ pc' = [pc EXCEPT ![c] = to]

Token(c) == hello[c].token

\* Where authorize goes once the label is settled.
AfterName(c) == IF hello[c].type = "tcp" THEN "bind" ELSE "add"

-----------------------------------------------------------------------------
(* Before the tunnel exists.                                               *)

\* A well-formed Hello arrives in time.
ReadHello(c) ==
    /\ Goto(c, "idle", "authenticate")
    /\ \E h \in Hellos :
          /\ hello' = [hello EXCEPT ![c] = h]
          /\ name' = [name EXCEPT ![c] = h.sub]
          /\ cursor' = [cursor EXCEPT ![c] = IF h.port # NoPort THEN h.port ELSE PortFrom]
    /\ UNCHANGED <<tries, held, owner, port, ready, closed, session, bound,
                   registryVars, storeVars>>

\* Nothing usable arrives: no Hello before the deadline, another protocol
\* version, an unknown type, a local port out of range.
RefuseHello(c) ==
    /\ Goto(c, "idle", "done")
    /\ UNCHANGED <<hello, cursor, tries, held, tunnelVars, registryVars, storeVars>>

\* Authenticate.  HasScope(tunnel) holds of every stored token: a record has
\* a scope, and both scopes grant it.
Authenticate(c) ==
    /\ Goto(c, "authenticate", "limit")
    /\ Active(Token(c))
    /\ owner' = [owner EXCEPT ![c] = Token(c)]
    /\ UNCHANGED <<hello, cursor, tries, held, name, port, ready, closed, session,
                   bound, registryVars, storeVars>>

\* The record is missing or revoked, or (at any time) the secret is wrong or
\* the token has expired.
RefuseToken(c) ==
    /\ Goto(c, "authenticate", "done")
    /\ UNCHANGED <<hello, cursor, tries, held, tunnelVars, registryVars, storeVars>>

CheckLimit(c) ==
    LET max == MaxTunnels[Token(c)]
    IN  /\ Goto(c, "limit",
                IF max > 0 /\ CountForToken(Token(c)) >= max THEN "done"
                ELSE IF hello[c].sub = NoSub THEN "draw" ELSE "reservation")
        /\ UNCHANGED <<hello, cursor, tries, held, tunnelVars, registryVars, storeVars>>

\* resolveSubdomain, requested label: IsReserved, then the reservation.
CheckReservation(c) ==
    /\ Goto(c, "reservation",
            IF name[c] \notin BlockedSubs /\ resv[name[c]] \in {NoToken, Token(c)}
            THEN "lookup" ELSE "done")
    /\ UNCHANGED <<hello, cursor, tries, held, tunnelVars, registryVars, storeVars>>

CheckLive(c) ==
    /\ Goto(c, "lookup", IF Lookup(name[c]) = NoConn THEN AfterName(c) ELSE "done")
    /\ UNCHANGED <<hello, cursor, tries, held, tunnelVars, registryVars, storeVars>>

\* resolveSubdomain, random label: draw one that is not blocked and not live.
Draw(c) ==
    /\ tries[c] < RandomTries
    /\ tries' = [tries EXCEPT ![c] = @ + 1]
    /\ \E s \in Subs :
          /\ Goto(c, "draw",
                  IF s \notin BlockedSubs /\ Lookup(s) = NoConn THEN "drawn" ELSE "draw")
          /\ name' = [name EXCEPT ![c] = s]
    /\ UNCHANGED <<hello, cursor, held, owner, port, ready, closed, session, bound,
                   registryVars, storeVars>>

\* A reserved name is drawn again, its owner's included.
CheckDrawn(c) ==
    /\ Goto(c, "drawn", IF resv[name[c]] = NoToken THEN AfterName(c) ELSE "draw")
    /\ UNCHANGED <<hello, cursor, tries, held, tunnelVars, registryVars, storeVars>>

\* "could not find a free random subdomain"
DrawFails(c) ==
    /\ tries[c] = RandomTries
    /\ Goto(c, "draw", "done")
    /\ UNCHANGED <<hello, cursor, tries, held, tunnelVars, registryVars, storeVars>>

-----------------------------------------------------------------------------
(* bindTCP and registry.add.                                               *)

PortFree(p) == ~PortTaken(p) /\ bound[p] = NoConn /\ p \notin ForeignPorts

\* The candidate is free for the registry and for the kernel.
BindPort(c) ==
    LET p == cursor[c]
    IN  /\ Goto(c, "bind", "add")
        /\ p \in Ports
        /\ PortFree(p)
        /\ bound' = [bound EXCEPT ![p] = c]
        /\ port' = [port EXCEPT ![c] = p]
        /\ UNCHANGED <<hello, cursor, tries, held, name, owner, ready, closed, session,
                       registryVars, storeVars>>

\* The walk over the range goes on to the next port.
SkipPort(c) ==
    LET p == cursor[c]
    IN  /\ Goto(c, "bind", "bind")
        /\ p \in Ports
        /\ ~PortFree(p)
        /\ hello[c].port = NoPort
        /\ cursor' = [cursor EXCEPT ![c] = p + 1]
        /\ UNCHANGED <<hello, tries, held, tunnelVars, registryVars, storeVars>>

\* The range is exhausted, or the one requested port is out of it or taken.
RefusePort(c) ==
    LET p == cursor[c]
    IN  /\ Goto(c, "bind", "done")
        /\ p \in Ports => ~PortFree(p) /\ hello[c].port # NoPort
        /\ UNCHANGED <<hello, cursor, tries, held, tunnelVars, registryVars, storeVars>>

\* Mutant of AddTunnel: no errSubBusy.
AddTunnelUnchecked(c) ==
    /\ Goto(c, "add", "ack")
    /\ Add(c)
    /\ UNCHANGED <<hello, cursor, tries, held, tunnelVars, storeVars>>

\* The tunnel becomes visible under its name.
AddTunnel(c) ==
    /\ Goto(c, "add", "ack")
    /\ bySub[name[c]] = NoConn
    /\ Add(c)
    /\ UNCHANGED <<hello, cursor, tries, held, tunnelVars, storeVars>>

\* Mutant of AddFails: the owner is charged before the name is tested.
AddFailsCounted(c) ==
    /\ Goto(c, "add", "close")
    /\ bySub[name[c]] # NoConn
    /\ byToken' = [byToken EXCEPT ![owner[c]] = @ + 1]
    /\ UNCHANGED <<hello, cursor, tries, held, bySub, byPort, tunnelVars, storeVars>>

\* Mutant of AddFails: the tunnel is not closed, and keeps its port.
AddFailsUnclosed(c) ==
    /\ Goto(c, "add", "done")
    /\ bySub[name[c]] # NoConn
    /\ UNCHANGED <<hello, cursor, tries, held, tunnelVars, registryVars, storeVars>>

\* errSubBusy: Close gives the port back and the agent is refused.
AddFails(c) ==
    /\ Goto(c, "add", "close")
    /\ bySub[name[c]] # NoConn
    /\ UNCHANGED <<hello, cursor, tries, held, tunnelVars, registryVars, storeVars>>

-----------------------------------------------------------------------------
(* The published tunnel.                                                   *)

WriteAck(c) ==
    /\ Goto(c, "ack", "yamux")
    /\ UNCHANGED <<hello, cursor, tries, held, tunnelVars, registryVars, storeVars>>

\* Mutant of HandshakeFails: Close without registry.remove.
HandshakeFailsRegistered(c) ==
    /\ \/ Goto(c, "ack", "close")
       \/ Goto(c, "yamux", "close")
    /\ UNCHANGED <<hello, cursor, tries, held, tunnelVars, registryVars, storeVars>>

\* Mutant of HandshakeFails: the handler returns without releaseTunnel.
HandshakeFailsSilently(c) ==
    /\ \/ Goto(c, "ack", "done")
       \/ Goto(c, "yamux", "done")
    /\ UNCHANGED <<hello, cursor, tries, held, tunnelVars, registryVars, storeVars>>

\* The ack, the deadline or the yamux setup fails: releaseTunnel.
HandshakeFails(c) ==
    /\ \/ Goto(c, "ack", "remove")
       \/ Goto(c, "yamux", "remove")
    /\ UNCHANGED <<hello, cursor, tries, held, tunnelVars, registryVars, storeVars>>

OpenSession(c) ==
    /\ Goto(c, "yamux", "ready")
    /\ session' = [session EXCEPT ![c] = "open"]
    /\ UNCHANGED <<hello, cursor, tries, held, name, owner, port, ready, closed, bound,
                   registryVars, storeVars>>

MarkReady(c) ==
    /\ Goto(c, "ready", "touch")
    /\ ready' = [ready EXCEPT ![c] = TRUE]
    /\ UNCHANGED <<hello, cursor, tries, held, name, owner, port, closed, session, bound,
                   registryVars, storeVars>>

\* Mutant of TouchRead: the record as it was when the agent authenticated.
TouchReadAuthenticated(c) ==
    /\ Goto(c, "touch", "touchWrite")
    /\ held' = [held EXCEPT ![c] = "active"]
    /\ UNCHANGED <<hello, cursor, tries, tunnelVars, registryVars, storeVars>>

\* TouchToken, the read.
TouchRead(c) ==
    /\ Goto(c, "touch", IF Found(owner[c]) THEN "touchWrite" ELSE "accept")
    /\ held' = [held EXCEPT ![c] = IF Found(owner[c]) THEN token[owner[c]] ELSE @]
    /\ UNCHANGED <<hello, cursor, tries, tunnelVars, registryVars, storeVars>>

\* TouchToken, the write: the record as it was read, with a new LastUsed.
TouchWrite(c) ==
    /\ Goto(c, "touchWrite", "accept")
    /\ PutToken(owner[c], held[c])
    /\ held' = [held EXCEPT ![c] = "unborn"]
    /\ UNCHANGED <<hello, cursor, tries, tunnelVars, registryVars>>

\* A TCP tunnel whose listener is gone by now was closed meanwhile.
StartAccept(c) ==
    /\ Goto(c, "accept", IF port[c] # NoPort /\ closed[c] THEN "remove" ELSE "serve")
    /\ UNCHANGED <<hello, cursor, tries, held, tunnelVars, registryVars, storeVars>>

\* Mutant of SessionEnds: Close without registry.remove.
SessionEndsRegistered(c) ==
    /\ session[c] = "closed"
    /\ Goto(c, "serve", "close")
    /\ UNCHANGED <<hello, cursor, tries, held, tunnelVars, registryVars, storeVars>>

\* <-session.CloseChan()
SessionEnds(c) ==
    /\ session[c] = "closed"
    /\ Goto(c, "serve", "remove")
    /\ UNCHANGED <<hello, cursor, tries, held, tunnelVars, registryVars, storeVars>>

\* The agent exits, the link breaks, keepalive gives up on it, or the handler
\* has returned and closed the connection.
AgentLeaves(c) ==
    /\ session[c] = "open"
    /\ session' = [session EXCEPT ![c] = "closed"]
    /\ UNCHANGED <<name, owner, port, ready, closed, bound,
                   controlVars, registryVars, storeVars>>

-----------------------------------------------------------------------------
(* releaseTunnel: registry.remove, then Tunnel.Close("", false).           *)

RemoveTunnel(c) ==
    /\ Goto(c, "remove", "close")
    /\ Remove(c)
    /\ UNCHANGED <<hello, cursor, tries, held, tunnelVars, storeVars>>

CloseTunnel(c) ==
    /\ \/ Goto(c, "close", "closeListener") /\ CloseBegin(c)
       \/ Goto(c, "close", "done") /\ closed[c] /\ UNCHANGED tunnelVars
       \/ Goto(c, "closeListener", "closeSession") /\ CloseListener(c)
       \/ Goto(c, "closeSession", "done") /\ CloseSession(c)
    /\ UNCHANGED <<hello, cursor, tries, held, registryVars, storeVars>>

-----------------------------------------------------------------------------
\* What handler c does of its own accord once it has a Hello.
HandlerStep(c) ==
    \/ Authenticate(c) \/ RefuseToken(c) \/ CheckLimit(c)
    \/ CheckReservation(c) \/ CheckLive(c)
    \/ Draw(c) \/ CheckDrawn(c) \/ DrawFails(c)
    \/ BindPort(c) \/ SkipPort(c) \/ RefusePort(c)
    \/ AddTunnel(c) \/ AddFails(c)
    \/ WriteAck(c) \/ HandshakeFails(c) \/ OpenSession(c) \/ MarkReady(c)
    \/ TouchRead(c) \/ TouchWrite(c) \/ StartAccept(c) \/ SessionEnds(c)
    \/ RemoveTunnel(c) \/ CloseTunnel(c)

ConnStep(c) ==
    \/ ReadHello(c) \/ RefuseHello(c) \/ AgentLeaves(c)
    \/ HandlerStep(c)
=============================================================================
