------------------------------- MODULE Server -------------------------------
(***************************************************************************)
(* The server process: agent connections (Control) and management requests *)
(* (Api) over one registry and one store, and the loss of everything but   *)
(* the store when the process stops and is started again.                  *)
(***************************************************************************)
EXTENDS Control, Api

CONSTANTS
    Minted,        \* the tokens that exist at the start
    MaxRestarts    \* bound of the model on restarts

ASSUME ServerAssumption ==
    /\ Minted \subseteq Tokens
    /\ Minted \cap Admins # {}     \* Bootstrap saw to it
    /\ MaxRestarts \in Nat

VARIABLE restarts

vars == <<storeVars, registryVars, tunnelVars, controlVars, apiVars, restarts>>

TypeOK ==
    /\ StoreTypeOK
    /\ RegistryTypeOK
    /\ ControlTypeOK
    /\ ApiTypeOK
    /\ restarts \in 0 .. MaxRestarts

Init ==
    /\ token = [t \in Tokens |-> IF t \in Minted THEN "active" ELSE "unborn"]
    /\ resv = [s \in Subs |-> NoToken]
    /\ RegistryInit
    /\ ControlInit
    /\ ApiInit
    /\ restarts = 0

\* Bootstrap, before anything listens: an admin is minted if none is usable.
Bootstrap ==
    \/ UsableAdmins # {} /\ UNCHANGED storeVars
    \/ UsableAdmins = {} /\ \E t \in Admins : CreateToken(t)

\* The process stops at any point and is started again.  Handlers and
\* requests are gone with their sessions, listeners and the registry; what
\* was committed to the store stays.
Restart ==
    /\ restarts < MaxRestarts
    /\ restarts' = restarts + 1
    /\ Bootstrap
    /\ bySub' = [s \in Subs |-> NoConn]
    /\ byPort' = [p \in Ports |-> NoConn]
    /\ byToken' = [t \in Tokens |-> 0]
    /\ bound' = [p \in Ports |-> NoConn]
    /\ pc' = [c \in Conns |-> IF pc[c] = "idle" THEN "idle" ELSE "done"]
    /\ session' = [c \in Conns |-> IF session[c] = "open" THEN "closed" ELSE session[c]]
    /\ closed' = [c \in Conns |-> pc[c] # "idle"]
    /\ ready' = [c \in Conns |-> FALSE]
    /\ held' = [c \in Conns |-> "unborn"]
    /\ rpc' = [k \in Requests |-> IF rpc[k] = "idle" THEN "idle" ELSE "done"]
    /\ record' = [k \in Requests |-> "unborn"]
    /\ todo' = [k \in Requests |-> {}]
    /\ cur' = [k \in Requests |-> NoConn]
    /\ UNCHANGED <<name, owner, port, hello, cursor, tries, req>>

Next ==
    \/ \E c \in Conns : ConnStep(c) /\ UNCHANGED <<apiVars, restarts>>
    \/ \E k \in Requests : RequestStep(k) /\ UNCHANGED <<controlVars, restarts>>
    \/ Restart

Spec == Init /\ [][Next]_vars

\* The Go scheduler runs every goroutine that can run: a handler that has its
\* Hello, and a request that was let in, take their next step.  Nothing
\* obliges agents, clients, links or the operator to do anything.
Fairness ==
    /\ \A c \in Conns : WF_vars(HandlerStep(c) /\ UNCHANGED <<apiVars, restarts>>)
    /\ \A k \in Requests : WF_vars(HandleStep(k) /\ UNCHANGED <<controlVars, restarts>>)

FairSpec == Spec /\ Fairness

-----------------------------------------------------------------------------
(* Vocabulary of the properties.                                           *)

\* Published by its handler and not yet released by it.
Published(c) == pc[c] \in Handshake \cup Serving \cup {"remove"}

\* A request has taken c out of the registry, or is about to close it.
Dropping(k, c) == cur[k] = c /\ rpc[k] \in {"close", "closeListener", "closeSession"}

\* Tunnel c carries public traffic.
Routable(c) == Registered(c) /\ ready[c] /\ session[c] = "open"

Live(t) == {c \in Conns : Registered(c) /\ owner[c] = t}

AtRest == /\ \A c \in Conns : pc[c] \in {"idle", "done"}
          /\ \A k \in Requests : rpc[k] \in {"idle", "done"}

ApiAtRest == \A k \in Requests : rpc[k] \in {"idle", "done"}

-----------------------------------------------------------------------------
(* Safety.                                                                 *)

\* A tunnel between AddTunnel and markReady keeps its name and stays open:
\* no request can reach it, because byID and list answer with routable
\* tunnels only.  Were it closed there, its session would not be set yet and
\* its handler would wait for ever on a session nobody closes.
HandshakeUndisturbed ==
    \A c \in Conns : pc[c] \in Handshake => Registered(c) /\ ~closed[c]

\* A tunnel its handler still runs, and that nobody is closing, is in the
\* registry: the removal of another tunnel of the same name (a late second
\* removal above all) never takes it out, so no agent is left with a session
\* the edge cannot find.
NoOrphanTunnel ==
    \A c \in Conns :
        Published(c) /\ ~closed[c] /\ (\A k \in Requests : ~Dropping(k, c))
            => Registered(c)

\* The registry holds only tunnels some goroutine is going to remove: the
\* handler that runs it.  A name is never left with a dead tunnel.
NoStaleName ==
    \A s \in Subs : bySub[s] # NoConn =>
        /\ Published(bySub[s])
        /\ name[bySub[s]] = s

\* registry.byPort and registry.bySub never disagree: a port maps to the TCP
\* tunnel that was given it exactly while that tunnel holds its name, though
\* add overwrites the entry without a test.
PortIndexAgrees ==
    \A c \in Conns, p \in Ports :
        byPort[p] = c <=> Registered(c) /\ port[c] = p

\* The kernel's port table follows the tunnels: a socket is held only by a
\* tunnel that was given this very port and whose handler or closer has still
\* to release it, and a published tunnel that is not closed has its socket.
ListenerFollowsTunnel ==
    /\ \A p \in Ports : bound[p] # NoConn =>
          LET c == bound[p]
          IN  /\ port[c] = p
              /\ pc[c] # "done" \/ \E k \in Requests : Dropping(k, c)
    /\ \A c \in Conns :
          port[c] # NoPort /\ Published(c) /\ ~closed[c] => bound[port[c]] = c

\* countForToken never reports more tunnels than the token has in the
\* registry, so no token is locked out of its MaxTunnels by past tunnels.
NeverOvercounted ==
    \A t \in Tokens : byToken[t] <= Cardinality(Live(t))

\* When every handler and request is over nothing is left behind: no name, no
\* port, no count, no listening socket and no open session.
CleanAtRest ==
    AtRest => /\ \A s \in Subs : bySub[s] = NoConn
              /\ \A p \in Ports : byPort[p] = NoConn /\ bound[p] = NoConn
              /\ \A t \in Tokens : byToken[t] = 0
              /\ \A c \in Conns : session[c] # "open"

\* A token's reservations never exceed its cap, though requests of the token
\* and of admins on its behalf race: the count and the write share one
\* transaction.
ReservationLimitHolds ==
    \A t \in Tokens :
        EffectiveReservationLimit(t) > 0 =>
            Cardinality(Held(t)) <= EffectiveReservationLimit(t)

-----------------------------------------------------------------------------
(* The inductive invariant.  The properties of names above do not follow   *)
(* from one state to the next by themselves: that a second removal of a    *)
(* tunnel hurts nobody rests on who may be asked to drop a tunnel, which   *)
(* rests on what byID and list can see.                                    *)

\* The handler of c has made the tunnel routable, or has given up on it.
PastHandshake(c) == pc[c] \in Serving \cup Releasing \cup {"done"}

\* What each handler and each request has filled in by the time it needs it.
WellFormed ==
    /\ \A c \in Conns :
          /\ pc[c] \notin {"idle", "done"} => hello[c] \in Hellos
          /\ pc[c] \notin {"idle", "done", "authenticate"} => owner[c] = Token(c)
          /\ pc[c] \in {"authenticate", "limit"} => name[c] = hello[c].sub
          /\ pc[c] \notin {"idle", "done", "authenticate", "limit", "draw"} => name[c] \in Subs
    /\ \A k \in Requests :
          /\ rpc[k] \notin {"idle", "done"} => req[k] \in RequestInputs
          /\ rpc[k] = "revokeWrite" => req[k].kind = "revoke"
          /\ rpc[k] = "list" => req[k].kind \in {"revoke", "delete"}
          /\ rpc[k] = "reserve" => req[k].kind = "reserve"
          /\ rpc[k] = "release" => req[k].kind = "release"

\* A tunnel some request is to drop, or is closing, was routable once: it has
\* its name and its owner, and its handler is past the handshake.
DropTargets ==
    \A k \in Requests :
        /\ rpc[k] \in {"close", "closeListener", "closeSession"} => cur[k] \in Conns
        /\ rpc[k] \in {"closeListener", "closeSession"} => closed[cur[k]]
        /\ \A c \in Conns :
              c \in todo[k] \/ Dropping(k, c) =>
                  PastHandshake(c) /\ name[c] \in Subs /\ owner[c] \in Tokens

\* A tunnel is neither ready nor closed before its handler publishes it, and
\* not ready until its handler says so.
FlagsFollowHandler ==
    \A c \in Conns :
        /\ pc[c] \in {"idle"} \cup Resolving => ~ready[c] /\ ~closed[c]
        /\ pc[c] \in Handshake => ~ready[c]

IInv ==
    /\ TypeOK
    /\ WellFormed
    /\ DropTargets
    /\ FlagsFollowHandler
    /\ HandshakeUndisturbed
    /\ NoOrphanTunnel
    /\ NoStaleName

-----------------------------------------------------------------------------
(* Action properties.                                                      *)

\* Somebody holds a copy of t's record read while it was active, and will
\* write it back.
StaleCopy(t) ==
    \/ \E c \in Conns : pc[c] = "touchWrite" /\ owner[c] = t /\ held[c] = "active"
    \/ \E k \in Requests :
          rpc[k] = "touchWrite" /\ Actor(k) = t /\ record[k] = "active"

\* A revoked or deleted token becomes usable again only through a TouchToken
\* that read the record before: with none under way it is out for good.
RevocationSticks ==
    [][\A t \in Tokens :
          token[t] \in {"revoked", "deleted"} /\ ~StaleCopy(t)
              => token'[t] # "active" /\ ~StaleCopy(t)']_vars

\* A reservation never passes from one token to another in one step, whoever
\* asks: it is given up (or its owner deleted) first.
ReservationNeverStolen ==
    [][\A s \in Subs : resv[s] # NoToken => resv'[s] \in {resv[s], NoToken}]_vars

-----------------------------------------------------------------------------
(* Refinement.                                                             *)

LeaseLife(c) ==
    IF Registered(c) THEN "holding"
    ELSE IF pc[c] \in {"idle"} \cup Resolving THEN "new"
    ELSE "over"

Lives == [c \in Conns |-> LeaseLife(c)]

Lease == INSTANCE NameLease WITH
    Names <- Subs, Holders <- Conns, Nobody <- NoConn, holder <- bySub, life <- Lives

\* The registry, its two maps and the three ways out of it implement a lease
\* of names.
ImplementsNameLease == Lease!LeaseSpec

-----------------------------------------------------------------------------
(* Liveness.                                                               *)

\* A tunnel a request sets out to drop ends: its session is closed and its
\* name no longer leads to it, whatever else is closing it meanwhile.
DropTakesEffect ==
    \A k \in Requests, c \in Conns :
        c \in todo[k] ~> session[c] # "open" /\ ~Registered(c)

\* A session that ended, from whichever side, gives its name, its port and
\* its socket back.
EndedSessionIsReleased ==
    \A c \in Conns :
        session[c] = "closed" ~> pc[c] = "done" /\ ~Registered(c)
                                 /\ \A p \in Ports : bound[p] # c

\* A handshake ends: the name an agent was told is routable, or given back.
HandshakeEnds ==
    \A c \in Conns : pc[c] \in Handshake ~> ready[c] \/ ~Registered(c)

-----------------------------------------------------------------------------
(* What the code's documents say, and the code does not do.                *)

\* api.go:199: "Revocation must take effect immediately, not at the next
\* handshake."
RevokedTokenHasNoTunnels ==
    \A c \in Conns :
        ApiAtRest /\ Routable(c) => token[owner[c]] \notin {"revoked", "deleted"}
=============================================================================
