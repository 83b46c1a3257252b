------------------------------ MODULE Registry ------------------------------
(***************************************************************************)
(* internal/server/registry.go: the registry of live tunnels and the       *)
(* Tunnel object itself, with the listening socket of a TCP tunnel.        *)
(*                                                                         *)
(* Every agent connection makes at most one Tunnel (newTunnel is called    *)
(* once, in authorize), so a tunnel is identified by its connection.       *)
(* registry.add and registry.remove run under registry.mu and are one step *)
(* each.  Tunnel.Close releases its mutex before it touches the listener   *)
(* and the session, so it is three steps: CloseBegin, CloseListener,       *)
(* CloseSession.  The order of its last effects is the code's.             *)
(***************************************************************************)
EXTENDS Store

CONSTANTS
    Conns,               \* agent connections, hence tunnels
    NoConn,
    NoSub,
    BlockedSubs,         \* labels the operator listed: Config.IsReserved
    PortFrom, PortTo,    \* Config.TCPPortRange
    ForeignPorts         \* ports of the range some other process listens on

ASSUME RegistryAssumption ==
    /\ NoConn \notin Conns
    /\ NoSub \notin Subs
    /\ BlockedSubs \subseteq Subs
    /\ IsFiniteSet(Conns)
    /\ PortFrom \in Nat \ {0}
    /\ PortTo \in Nat

Ports == PortFrom .. PortTo

\* Tunnel.PublicPort of an HTTP tunnel.
NoPort == 0

VARIABLES
    bySub,     \* registry.bySub:   [Subs -> Conns \cup {NoConn}]
    byPort,    \* registry.byPort:  [Ports -> Conns \cup {NoConn}]
    byToken,   \* registry.byToken: [Tokens -> Nat], a missing key is 0
    name,      \* Tunnel.Subdomain
    owner,     \* Tunnel.TokenID
    port,      \* Tunnel.PublicPort
    ready,     \* Tunnel.ready
    closed,    \* Tunnel.closed
    session,   \* Tunnel.session: not set yet, open, or closed
    bound      \* the kernel's view: which tunnel's listener holds a port

registryVars == <<bySub, byPort, byToken>>
tunnelVars   == <<name, owner, port, ready, closed, session, bound>>

RegistryTypeOK ==
    /\ bySub \in [Subs -> Conns \cup {NoConn}]
    /\ byPort \in [Ports -> Conns \cup {NoConn}]
    /\ byToken \in [Tokens -> Nat]
    /\ name \in [Conns -> Subs \cup {NoSub}]
    /\ owner \in [Conns -> Tokens \cup {NoToken}]
    /\ port \in [Conns -> Ports \cup {NoPort}]
    /\ ready \in [Conns -> BOOLEAN]
    /\ closed \in [Conns -> BOOLEAN]
    /\ session \in [Conns -> {"none", "open", "closed"}]
    /\ bound \in [Ports -> Conns \cup {NoConn}]

RegistryInit ==
    /\ bySub = [s \in Subs |-> NoConn]
    /\ byPort = [p \in Ports |-> NoConn]
    /\ byToken = [t \in Tokens |-> 0]
    /\ name = [c \in Conns |-> NoSub]
    /\ owner = [c \in Conns |-> NoToken]
    /\ port = [c \in Conns |-> NoPort]
    /\ ready = [c \in Conns |-> FALSE]
    /\ closed = [c \in Conns |-> FALSE]
    /\ session = [c \in Conns |-> "none"]
    /\ bound = [p \in Ports |-> NoConn]

(***************************************************************************)
(* Lookups.                                                                *)
(***************************************************************************)

\* registry.lookup: a tunnel still in its handshake is invisible.
Lookup(s) == IF bySub[s] # NoConn /\ ready[bySub[s]] THEN bySub[s] ELSE NoConn

\* Tunnel c is the one the registry knows under its name.
Registered(c) == name[c] \in Subs /\ bySub[name[c]] = c

\* Mutant of ByID: a tunnel still in its handshake is found too.
ByIDUnready(c) == Registered(c)

\* registry.byID and registry.list answer with routable tunnels only.
ByID(c) == Registered(c) /\ ready[c]
List(t) == {c \in Conns : Registered(c) /\ ready[c] /\ owner[c] = t}

CountForToken(t) == byToken[t]

PortTaken(p) == byPort[p] # NoConn

(***************************************************************************)
(* registry.add and registry.remove.                                       *)
(***************************************************************************)

\* The success path; the caller tests errSubBusy, bySub[name[c]] # NoConn.
\* byPort is overwritten without a test.
Add(c) ==
    /\ bySub' = [bySub EXCEPT ![name[c]] = c]
    /\ byPort' = IF port[c] # NoPort THEN [byPort EXCEPT ![port[c]] = c] ELSE byPort
    /\ byToken' = [byToken EXCEPT ![owner[c]] = @ + 1]

\* Mutant of Remove: the name is freed whoever holds it by now.
RemoveAnyHolder(c) ==
    /\ bySub' = [bySub EXCEPT ![name[c]] = NoConn]
    /\ byPort' = IF port[c] # NoPort /\ byPort[port[c]] = c
                 THEN [byPort EXCEPT ![port[c]] = NoConn] ELSE byPort
    /\ byToken' = [byToken EXCEPT ![owner[c]] = IF @ <= 1 THEN 0 ELSE @ - 1]

\* Mutant of Remove: the port index is forgotten.
RemoveKeepsPort(c) ==
    /\ bySub' = IF bySub[name[c]] = c THEN [bySub EXCEPT ![name[c]] = NoConn] ELSE bySub
    /\ byToken' = [byToken EXCEPT ![owner[c]] = IF @ <= 1 THEN 0 ELSE @ - 1]
    /\ UNCHANGED byPort

\* Both maps forget c only while they still name it; the owner's count goes
\* down whether they did or not, and stops at zero.
Remove(c) ==
    /\ bySub' = IF bySub[name[c]] = c THEN [bySub EXCEPT ![name[c]] = NoConn] ELSE bySub
    /\ byPort' = IF port[c] # NoPort /\ byPort[port[c]] = c
                 THEN [byPort EXCEPT ![port[c]] = NoConn] ELSE byPort
    /\ byToken' = [byToken EXCEPT ![owner[c]] = IF @ <= 1 THEN 0 ELSE @ - 1]

(***************************************************************************)
(* Tunnel.Close.  The listener field is set in authorize and cleared under *)
(* the flag, so it is nil exactly for an HTTP tunnel or a closed one.      *)
(***************************************************************************)

\* Under t.mu: the flag, and the listener handed to this caller.  A second
\* caller returns at once: CloseBegin is not enabled for it.
CloseBegin(c) ==
    /\ ~closed[c]
    /\ closed' = [closed EXCEPT ![c] = TRUE]
    /\ UNCHANGED <<name, owner, port, ready, session, bound>>

CloseListener(c) ==
    /\ bound' = [p \in Ports |-> IF bound[p] = c THEN NoConn ELSE bound[p]]
    /\ UNCHANGED <<name, owner, port, ready, closed, session>>

\* Mutant of CloseSession: the session is left open.
CloseSessionKept(c) == UNCHANGED <<name, owner, port, ready, closed, session, bound>>

\* A tunnel whose session is not set yet has nothing to close.
CloseSession(c) ==
    /\ session' = IF session[c] = "open" THEN [session EXCEPT ![c] = "closed"] ELSE session
    /\ UNCHANGED <<name, owner, port, ready, closed, bound>>
=============================================================================
