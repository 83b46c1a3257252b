---------------------------- MODULE EventStream ----------------------------
(***************************************************************************)
(* The stream on which the server pushes events to an agent: Tunnel.emit   *)
(* and Tunnel.Close of internal/server/registry.go, WriteMsg of            *)
(* internal/proto/proto.go, and the yamux session they write to, as far as *)
(* they use it.                                                            *)
(*                                                                         *)
(* WriteMsg writes a frame in two writes, the length and then the payload. *)
(* A yamux write is whole, so a chunk is one write and the chunks of       *)
(* concurrent writers may alternate.  A write waits while the window is    *)
(* full and fails once the stream or the session has ended.                *)
(***************************************************************************)
EXTENDS Naturals, Sequences

CONSTANTS
    MaxSessions,   \* bound: sessions one agent opens
    Emitters,      \* edge requests and TCP connections, each emits one event
    Closer,        \* who writes the close event, as the author of a chunk
    NoWriter,
    Window,        \* the stream's send window, in chunks
    World          \* what may happen from outside in an instance

Conns == 1 .. MaxSessions

ASSUME EventStreamAssumption ==
    /\ MaxSessions \in Nat \ {0}
    /\ Window \in Nat \ {0}
    /\ Closer \notin Emitters
    /\ NoWriter \notin Emitters \cup {Closer}
    /\ World \subseteq {"cut", "operator", "shutdown", "denial", "cancel"}

VARIABLES
    link,      \* the network under a connection: "none", "up" or "cut"
    session,   \* the server's end of the session: "none", "open", "closed"
    joined,    \* the agent's end: "none", "open", "closed"
    stream,    \* the server's end of the event stream
    events,    \* Tunnel.events is set
    closer,    \* the call of Tunnel.Close that found the tunnel open
    emitter,   \* each emit call: where it is and on whose stream
    wire,      \* chunks the server has written and the agent's yamux not read
    inbox      \* chunks the agent's yamux holds for the reader

streamVars == <<link, session, joined, stream, events, closer, emitter, wire, inbox>>

Writers == Emitters \cup {Closer}
Chunks  == {"head", "body"} \X Writers \cup {<<"tag", NoWriter>>, <<"fin", NoWriter>>}

EndsOK ==
    /\ link \in [Conns -> {"none", "up", "cut"}]
    /\ session \in [Conns -> {"none", "open", "closed"}]
    /\ joined \in [Conns -> {"none", "open", "closed"}]
    /\ stream \in [Conns -> {"none", "open", "ended", "reset"}]
    /\ events \in [Conns -> BOOLEAN]
    /\ closer \in [Conns -> [at : {"idle", "head", "body", "finish", "session", "done"},
                             final : BOOLEAN]]
    /\ emitter \in [Emitters -> [at : {"idle", "head", "body", "done"}, on : Conns]]

PipesOK == wire \in [Conns -> Seq(Chunks)] /\ inbox \in [Conns -> Seq(Chunks)]

\* The window, and the end of the stream beyond it.
StreamTypeOK ==
    /\ EndsOK /\ PipesOK
    /\ \A c \in Conns : Len(wire[c]) + Len(inbox[c]) <= Window + 1

StreamInit ==
    /\ link = [c \in Conns |-> "none"]
    /\ session = [c \in Conns |-> "none"]
    /\ joined = [c \in Conns |-> "none"]
    /\ stream = [c \in Conns |-> "none"]
    /\ events = [c \in Conns |-> FALSE]
    /\ closer = [c \in Conns |-> [at |-> "idle", final |-> FALSE]]
    /\ emitter = [e \in Emitters |-> [at |-> "idle", on |-> 1]]
    /\ wire = [c \in Conns |-> <<>>]
    /\ inbox = [c \in Conns |-> <<>>]

(***************************************************************************)
(* The yamux stream, from the server's side.                               *)
(***************************************************************************)

Writable(c) == session[c] = "open" /\ stream[c] = "open"

\* Mutant of HasRoom: one chunk too many.
HasRoomForOneMore(c) == Len(wire[c]) + Len(inbox[c]) <= Window

\* The window counts what the reader has not consumed.
HasRoom(c) == Len(wire[c]) + Len(inbox[c]) < Window

\* What is sent to an agent that has gone is lost.
Send(c, chunk) ==
    wire' = IF joined[c] = "closed" THEN wire ELSE [wire EXCEPT ![c] = Append(@, chunk)]

Write(c, chunk) == Writable(c) /\ HasRoom(c) /\ Send(c, chunk)

WriteFails(c) == ~Writable(c)

\* handleControlConn: the session, its event stream with the kind byte, and
\* attachEvents.  Opening the stream fails only when the agent has gone.
OpenSession(c) ==
    /\ session' = [session EXCEPT ![c] = "open"]
    /\ \/ /\ Send(c, <<"tag", NoWriter>>)
          /\ stream' = [stream EXCEPT ![c] = "open"]
          /\ events' = [events EXCEPT ![c] = TRUE]
       \/ /\ joined[c] = "closed"
          /\ UNCHANGED <<wire, stream, events>>
    /\ UNCHANGED <<link, joined, closer, emitter, inbox>>

(***************************************************************************)
(* Tunnel.emit.                                                            *)
(***************************************************************************)

\* Under t.mu: the stream to write to.  With none, emit returns.
EmitStart(e, c) ==
    /\ emitter[e].at = "idle"
    /\ emitter' = [emitter EXCEPT ![e] =
                      [at |-> IF events[c] THEN "head" ELSE "done", on |-> c]]
    /\ UNCHANGED <<link, session, joined, stream, events, closer, wire, inbox>>

EmitWrites(e, part, next) ==
    /\ emitter[e].at = part
    /\ Write(emitter[e].on, <<part, e>>)
    /\ emitter' = [emitter EXCEPT ![e].at = next]
    /\ UNCHANGED <<link, session, joined, stream, events, closer, inbox>>

EmitHead(e) == EmitWrites(e, "head", "body")
EmitBody(e) == EmitWrites(e, "body", "done")

\* Mutant of EmitFails: a writer is told of the end of the session only.
EmitFailsDeaf(e) ==
    /\ emitter[e].at \in {"head", "body"}
    /\ session[emitter[e].on] # "open"
    /\ events' = [events EXCEPT ![emitter[e].on] = FALSE]
    /\ emitter' = [emitter EXCEPT ![e].at = "done"]
    /\ UNCHANGED <<link, session, joined, stream, closer, wire, inbox>>

\* The stream is forgotten.  Closing it changes nothing more, since it failed.
EmitFails(e) ==
    /\ emitter[e].at \in {"head", "body"}
    /\ WriteFails(emitter[e].on)
    /\ events' = [events EXCEPT ![emitter[e].on] = FALSE]
    /\ emitter' = [emitter EXCEPT ![e].at = "done"]
    /\ UNCHANGED <<link, session, joined, stream, closer, wire, inbox>>

(***************************************************************************)
(* Tunnel.Close.  Only the call that finds the tunnel open goes on.        *)
(***************************************************************************)

\* With a reason the close event is written first, if there is a stream.
CloseBegin(c, reason, final) ==
    /\ closer[c].at = "idle"
    /\ closer' = [closer EXCEPT ![c] =
                     [at    |-> CASE events[c] /\ reason -> "head"
                                  [] events[c] /\ ~reason -> "finish"
                                  [] OTHER -> "session",
                      final |-> final]]
    /\ events' = [events EXCEPT ![c] = FALSE]
    /\ UNCHANGED <<link, session, joined, stream, emitter, wire, inbox>>

CloseWrites(c, part, next) ==
    /\ closer[c].at = part
    /\ Write(c, <<part, Closer>>)
    /\ closer' = [closer EXCEPT ![c].at = next]
    /\ UNCHANGED <<link, session, joined, stream, events, emitter, inbox>>

CloseHead(c) == CloseWrites(c, "head", "body")
CloseBody(c) == CloseWrites(c, "body", "finish")

CloseFails(c) ==
    /\ closer[c].at \in {"head", "body"}
    /\ WriteFails(c)
    /\ closer' = [closer EXCEPT ![c].at = "finish"]
    /\ UNCHANGED <<link, session, joined, stream, events, emitter, wire, inbox>>

\* events.Close: the end of the stream needs no window.
CloseStream(c) ==
    /\ closer[c].at = "finish"
    /\ IF Writable(c) THEN Send(c, <<"fin", NoWriter>>) ELSE UNCHANGED wire
    /\ stream' = IF stream[c] = "open" THEN [stream EXCEPT ![c] = "ended"] ELSE stream
    /\ closer' = [closer EXCEPT ![c].at = "session"]
    /\ UNCHANGED <<link, session, joined, events, emitter, inbox>>

\* Mutant of CloseSession: the session is left to the agent.
CloseSessionKept(c) ==
    /\ closer[c].at = "session"
    /\ closer' = [closer EXCEPT ![c].at = "done"]
    /\ UNCHANGED <<link, session, joined, stream, events, emitter, wire, inbox>>

\* A tunnel that has no session yet ends with its connection, which its
\* handler closes on the way out.
CloseSession(c) ==
    /\ closer[c].at = "session"
    /\ session' = [session EXCEPT ![c] = "closed"]
    /\ closer' = [closer EXCEPT ![c].at = "done"]
    /\ UNCHANGED <<link, joined, stream, events, emitter, wire, inbox>>

(***************************************************************************)
(* The network and the two ends of the session.                            *)
(***************************************************************************)

Cut(c) ==
    /\ "cut" \in World
    /\ link[c] = "up"
    /\ joined[c] # "closed" \/ session[c] = "open"
    /\ link' = [link EXCEPT ![c] = "cut"]
    /\ UNCHANGED <<session, joined, stream, events, closer, emitter, wire, inbox>>

\* The agent's yamux reads the connection and buffers what it carries.
Deliver(c) ==
    /\ link[c] = "up"
    /\ joined[c] = "open"
    /\ wire[c] # <<>>
    /\ inbox' = [inbox EXCEPT ![c] = Append(@, Head(wire[c]))]
    /\ wire' = [wire EXCEPT ![c] = Tail(@)]
    /\ UNCHANGED <<link, session, joined, stream, events, closer, emitter>>

\* The agent's end closes: what it has not read is lost.
LeaveSession(c) ==
    /\ joined' = [joined EXCEPT ![c] = "closed"]
    /\ wire' = [wire EXCEPT ![c] = <<>>]

\* The agent's end: it has read all there was, or a keepalive or a write of
\* its own failed first and the rest is lost.
AgentSeesEnd(c) ==
    /\ joined[c] = "open"
    /\ \/ session[c] = "closed" /\ wire[c] = <<>>
       \/ session[c] = "closed" /\ "cut" \in World
       \/ link[c] = "cut"
    /\ LeaveSession(c)
    /\ UNCHANGED <<link, session, stream, events, closer, emitter, inbox>>

\* The server's end, which may notice long after the agent's.
ServerSeesEnd(c) ==
    /\ session[c] = "open"
    /\ joined[c] = "closed" \/ link[c] = "cut"
    /\ session' = [session EXCEPT ![c] = "closed"]
    /\ UNCHANGED <<link, joined, stream, events, closer, emitter, wire, inbox>>
=============================================================================
