------------------------------- MODULE Agent -------------------------------
(***************************************************************************)
(* internal/client/agent.go: one agent that keeps a tunnel open, session   *)
(* after session, against a server that keeps the promises of NameLease.   *)
(*                                                                         *)
(* Run and session are one program counter, at; the goroutine that reads   *)
(* the event stream of session c is reader[c] and may outlive the session. *)
(* The server's half is the part of handleControlConn an agent can tell:   *)
(* it leases the name, answers, serves, and gives the lease back.  That    *)
(* the real server leases names this way is Server!ImplementsNameLease.    *)
(* The delay between attempts (1 s, doubled up to 30 s) is left out: how   *)
(* long an attempt takes is not bounded either.                            *)
(***************************************************************************)
EXTENDS EventStream

CONSTANTS
    Names,
    NoName,      \* the agent asks for no name in particular
    Nobody,
    Wants,       \* values of AgentOptions.Subdomain to consider
    Options      \* and of AgentOptions.Reconnect

ASSUME AgentAssumption ==
    /\ NoName \notin Names
    /\ Nobody \notin Conns
    /\ Wants \subseteq Names \cup {NoName}
    /\ Options \subseteq BOOLEAN

VARIABLES
    at,          \* where Run is
    current,     \* the session Run is in, zero before the first
    wanted,      \* AgentOptions.Subdomain
    reconnect,   \* AgentOptions.Reconnect
    granted,     \* Agent.grantedSub
    stopRetry,   \* Agent.stopRetry
    cancelled,   \* the context of Run is done
    outcome,     \* what session returned: "nil", "lost" or "refused"
    result,      \* what Run returned, "none" while it runs
    reader,      \* handleStream for the event stream of each session
    frame,       \* the author of the frame the reader is in
    seen,        \* eventTracker.seen
    drained,     \* how drain ended in the latest session
    handler,     \* the server's handleControlConn for each connection
    asked,       \* the name in the Hello of each connection
    ack,         \* the server's answer
    holder,      \* NameLease: who holds each name
    life         \* NameLease: the life of each connection

runVars    == <<at, current, wanted, reconnect, granted, stopRetry, cancelled, outcome, result, drained>>
readerVars == <<reader, frame, seen>>
serverVars == <<handler, asked, ack, holder, life>>
vars == <<streamVars, runVars, readerVars, serverVars>>

Lease == INSTANCE NameLease WITH Holders <- Conns

NoAck == [code |-> "none", name |-> NoName]

RunOK ==
    /\ at \in {"dial", "hello", "serve", "drain", "close", "over", "notify", "wait", "returned"}
    /\ current \in 0 .. MaxSessions
    /\ wanted \in Wants
    /\ reconnect \in Options
    /\ granted \in Names \cup {NoName}
    /\ stopRetry \in BOOLEAN /\ cancelled \in BOOLEAN
    /\ outcome \in {"nil", "lost", "refused"}
    /\ result \in {"none", "cancelled", "refused", "told", "lost"}
    /\ drained \in {"none", "unseen", "heard", "timeout"}

ReaderOK ==
    /\ reader \in [Conns -> {"none", "tag", "head", "body", "report",
                             "finished", "cutoff", "garbled"}]
    /\ frame \in [Conns -> Writers \cup {NoWriter}]
    /\ seen \in [Conns -> BOOLEAN]

ServerOK ==
    /\ handler \in [Conns -> {"none", "hello", "ack", "open", "serve", "release", "close", "done"}]
    /\ asked \in [Conns -> Names \cup {NoName}]
    /\ ack \in [Conns -> [code : {"none", "ok", "taken", "denied"}, name : Names \cup {NoName}]]
    /\ holder \in [Names -> Conns \cup {Nobody}]
    /\ life \in [Conns -> {"new", "holding", "over"}]

TypeOK == StreamTypeOK /\ RunOK /\ ReaderOK /\ ServerOK

Init ==
    /\ StreamInit
    /\ at = "dial" /\ current = 0
    /\ wanted \in Wants
    /\ reconnect \in Options
    /\ granted = NoName
    /\ stopRetry = FALSE /\ cancelled = FALSE
    /\ outcome = "nil" /\ result = "none" /\ drained = "none"
    /\ reader = [c \in Conns |-> "none"]
    /\ frame = [c \in Conns |-> NoWriter]
    /\ seen = [c \in Conns |-> FALSE]
    /\ handler = [c \in Conns |-> "none"]
    /\ asked = [c \in Conns |-> NoName]
    /\ ack = [c \in Conns |-> NoAck]
    /\ Lease!LeaseInit

-----------------------------------------------------------------------------
(* Run and session.                                                        *)

\* Mutant of HelloName: the granted name is not remembered.
HelloNameForgotten == wanted

\* session: the name to ask for.
HelloName == IF wanted = NoName THEN granted ELSE wanted

\* dial, and the Hello written on the new connection.
Dial ==
    /\ at = "dial"
    /\ ~cancelled
    /\ current < MaxSessions
    /\ current' = current + 1
    /\ at' = "hello"
    /\ outcome' = "nil"
    /\ link' = [link EXCEPT ![current + 1] = "up"]
    /\ handler' = [handler EXCEPT ![current + 1] = "hello"]
    /\ asked' = [asked EXCEPT ![current + 1] = HelloName]
    /\ UNCHANGED <<wanted, reconnect, granted, stopRetry, cancelled, result, drained, readerVars,
                   session, joined, stream, events, closer, emitter, wire, inbox,
                   ack, holder, life>>

DialFails ==
    /\ at = "dial"
    /\ at' = "over"
    /\ outcome' = "lost"
    /\ UNCHANGED <<current, wanted, reconnect, granted, stopRetry, cancelled, result, drained,
                   streamVars, readerVars, serverVars>>

\* The answer: the name is remembered and the multiplexer takes over.
ReadAck ==
    /\ at = "hello"
    /\ link[current] = "up"
    /\ ack[current].code = "ok"
    /\ granted' = ack[current].name
    /\ joined' = [joined EXCEPT ![current] = "open"]
    /\ at' = "serve"
    /\ UNCHANGED <<current, wanted, reconnect, stopRetry, cancelled, outcome, result, drained,
                   link, session, stream, events, closer, emitter, wire, inbox,
                   readerVars, serverVars>>

\* A refusal ends the attempt, and the connection with it.
ReadRefusal ==
    /\ at = "hello"
    /\ link[current] = "up"
    /\ ack[current].code \in {"taken", "denied"}
    /\ outcome' = "refused"
    /\ LeaveSession(current)
    /\ at' = "over"
    /\ UNCHANGED <<current, wanted, reconnect, granted, stopRetry, cancelled, result, drained,
                   link, session, stream, events, closer, emitter, inbox,
                   readerVars, serverVars>>

\* No answer within the deadline, or the connection broke.
AckFails ==
    /\ at = "hello"
    /\ outcome' = "lost"
    /\ LeaveSession(current)
    /\ at' = "over"
    /\ UNCHANGED <<current, wanted, reconnect, granted, stopRetry, cancelled, result, drained,
                   link, session, stream, events, closer, emitter, inbox,
                   readerVars, serverVars>>

\* Mutant of Interrupt: cancellation waits for the session to end by itself.
InterruptIgnored == FALSE /\ UNCHANGED vars

\* The goroutine that closes the session under a blocking Accept.
Interrupt ==
    /\ at = "serve"
    /\ cancelled
    /\ joined[current] = "open"
    /\ LeaveSession(current)
    /\ UNCHANGED <<link, session, stream, events, closer, emitter, inbox,
                   runVars, readerVars, serverVars>>

\* session.Accept: the event stream is handed to a goroutine of its own.
AcceptStream ==
    /\ at = "serve"
    /\ joined[current] = "open"
    /\ reader[current] = "none"
    /\ inbox[current] # <<>>
    /\ reader' = [reader EXCEPT ![current] = "tag"]
    /\ UNCHANGED <<streamVars, runVars, frame, seen, serverVars>>

AcceptFails ==
    /\ at = "serve"
    /\ joined[current] = "closed"
    /\ outcome' = IF cancelled THEN "nil" ELSE "lost"
    /\ at' = "drain"
    /\ UNCHANGED <<current, wanted, reconnect, granted, stopRetry, cancelled, result, drained,
                   streamVars, readerVars, serverVars>>

ReaderDone(c) == reader[c] \in {"finished", "cutoff", "garbled"}

\* Mutant of Drain: it does not wait for the reader.
DrainAtOnce ==
    /\ at = "drain"
    /\ drained' = "heard"
    /\ at' = "close"
    /\ UNCHANGED <<current, wanted, reconnect, granted, stopRetry, cancelled, outcome, result,
                   streamVars, readerVars, serverVars>>

\* eventTracker.drain: at once when no reader has begun, else when it is done
\* or 250 ms have passed.
Drain ==
    /\ at = "drain"
    /\ drained' \in (IF seen[current]
                     THEN {"timeout"} \cup {h \in {"heard"} : ReaderDone(current)}
                     ELSE {"unseen"})
    /\ at' = "close"
    /\ UNCHANGED <<current, wanted, reconnect, granted, stopRetry, cancelled, outcome, result,
                   streamVars, readerVars, serverVars>>

\* The deferred closes: the session and its connection.
Hangup ==
    /\ at = "close"
    /\ LeaveSession(current)
    /\ at' = "over"
    /\ UNCHANGED <<current, wanted, reconnect, granted, stopRetry, cancelled, outcome, result, drained,
                   link, session, stream, events, closer, emitter, inbox,
                   readerVars, serverVars>>

\* Run, after session returned: cancelled, refused, told to stop, or not to
\* retry, in this order.
Return(why) ==
    /\ at = "over"
    /\ result' = why
    /\ at' = "returned"
    /\ UNCHANGED <<current, wanted, reconnect, granted, stopRetry, cancelled, outcome, drained,
                   streamVars, readerVars, serverVars>>

ReturnCancelled == cancelled /\ Return("cancelled")
ReturnRefused == ~cancelled /\ outcome = "refused" /\ Return("refused")
ReturnTold == ~cancelled /\ outcome # "refused" /\ stopRetry /\ Return("told")
ReturnLost ==
    ~cancelled /\ outcome # "refused" /\ ~stopRetry /\ ~reconnect /\ Return("lost")

GoesOn ==
    /\ at = "over"
    /\ ~cancelled /\ outcome # "refused" /\ ~stopRetry /\ reconnect
    /\ at' = "notify"
    /\ UNCHANGED <<current, wanted, reconnect, granted, stopRetry, cancelled, outcome, result, drained,
                   streamVars, readerVars, serverVars>>

\* OnDisconnect, then the wait.
Notify ==
    /\ at = "notify"
    /\ at' = "wait"
    /\ UNCHANGED <<current, wanted, reconnect, granted, stopRetry, cancelled, outcome, result, drained,
                   streamVars, readerVars, serverVars>>

WaitInterrupted ==
    /\ at = "wait"
    /\ cancelled
    /\ result' = "cancelled"
    /\ at' = "returned"
    /\ UNCHANGED <<current, wanted, reconnect, granted, stopRetry, cancelled, outcome, drained,
                   streamVars, readerVars, serverVars>>

WaitElapsed ==
    /\ at = "wait"
    /\ at' = "dial"
    /\ drained' = "none"
    /\ UNCHANGED <<current, wanted, reconnect, granted, stopRetry, cancelled, outcome, result,
                   streamVars, readerVars, serverVars>>

\* The caller of Run gives up on it: Ctrl-C, or Stop of the tray.
Cancel ==
    /\ "cancel" \in World
    /\ ~cancelled
    /\ at # "returned"
    /\ cancelled' = TRUE
    /\ UNCHANGED <<at, current, wanted, reconnect, granted, stopRetry, outcome, result, drained,
                   streamVars, readerVars, serverVars>>

RunStep ==
    \/ Dial \/ DialFails
    \/ ReadAck \/ ReadRefusal \/ AckFails
    \/ Interrupt \/ AcceptStream \/ AcceptFails
    \/ Drain \/ Hangup
    \/ ReturnCancelled \/ ReturnRefused \/ ReturnTold \/ ReturnLost
    \/ GoesOn \/ Notify \/ WaitInterrupted \/ WaitElapsed

-----------------------------------------------------------------------------
(* handleStream and readEvents.                                            *)

Consume(c) == inbox' = [inbox EXCEPT ![c] = Tail(@)]

ReaderUnchanged ==
    UNCHANGED <<link, session, joined, stream, events, closer, emitter, wire,
                at, current, wanted, reconnect, granted, cancelled, outcome, result, drained, serverVars>>

\* The kind byte, and events.begin.
ReadTag(c) ==
    /\ reader[c] = "tag"
    /\ inbox[c] # <<>>
    /\ Consume(c)
    /\ seen' = [seen EXCEPT ![c] = TRUE]
    /\ reader' = [reader EXCEPT ![c] = "head"]
    /\ UNCHANGED <<frame, stopRetry>>
    /\ ReaderUnchanged

\* The length of the next frame, or the end of the stream.
ReadHead(c) ==
    /\ reader[c] = "head"
    /\ inbox[c] # <<>>
    /\ Consume(c)
    /\ IF Head(inbox[c])[1] = "fin"
       THEN /\ reader' = [reader EXCEPT ![c] = "finished"]
            /\ UNCHANGED frame
       ELSE /\ frame' = [frame EXCEPT ![c] = Head(inbox[c])[2]]
            /\ reader' = [reader EXCEPT ![c] = "body"]
    /\ UNCHANGED <<seen, stopRetry>>
    /\ ReaderUnchanged

\* Mutant of ReadBody: every close event is taken as final.
ReadBodyAnyClose(c) ==
    /\ reader[c] = "body"
    /\ inbox[c] # <<>>
    /\ Head(inbox[c]) = <<"body", frame[c]>>
    /\ Consume(c)
    /\ stopRetry' = (stopRetry \/ frame[c] = Closer)
    /\ reader' = [reader EXCEPT ![c] = "report"]
    /\ UNCHANGED <<frame, seen>>
    /\ ReaderUnchanged

\* The payload.  A final close event sets stopRetry before it is reported.
ReadBody(c) ==
    /\ reader[c] = "body"
    /\ inbox[c] # <<>>
    /\ Head(inbox[c]) = <<"body", frame[c]>>
    /\ Consume(c)
    /\ stopRetry' = (stopRetry \/ (frame[c] = Closer /\ closer[c].final))
    /\ reader' = [reader EXCEPT ![c] = "report"]
    /\ UNCHANGED <<frame, seen>>
    /\ ReaderUnchanged

\* Anything else where the payload should be does not parse: the reader
\* closes the stream and is done.
ReadGarbage(c) ==
    /\ reader[c] = "body"
    /\ inbox[c] # <<>>
    /\ Head(inbox[c]) # <<"body", frame[c]>>
    /\ Consume(c)
    /\ reader' = [reader EXCEPT ![c] = "garbled"]
    /\ frame' = [frame EXCEPT ![c] = NoWriter]
    /\ UNCHANGED <<seen, stopRetry>>
    /\ ReaderUnchanged

\* Handler.OnEvent returns.
Report(c) ==
    /\ reader[c] = "report"
    /\ reader' = [reader EXCEPT ![c] = "head"]
    /\ frame' = [frame EXCEPT ![c] = NoWriter]
    /\ UNCHANGED <<seen, stopRetry, inbox>>
    /\ ReaderUnchanged

\* The session has ended and nothing it brought is left to read.
ReadEOF(c) ==
    /\ reader[c] \in {"tag", "head", "body"}
    /\ inbox[c] = <<>>
    /\ joined[c] = "closed"
    /\ reader' = [reader EXCEPT ![c] = "cutoff"]
    /\ frame' = [frame EXCEPT ![c] = NoWriter]
    /\ UNCHANGED <<seen, stopRetry, inbox>>
    /\ ReaderUnchanged

\* A stream its reader closed is reset by yamux after a while.
ResetStream(c) ==
    /\ reader[c] = "garbled"
    /\ stream[c] = "open"
    /\ link[c] = "up"
    /\ stream' = [stream EXCEPT ![c] = "reset"]
    /\ UNCHANGED <<link, session, joined, events, closer, emitter, wire, inbox,
                   runVars, readerVars, serverVars>>

Reads(c) == ReadTag(c) \/ ReadHead(c) \/ ReadBody(c) \/ ReadGarbage(c) \/ ReadEOF(c)

-----------------------------------------------------------------------------
(* The server.                                                             *)

\* authorize: the name the Hello asks for, or any free one.
Grant(c) ==
    /\ handler[c] = "hello"
    /\ \E n \in Names :
          /\ asked[c] \in {n, NoName}
          /\ Lease!Acquire(c, n)
          /\ ack' = [ack EXCEPT ![c] = [code |-> "none", name |-> n]]
    /\ handler' = [handler EXCEPT ![c] = "ack"]
    /\ UNCHANGED <<asked, streamVars, runVars, readerVars>>

RefuseTaken(c) ==
    /\ handler[c] = "hello"
    /\ asked[c] # NoName
    /\ holder[asked[c]] # Nobody
    /\ Lease!Refuse(c)
    /\ ack' = [ack EXCEPT ![c].code = "taken"]
    /\ handler' = [handler EXCEPT ![c] = "done"]
    /\ UNCHANGED <<asked, streamVars, runVars, readerVars>>

\* A bad token, a reserved name, a limit, an empty draw.
RefuseOther(c) ==
    /\ "denial" \in World
    /\ handler[c] = "hello"
    /\ Lease!Refuse(c)
    /\ ack' = [ack EXCEPT ![c].code = "denied"]
    /\ handler' = [handler EXCEPT ![c] = "done"]
    /\ UNCHANGED <<asked, streamVars, runVars, readerVars>>

\* The Hello never arrives.
HelloLost(c) ==
    /\ handler[c] = "hello"
    /\ link[c] = "cut" \/ joined[c] = "closed"
    /\ Lease!Refuse(c)
    /\ handler' = [handler EXCEPT ![c] = "done"]
    /\ UNCHANGED <<asked, ack, streamVars, runVars, readerVars>>

SendAck(c) ==
    /\ handler[c] = "ack"
    /\ ack' = [ack EXCEPT ![c].code = "ok"]
    /\ handler' = [handler EXCEPT ![c] = "open"]
    /\ UNCHANGED <<asked, holder, life, streamVars, runVars, readerVars>>

\* The ack or the multiplexer fails: releaseTunnel.
HandshakeFails(c) ==
    /\ handler[c] \in {"ack", "open"}
    /\ link[c] = "cut" \/ joined[c] = "closed"
    /\ handler' = [handler EXCEPT ![c] = "release"]
    /\ UNCHANGED <<asked, ack, holder, life, streamVars, runVars, readerVars>>

Serve(c) ==
    /\ handler[c] = "open"
    /\ OpenSession(c)
    /\ handler' = [handler EXCEPT ![c] = "serve"]
    /\ UNCHANGED <<asked, ack, holder, life, runVars, readerVars>>

SessionOver(c) ==
    /\ handler[c] = "serve"
    /\ session[c] = "closed"
    /\ handler' = [handler EXCEPT ![c] = "release"]
    /\ UNCHANGED <<asked, ack, holder, life, streamVars, runVars, readerVars>>

GivesBack(c) ==
    \/ \E n \in Names : Lease!GiveUp(c, n)
    \/ /\ \A n \in Names : holder[n] # c
       /\ UNCHANGED <<holder, life>>

\* releaseTunnel: registry.remove, then Close without a reason, which does
\* nothing if somebody closed the tunnel before.
Release(c) ==
    /\ handler[c] = "release"
    /\ GivesBack(c)
    /\ handler' = [handler EXCEPT ![c] = "close"]
    /\ UNCHANGED <<asked, ack, streamVars, runVars, readerVars>>

ReleaseCloses(c) ==
    /\ handler[c] = "close"
    /\ IF closer[c].at = "idle" THEN CloseBegin(c, FALSE, FALSE) ELSE UNCHANGED streamVars
    /\ handler' = [handler EXCEPT ![c] = "done"]
    /\ UNCHANGED <<asked, ack, holder, life, runVars, readerVars>>

\* An operator kills the tunnel or its token: removed first, then closed.
\* byID and list see it only once it was routable.
OperatorCloses(c) ==
    /\ "operator" \in World
    /\ session[c] # "none"
    /\ \E n \in Names : Lease!GiveUp(c, n)
    /\ CloseBegin(c, TRUE, TRUE)
    /\ UNCHANGED <<handler, asked, ack, runVars, readerVars>>

\* registry.closeAll: agents should come back once the server is.  Tunnels
\* it meets in their handshake are left out.
ShutdownCloses(c) ==
    /\ "shutdown" \in World
    /\ session[c] # "none"
    /\ \E n \in Names : holder[n] = c
    /\ CloseBegin(c, TRUE, FALSE)
    /\ UNCHANGED <<serverVars, runVars, readerVars>>

Handles(c) ==
    \/ Grant(c) \/ RefuseTaken(c) \/ RefuseOther(c) \/ HelloLost(c)
    \/ SendAck(c) \/ HandshakeFails(c) \/ Serve(c)
    \/ SessionOver(c) \/ Release(c) \/ ReleaseCloses(c)

OthersUnchanged == UNCHANGED <<runVars, readerVars, serverVars>>

Closes(c) ==
    /\ CloseHead(c) \/ CloseBody(c) \/ CloseFails(c) \/ CloseStream(c) \/ CloseSession(c)
    /\ OthersUnchanged

Emits(e) ==
    /\ EmitHead(e) \/ EmitBody(e) \/ EmitFails(e)
    /\ OthersUnchanged

\* A request ends at the edge while its tunnel is served.
EdgeEmits(e, c) ==
    /\ handler[c] \in {"serve", "release"}
    /\ EmitStart(e, c)
    /\ OthersUnchanged

Carries(c) == (Deliver(c) \/ AgentSeesEnd(c) \/ ServerSeesEnd(c)) /\ OthersUnchanged

Breaks(c) == Cut(c) /\ OthersUnchanged

Next ==
    \/ RunStep
    \/ Cancel
    \/ \E c \in Conns :
          \/ Reads(c) \/ Report(c) \/ ResetStream(c)
          \/ Handles(c) \/ Closes(c) \/ OperatorCloses(c) \/ ShutdownCloses(c)
          \/ Carries(c) \/ Breaks(c)
    \/ \E e \in Emitters : Emits(e) \/ \E c \in Conns : EdgeEmits(e, c)

Spec == Init /\ [][Next]_vars

\* The goroutines of both processes run, both ends of a session learn of its
\* end, yamux delivers, and what the agent does with an event returns.
\* Nothing obliges requests, operators, the network or the user.
FairSpec ==
    /\ Spec
    /\ WF_vars(RunStep)
    /\ \A c \in Conns :
          /\ WF_vars(Reads(c)) /\ WF_vars(Report(c)) /\ WF_vars(ResetStream(c))
          /\ WF_vars(Handles(c)) /\ WF_vars(Closes(c)) /\ WF_vars(Carries(c))
    /\ \A e \in Emitters : WF_vars(Emits(e))

-----------------------------------------------------------------------------
(* Properties.                                                             *)

\* Run ends as "told to stop" only if an operator closed one of the agent's
\* tunnels: a server that shuts down, a broken link or a garbled stream never
\* keep an agent from coming back.
ToldOnlyByOperator ==
    result = "told" => \E c \in Conns : closer[c].final

\* When the reader of the event stream came to the end of an operator's close
\* in the time drain allows, Run does not go on to another attempt.
CleanCloseIsHeeded ==
    ~ /\ at \in {"notify", "wait"}
      /\ drained = "heard"
      /\ reader[current] = "finished"
      /\ closer[current].final

\* A name once granted is the agent's name in every later session, whether it
\* had asked for one or not.
KeepsItsName == [][granted # NoName => granted' = granted]_vars

\* An agent whose context is cancelled ends from wherever it is, a blocking
\* Accept included, and however Run ended, no name stays leased behind it.
EndsAndGivesBack ==
    cancelled \/ at = "returned" ~>
        at = "returned" /\ \A n \in Names : holder[n] = Nobody

\* emit comes back, also when the agent has given up on a stream it could not
\* parse.  registry.go:121 promises it of a wedged agent too; of one that
\* stops taking events it does not hold, since the write has no deadline.
EmitReturns ==
    \A e \in Emitters : emitter[e].at \in {"head", "body"} ~> emitter[e].at = "done"

\* A tunnel that is being closed loses its session, though Close writes the
\* close event first, behind what others write to the stream.  This leans on an
\* agent that takes its events (WF of Report): a deaf one keeps Close waiting.
CloseDropsSession ==
    \A c \in Conns : closer[c].at # "idle" ~> session[c] = "closed"

-----------------------------------------------------------------------------
(* What the code's documents say, and the code does not do.                *)

\* proto.go:118: "WriteMsg writes v as a length-prefixed JSON frame."  What
\* is on the stream is a sequence of such frames.
FramesStayWhole == \A c \in Conns : reader[c] # "garbled"
=============================================================================
