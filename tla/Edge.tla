-------------------------------- MODULE Edge --------------------------------
(***************************************************************************)
(* internal/server/http.go and acceptTCP, pipeTCP and splice of tcp.go:    *)
(* the public side of the server, over the tunnels of Server.              *)
(*                                                                         *)
(* A visit is one HTTP request, or one TCP connection to a tunnel's port.  *)
(* Its goroutine finds a tunnel under the registry's lock and keeps the    *)
(* pointer, while handlers and management requests close the tunnel, free  *)
(* its name and lease it to another agent.  A visit changes nothing of     *)
(* theirs but the counters of its tunnel, which are left out with the      *)
(* events it emits (EventStream has those).                                *)
(*                                                                         *)
(* Nothing has a deadline once the header is read: a write blocks for as   *)
(* long as nobody takes what is written, be it the visitor or the agent.   *)
(*                                                                         *)
(* yamux and net/http are not under src: of a stream, what openStream and  *)
(* splice may see of it; of httputil.ReverseProxy, when it answers by its  *)
(* ErrorHandler and when it aborts.                                        *)
(***************************************************************************)
EXTENDS Server

CONSTANTS
    Visits,
    Asks,       \* what visitors ask: [via, host, port, secret]
    NoAsk,
    NoSecret,   \* no Basic credentials, asked for or given
    Guard       \* [Conns -> credentials or NoSecret]: Hello.BasicAuth of each agent

\* Host headers: a label under the domain; the API host or the domain itself;
\* anything else.
ASSUME EdgeAssumption ==
    /\ Asks \subseteq [via : {"http", "tcp"}, host : Subs \cup {"api", "other"},
                       port : Nat, secret : STRING \cup {NoSecret}]
    /\ {"api", "other"} \cap Subs = {}

VARIABLE visit   \* [Visits -> VisitRecord]

edgeVars == <<vars, visit>>

VisitPC == {"idle", "load", "wait", "auth", "forward", "answering", "streaming",
            "open", "spliced", "record", "done"}

NoVisit == [pc |-> "idle", ask |-> NoAsk, tun |-> NoConn, reached |-> NoConn,
            status |-> "none", over |-> {}, client |-> "here", stalled |-> {}]

Tun(v) == visit[v].tun
At(v, where) == visit[v].pc = where
Becomes(v, x) == visit' = [visit EXCEPT ![v] = x]
To(v, where) == Becomes(v, [visit[v] EXCEPT !.pc = where])
Ends(v, status) == Becomes(v, [visit[v] EXCEPT !.pc = "done", !.status = status])
\* ServeHTTP has returned: proxyHTTP goes on to record the request.
Returns(v, status) == Becomes(v, [visit[v] EXCEPT !.pc = "record", !.status = status])

-----------------------------------------------------------------------------
(* newFrontend.                                                            *)

\* registry.claimed: the tunnel with this name, routable yet or not.
Claimed(s) == bySub[s]

\* The host decides: the API, nobody, or the tunnel that has claimed the label.
Arrive(v) ==
    /\ At(v, "idle")
    /\ \E a \in Asks :
          LET ended(status) == Becomes(v, [visit[v] EXCEPT !.ask = a, !.pc = "done", !.status = status])
          IN  /\ a.via = "http"
              /\ \/ a.host = "api" /\ ended("api")
                 \/ a.host = "other" /\ ended("unknown host")
                 \/ a.host \in Subs /\ Claimed(a.host) = NoConn /\ ended("no tunnel")
                 \/ /\ a.host \in Subs /\ Claimed(a.host) # NoConn
                    /\ Becomes(v, [visit[v] EXCEPT !.ask = a, !.pc = "load", !.tun = Claimed(a.host)])

\* Tunnel.waitReady: the flag, and then whichever comes first.
Load(v) == At(v, "load") /\ To(v, IF ready[Tun(v)] THEN "auth" ELSE "wait")

WaitReady(v) == At(v, "wait") /\ ready[Tun(v)] /\ To(v, "auth")

\* Mutant: nobody tells the waiters of a tunnel that is torn down.
WaitClosed_Unheard(v) == At(v, "wait") /\ closed[Tun(v)] /\ ready[Tun(v)] /\ Ends(v, "not ready")

WaitClosed(v) == At(v, "wait") /\ closed[Tun(v)] /\ Ends(v, "not ready")

\* The three seconds are over, or the visitor is gone.
WaitGivesUp(v) == At(v, "wait") /\ Ends(v, "not ready")

-----------------------------------------------------------------------------
(* proxyHTTP, checkBasicAuth and buildProxy.                               *)

Admitted(c, a) == Guard[c] \in {NoSecret, a.secret}

CheckBasicAuth(v) ==
    /\ At(v, "auth")
    /\ IF Admitted(Tun(v), visit[v].ask) THEN To(v, "forward") ELSE Ends(v, "unauthorized")

\* openStream: a flag, a pointer, and yamux.
CanOpen(c) == ready[c] /\ session[c] = "open"

\* Mutant: the request goes to whoever has the name by now.
ForwardToHolder(v) ==
    LET c == bySub[visit[v].ask.host]
    IN  /\ At(v, "forward")
        /\ IF c # NoConn /\ CanOpen(c)
           THEN Becomes(v, [visit[v] EXCEPT !.pc = "answering", !.reached = c, !.tun = c])
           ELSE Returns(v, "unreachable")

\* tun.proxy.ServeHTTP.  A TCP tunnel has no proxy: the handler panics, and
\* net/http drops the connection.  Otherwise the transport opens a stream, or
\* uses an idle one of the same session; if it cannot, the ErrorHandler answers.
Forward(v) ==
    LET c == Tun(v)
    IN  /\ At(v, "forward")
        /\ \/ hello[c].type = "tcp" /\ Ends(v, "panic")
           \/ /\ hello[c].type = "http" /\ CanOpen(c)
              /\ Becomes(v, [visit[v] EXCEPT !.pc = "answering", !.reached = c])
           \/ hello[c].type = "http" /\ ~CanOpen(c) /\ Returns(v, "unreachable")

Forwarded(v) == At(v, "answering") \/ At(v, "streaming")
Spliced(v) == At(v, "spliced")

\* The visitor takes no more of what it is sent (or keeps back the body it is
\* sending): the handler, or io.Copy(public, stream), stands in its write ...
VisitorStalls(v) ==
    /\ Forwarded(v) \/ (Spliced(v) /\ "down" \notin visit[v].over)
    /\ visit[v].client = "here"
    /\ Becomes(v, [visit[v] EXCEPT !.stalled = @ \cup {"down"}])

\* ... or the agent takes no more, and the stream's window is full.
AgentStalls(v) ==
    /\ Spliced(v) /\ "up" \notin visit[v].over
    /\ session[Tun(v)] = "open"
    /\ Becomes(v, [visit[v] EXCEPT !.stalled = @ \cup {"up"}])

\* Whoever it was reads on.
Drains(v) ==
    /\ Forwarded(v) \/ Spliced(v)
    /\ \E way \in visit[v].stalled : Becomes(v, [visit[v] EXCEPT !.stalled = @ \ {way}])

\* A write fails at last when the other end is gone.
Blocked(v, way) ==
    /\ way \in visit[v].stalled
    /\ way = "down" => visit[v].client = "here"
    /\ way = "up" => session[Tun(v)] = "open"

WriteFails(v, way) == way \in visit[v].stalled /\ ~Blocked(v, way)

ClientLeaves(v) ==
    /\ Forwarded(v) \/ Spliced(v)
    /\ visit[v].client = "here"
    /\ Becomes(v, [visit[v] EXCEPT !.client = "gone"])

\* The agent's service sends a header; it may go on for long (an event stream,
\* an upgraded connection) or end at once.
Headers(v) == At(v, "answering") /\ session[Tun(v)] = "open" /\ To(v, "streaming")
Finish(v) == At(v, "streaming") /\ ~Blocked(v, "down") /\ Returns(v, "served")

\* The stream ends early: the ErrorHandler can still answer before the header,
\* after it ReverseProxy aborts the handler and nothing is recorded.  "Breaks"
\* is for a session that is gone, or a write to the visitor that fails;
\* "GivesUp" for the visitor and the service that go for reasons of their own.
EndEarly(v) ==
    \/ At(v, "answering") /\ Returns(v, "unreachable")
    \/ At(v, "streaming") /\ Ends(v, "aborted")

\* Mutant: a request nobody has answered yet is not told that its agent is gone.
Breaks_OnlyStreaming(v) ==
    /\ At(v, "streaming") /\ ~Blocked(v, "down")
    /\ session[Tun(v)] = "closed" \/ WriteFails(v, "down")
    /\ EndEarly(v)

Breaks(v) ==
    /\ Forwarded(v) /\ ~Blocked(v, "down")
    /\ session[Tun(v)] = "closed" \/ WriteFails(v, "down")
    /\ EndEarly(v)

GivesUp(v) == Forwarded(v) /\ session[Tun(v)] = "open" /\ ~Blocked(v, "down") /\ EndEarly(v)

\* recordRequest and emit.
Record(v) == At(v, "record") /\ To(v, "done")

-----------------------------------------------------------------------------
(* acceptTCP, pipeTCP and splice.                                          *)

\* The accept loop runs once StartAccept has let it, until its listener goes.
Accept(v) ==
    /\ At(v, "idle")
    /\ \E a \in Asks, c \in Conns :
          /\ a.via = "tcp" /\ a.port \in Ports /\ bound[a.port] = c
          /\ pc[c] \in {"serve"} \cup Releasing
          /\ Becomes(v, [visit[v] EXCEPT !.ask = a, !.tun = c, !.pc = "open"])

PipeOpen(v) ==
    /\ At(v, "open")
    /\ IF CanOpen(Tun(v)) THEN Becomes(v, [visit[v] EXCEPT !.pc = "spliced", !.reached = Tun(v)])
                          ELSE Ends(v, "dropped")

Over(v, way) ==
    /\ way \notin visit[v].over /\ ~Blocked(v, way)
    /\ Becomes(v, [visit[v] EXCEPT !.over = @ \cup {way}])

\* io.Copy(stream, public) comes to its EOF and closes the stream, or the write
\* it stands in fails...
UpEnds(v) == Spliced(v) /\ (visit[v].client = "gone" \/ WriteFails(v, "up")) /\ Over(v, "up")

\* ... or finds a dead stream, if the visitor sends something.
UpFails(v) == Spliced(v) /\ session[Tun(v)] = "closed" /\ Over(v, "up")

\* Mutant: a direction that ends leaves the other side open.
DownEnds_NotHalfClosed(v) ==
    /\ Spliced(v)
    /\ session[Tun(v)] = "closed" \/ WriteFails(v, "down")
    /\ Over(v, "down")

\* io.Copy(public, stream) comes to its end, and CloseWrite tells the visitor:
\* the session is gone, or the stream was closed here and the other side closed
\* it too (yamux sees to it after five minutes), or the write it stands in fails...
DownEnds(v) ==
    /\ Spliced(v)
    /\ session[Tun(v)] = "closed" \/ "up" \in visit[v].over \/ WriteFails(v, "down")
    /\ Over(v, "down")

\* ... or the agent's service ends it, or another write to the visitor fails.
DownFails(v) == Spliced(v) /\ Over(v, "down")

\* Both are over: recordConn, emit, and the deferred closes.
PipeDone(v) == Spliced(v) /\ visit[v].over = {"up", "down"} /\ Ends(v, "spliced")

-----------------------------------------------------------------------------
\* What the server's goroutine does of its own accord, and what it waits for.
VisitRuns(v) ==
    \/ Load(v) \/ WaitReady(v) \/ WaitClosed(v) \/ CheckBasicAuth(v) \/ Forward(v)
    \/ Breaks(v) \/ Record(v)
    \/ PipeOpen(v) \/ UpEnds(v) \/ DownEnds(v) \/ PipeDone(v)

VisitStep(v) ==
    \/ Arrive(v) \/ Accept(v) \/ WaitGivesUp(v)
    \/ Headers(v) \/ Finish(v) \/ GivesUp(v)
    \/ VisitorStalls(v) \/ AgentStalls(v) \/ Drains(v)
    \/ ClientLeaves(v) \/ UpFails(v) \/ DownFails(v)
    \/ VisitRuns(v)

\* A restart ends every visit.
EdgeNext ==
    \/ \E v \in Visits : VisitStep(v) /\ UNCHANGED vars
    \/ \E c \in Conns : ConnStep(c) /\ UNCHANGED <<apiVars, restarts, visit>>
    \/ \E k \in Requests : RequestStep(k) /\ UNCHANGED <<controlVars, restarts, visit>>
    \/ /\ Restart
       /\ visit' = [v \in Visits |-> IF At(v, "idle") THEN visit[v]
                                     ELSE [visit[v] EXCEPT !.pc = "done", !.status = "cut"]]

EdgeInit == Init /\ visit = [v \in Visits |-> NoVisit]

EdgeSpec == EdgeInit /\ [][EdgeNext]_edgeVars

\* No timer, visitor or agent is obliged to anything: neither to leave nor to
\* read on.
EdgeFairness ==
    /\ \A v \in Visits : WF_edgeVars(VisitRuns(v) /\ UNCHANGED vars)
    /\ \A c \in Conns : WF_edgeVars(HandlerStep(c) /\ UNCHANGED <<apiVars, restarts, visit>>)
    /\ \A k \in Requests : WF_edgeVars(HandleStep(k) /\ UNCHANGED <<controlVars, restarts, visit>>)

EdgeFairSpec == EdgeSpec /\ EdgeFairness

-----------------------------------------------------------------------------
(* Properties.                                                             *)

Statuses == {"none", "api", "unknown host", "no tunnel", "not ready", "unauthorized", "panic",
             "unreachable", "served", "aborted", "dropped", "spliced", "cut"}

VisitRecord == [pc : VisitPC, ask : Asks \cup {NoAsk}, tun : Conns \cup {NoConn},
                reached : Conns \cup {NoConn}, status : Statuses,
                over : SUBSET {"up", "down"}, client : {"here", "gone"},
                stalled : SUBSET {"up", "down"}]

\* The type of every visit; one that is under way has a tunnel.
EdgeTypeOK ==
    /\ visit \in [Visits -> VisitRecord]
    /\ \A v \in Visits : visit[v].pc \in {"idle", "done"} \/ Tun(v) # NoConn

\* An agent only ever gets visits to the name and the port it was leased, and
\* past its own Basic credentials: not those let in by a tunnel that held the
\* name before, or that left while the visit waited or was checked.
ReachesItsTunnel ==
    \A v \in Visits : visit[v].reached # NoConn =>
        LET c == visit[v].reached
            a == visit[v].ask
        IN  /\ a.via = "http" => name[c] = a.host /\ Admitted(c, a)
            /\ a.via = "tcp" => port[c] = a.port

\* A request that waits for a tunnel in its handshake is let in or turned away
\* by what becomes of the tunnel, were it not for the timer: markReady and Close
\* both reach it, however the handshake goes.
WaitersAreReleased == \A v \in Visits : At(v, "wait") ~> ~At(v, "wait")

\* A tunnel that is closed takes its visits with it, wherever they are: those
\* that wait for it, were let in, are about to open a stream, wait for an
\* answer, stream or are spliced.  What may stay is a visitor that does not
\* read what the server still has for it, and one who holds a TCP connection
\* that the server has ended (CloseWrite) and sends nothing: no deadline ends
\* either.
UnderWay(v) == visit[v].pc \notin {"idle", "done"}
VisitorStays(v) ==
    /\ visit[v].client = "here"
    /\ "down" \in visit[v].stalled \/ (Spliced(v) /\ "down" \in visit[v].over)

VisitsEndWithTunnel ==
    \A v \in Visits : UnderWay(v) /\ closed[Tun(v)] ~> At(v, "done") \/ VisitorStays(v)

\* A visitor who hangs up ends the splice in both directions, whatever the
\* server had for it; unless the agent does not read what the visitor had sent.
SpliceEnds ==
    \A v \in Visits :
        Spliced(v) /\ visit[v].client = "gone" ~> At(v, "done") \/ Blocked(v, "up")

\* buildProxy runs "before the tunnel is registered, so the edge can never find
\* a tunnel whose proxy is still nil".
EdgeFindsAProxy == \A v \in Visits : visit[v].status # "panic"
=============================================================================
