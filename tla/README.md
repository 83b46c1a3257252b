# zerock: TLA+ models, checks and proofs

zerock is a self-hosted tunnel service. Agents (`internal/client`) dial a server
(`internal/server`), authenticate with a token, and are given a name under the
server's domain; the server forwards public HTTP and TCP traffic to them over a
multiplexed session. Tokens and name reservations live in a bbolt file
(`internal/store`) and are managed over an HTTP API. A tray widget
(`internal/tray`) runs several agents. `zerock service` (`internal/cli`) installs
all this on a machine with systemd, and `zerock doctor` says what is wrong with it.

This directory models the parts of that system whose correctness depends on
order: what concurrent handlers, requests, visitors, restarts and broken links do
to the registry of live tunnels, to the store, and to the names they share; what
commands and the widget do to the one configuration file; and what a command
that is cut, or run again, does to a machine.

## 1. Inventory

| Part | Source | State it keeps | Operations | Talks to | What is hard | What makes it correct |
|---|---|---|---|---|---|---|
| Store | `store/store.go`, `token.go` | tokens, reservations (bbolt) | create, authenticate, touch, revoke, delete, reserve, release | called by control, API, bootstrap | two-transaction read-modify-write (touch, revoke); check in one transaction, write in another (release) | a revoked token stays out; caps hold; reservations have an owner and are given up only by it |
| Registry | `server/registry.go` | `bySub`, `byPort`, `byToken`; per tunnel: ready, closed, session, events | add, remove, lookup, claimed, byID, list, countForToken, markReady, Close | called by control, API, edge | two goroutines close and remove the same tunnel; half-open tunnels | one tunnel per name, no stale or orphaned entry, indexes agree |
| Control plane | `server/control.go` | one goroutine per connection | Hello, authorize, resolve name, ack, session, release | store, registry, TCP ports | check-then-act between store, registry and kernel; failure at any step | every claim is given back, no handshake hangs |
| TCP tunnels | `server/tcp.go` | listening sockets, spliced connections | bindTCP, acceptTCP, pipeTCP, splice | registry, agents | bind before add, close after remove; two copies that end each other | a socket per live TCP tunnel and no other; neither side of a splice is left hanging |
| Management API | `server/api.go` | one goroutine per request | authed, tokens, tunnels, reservations | store, registry | authorisation decided on state that changes before the effect | the effect is the one that was authorised; drops take effect |
| Server lifecycle | `server/server.go`, `cli/serve.go` | listeners | Bootstrap, Run, shutdown | all of the above | a stop at any point loses everything but the store | the next start finds a consistent store and an admin |
| Public edge | `server/http.go` | in-flight requests | route, waitReady, basic auth, openStream, proxy | registry, agents | a tunnel that is in its handshake, closes under a request, or is replaced by another agent's | a request waits out a handshake, ends with its agent, and reaches only the tunnel it was checked for |
| Event stream | `proto/proto.go`, `registry.go` | a framed stream per tunnel | emit, Close, WriteMsg, ReadMsg | agent | frames of concurrent writers, flow control | frames stay whole; the final close event arrives |
| Agent | `client/agent.go` | granted name, stopRetry | Run, session, dial, readEvents, forward | control plane, local service | reconnect against a claim the server still holds; refusal against glitch | keeps its name; stops when told to, retries otherwise |
| Tray manager | `tray/manager.go` | one run per saved tunnel | Start, Stop, Forget, StopAll, callbacks | agents, UI | bounded waits, a new run under the name of an old one | no agent runs unseen; a finished run is never shown active |
| Client config | `client/config.go`, `clientcli/auth.go` | one JSON file; a copy in each process | load, save, resolve, login, logout | CLI and tray | writers with old copies, a shared temporary file, a save cut in the middle | no save loses what it had read; the file parses; the default exists |
| Tray UI | `tray/tray.go` | the widget's config, profile, remote tunnels, menu | reload, poll, render, select, new, forget, quit | client config, tray manager, API | answers and clicks that are about an older menu or profile; maps read without the lock they are written under | the menu ends up showing the file; no click ends the widget |
| Server config | `server/config.go` | none | load, default, environment, normalise, validate | CLI, server | three sources for one value, two loaders | what `doctor` and `install` judge is what `serve` reads |
| Service | `cli/service.go`, `units.go`, `serve.go` | files under `/etc`, units | install, uninstall, tunnel | systemd, the operator, the server | a plan made before it is applied; a command cut anywhere; a shell that is not the unit's | files whole, environment files private, a config kept and readable, no start that is bound to be refused |
| Doctor, admin-token | `cli/doctor.go`, `admintoken.go` | none; a token | inspect, dial, mint | the machine | an answer that is not the server's | another process is not taken for the server |
| TLS, dashboard, flag parsing, vendored tray | see `PROJECT.json` | little | sequential | | | |

`PROJECT.json` lists every part under "components" with its status, and under
"hazards" each thing that can go wrong at its line.

## 2. Modules

```
NameLease          what the server promises about names (abstract)
Store              tokens and reservations: one operator per transaction
  Registry         tunnels, their indexes, their sockets, Tunnel.Close
    Control        one agent connection: handleControlConn, authorize, bindTCP
    Api            one management request: authed and its handlers
      Server       Control and Api over one registry and store, and Restart
        MCServer   instances for TLC
        ServerProofs -> StoreProofs, RegistryProofs
        Edge       public traffic over Server
          MCEdge   instances for TLC
          EdgeProofs (over RegistryProofs)
EventStream        emit, Close and the yamux stream they write to
  Agent            Agent.Run over EventStream and a server that keeps NameLease
    MCAgent        instances for TLC
    AgentProofs
TrayManager        the runs of the tray widget and the clicks on them
  MCTray, TrayProofs
ClientConfig       the client's config file, its writers and the widget's copy
  MCClient, ClientProofs
ServerConfig       operators: what the server makes of its YAML file
  Service          install, uninstall, tunnel, doctor, admin-token, systemd, serve
    MCService, ServiceProofs
```

**Store** keeps `token[t]` (unborn, active, revoked, deleted) and `resv[s]`.
bbolt serialises transactions, so each operator is one step; a store function
with two transactions is two steps of its caller, which carries the record it
read in between (`held`, `record`). A wrong secret and an expired token are
refusals that may happen to any connection or request.

**Registry** identifies a tunnel with its connection, since `authorize` makes
one tunnel per connection. `Add` and `Remove` run under the registry's lock and
are one step each. `Tunnel.Close` drops its lock before it touches the listener
and the session and is three steps; a second caller returns at once.

**Control** is a program counter per connection. A step is one access to state
another goroutine can see. `AddTunnel` publishes the tunnel, `MarkReady` makes
it routable, `RemoveTunnel` and `CloseTunnel` are `releaseTunnel`. Every early
return of the handler is an action: `RefuseHello`, `RefuseToken`, the refusing
branch of `CheckLimit`, `CheckReservation` and `CheckLive`, `DrawFails`,
`RefusePort`, `AddFails`, `HandshakeFails`. `AgentLeaves` ends an open session
from the agent's side at any moment.

**Api** is a program counter per request. The routes that change nothing but
`LastUsed` are the kind "read": they still run `TouchToken`, which matters. A
drop is `ListTunnels`, then `DropTunnel` (registry.remove) and the three steps
of Close for each tunnel, in any order of the list.

**Server** composes them. `Restart` stops the process between any two steps:
handlers, requests, registry, sockets and sessions are gone, the store stays,
and `Bootstrap` mints an admin if none is usable. A stop that runs `shutdown`
first leaves the same store behind. What else it does is left out: `closeAll`
closes every tunnel in `bySub`, those in their handshake too, and tells agents.
So `HandshakeUndisturbed` is about a server that is not shutting down.

**NameLease** says, without the code's means: a name is leased to one
connection at a time, goes back before it is leased again, and a lease that
ended never returns. `Server!ImplementsNameLease` maps `holder` to `bySub` and
the life of a connection to its program counter and its entry in the registry.
`Agent` takes the same module as its server.

**Edge** adds a visit: one HTTP request (`newFrontend` to `proxyHTTP`) or one TCP
connection (`acceptTCP`, `pipeTCP`, `splice`). A visit finds its tunnel under the
registry's lock (`claimed`: routable or not) and keeps the pointer. Then each
step reads what handlers and requests change meanwhile: the flag and the channel
`waitReady` looks at, the credentials of the Hello, the session `openStream`
needs. `Forward` is `tun.proxy.ServeHTTP`; of `httputil.ReverseProxy` it keeps
when it answers by its ErrorHandler and when it aborts. A splice keeps which of
its two copies is over (`over`) and whether the visitor is there. `UpFails`,
`DownFails`, `WaitGivesUp`, `GivesUp` and `Finish` are up to timers, visitors and
services and owe nobody anything. Nor does a reader: `VisitorStalls` and
`AgentStalls` are a visitor and an agent that take no more, and whoever writes to
them is `Blocked` until they read on (`Drains`) or are gone (`WriteFails`), since
the server sets no write deadline. Visits only read the server's state, which
is what `EdgeImplementsServer` proves.

**EventStream** is one yamux stream per connection, from `Tunnel.emit` and
`Tunnel.Close` to the agent's buffer. `WriteMsg` writes the length and the
payload separately, so a frame is two chunks (`head`, `body`), each with its
author; `wire` is what the server has written, `inbox` what the agent's yamux
holds. A write waits for room in the window and fails when the stream or the
session is over. `emit` reads `t.events` under the lock and writes without it;
`Close` writes the close event, ends the stream and closes the session, in this
order, each a step. The two ends of a session (`session`, `joined`) and the
network under it (`link`) fail separately, so that one end knows before the
other. yamux itself is external: it is modelled from what the code asks of it.

**Agent** has one program counter for `Run` and `session` (they are one
goroutine), one per event reader (`handleStream`, which may outlive its
session), and one for the server's handler of each connection, reduced to what
an agent can tell: it leases, answers, serves, releases. `Return...` and
`GoesOn` are the four tests of `Run` in their order; `Drain` is
`eventTracker.drain` with its three outcomes. `World` says what may come from
outside in an instance: a link that is cut, an operator, a shutdown, a refusal
for other reasons than a taken name, a cancellation of `Run`. The backoff's
length is left out.

**TrayManager** has a program counter per click (each menu item has a goroutine)
and one per run. A step is one section under `Manager.mu` or `run.mu`, one
cancel, or one wait; a wait may end with or without the run, as its time limit
says. What `Agent.Run` does inside is reduced to the callbacks it makes. Names,
runs and clicks are sets, the last two the bound on how many there ever are.

**ClientConfig** has the file (`disk`: two names for inodes, as `Save` writes
`path.tmp` and renames it) and a process per command, per click, and for the
widget's refresh loop. A process holds the copy it works on (`mem`) and the
version of the file the copy is from (`base`, a history variable). `Open`,
`Write`, `WriteFails` and `Rename` are `Save`; two processes can be in them at
once and then write one inode, which may come out `Garbled`. The widget's mutex
covers what it covers in the code: `Act` takes it and `Saved` gives it up, so a
click saves under it, while `Load` reads the file outside it and `Assign` stores
the copy later. The profile polled for is fixed in `Poll` and the answer stored
in `Store`. `render` is three steps: `Render` is what it takes under the mutex, a
pointer to the widget's own config among it; `DrawTunnels` goes through that
config's tunnels without the mutex, and `DrawProfiles` lists its profiles. A click
that writes the tunnels in between changes what is drawn (`shared`), or ends the
widget (`Torn`: the Go runtime may find the map written while it is read). A menu
item acts on what was drawn, which may be older than the config. A nil `Tunnels`
map (`nil`) is one that was never on disk: `newTunnel` writes to it, and `Panic` is
what happens. `Down` is the end of the widget, by these or by `Quit`.

**ServerConfig** has no state: `DefaultConfig`, `Unmarshal` (keys the file has
over the defaults), `ApplyEnv`, `Normalize`, `WellShaped`, `ValidForServing`, the
two loaders (`Servable` for `LoadConfig`, `Inspected` for
`LoadConfigForInspection`), and the ports a config needs. A domain is the sequence
of its labels.

**Service** is one machine. A command is a plan, a sequence of file steps fixed
when it begins (`InstallPlan`, `UninstallPlan`, `TunnelPlan`), applied a step at a
time: a write is `WriteTmp` (the temporary is there, half) and `Rename`;
`writeFileIfAbsent` looks first (`SkipStep`). Then come the calls of systemctl and
what is read from the journal. `Cut` ends a command anywhere. Meanwhile `Edit` is
the operator in another shell, and systemd starts the server
(`ServeRefuses`, `ServeBootstraps`, `ServeListens`), restarts it or gives up. What
`Run` may fail over (`RunFails`) is a port somebody holds, or a key pair that does
not load, which nothing but the machine decides.
`doctor` is four steps (`DoctorInspect`, `DoctorService`, `DoctorListeners`,
`DoctorHealth`), between which all of that may go on; a dial and a request for
`/healthz` are answered by whoever holds the port (`Listening`, `HealthAnswers`).
A file is what stands in it (`body`) and who may read it (`mode`).

## 3. Runs

Sizes are those of the cfg files; times are on two workers.

| Run | Instance | Shows |
|---|---|---|
| `StoreRaces` | 1 connection, 2 requests of 11 kinds, 3 admins (one not minted yet), reservation cap 1, 1 restart, request symmetry; 0.4 M states, 20 s | `ReservationLimitHolds`, `RevocationSticks`, `ReservationNeverStolen` |
| `Edge` | 2 connections (HTTP or TCP) that want one name, ports 1..2, 1 request that kills `c1`, 1 visit; 1.2 M states, 115 s | `ReachesItsTunnel`; under it `PortIndexAgrees`, `ListenerFollowsTunnel`; `HandshakeUndisturbed`, `NoOrphanTunnel`, `NoStaleName`, `NeverOvercounted`, and the refinement `ImplementsNameLease` |
| `EdgeFair` | fair; 1 connection (HTTP or TCP), 1 request (revoke, delete or kill), 1 visit of either kind, 1 restart; 0.1 M states, 100 s | `CleanAtRest`, `DropTakesEffect`, `EndedSessionIsReleased`, `HandshakeEnds`, `WaitersAreReleased`, `VisitsEndWithTunnel`, `SpliceEnds` |
| `AgentStream` | fair; 1 session, 2 edge requests, window of 1 chunk, an operator or a shutdown, a link that may be cut; 0.25 M states, 150 s | `TypeOK`, `ToldOnlyByOperator`, `CleanCloseIsHeeded`, `EmitReturns`, `CloseDropsSession` |
| `AgentSessions` | fair; 2 sessions, 2 names, links cut, refusals, cancellation, with and without reconnecting; 0.5 M states, 105 s | `KeepsItsName`, `EndsAndGivesBack` |
| `Tray` | fair; 1 saved tunnel, 2 runs, 3 clicks of any kind; 0.5 M states, 120 s | `UnseenOnlyByForget`, `StatusSettles`, `CancelledRunFinishes` |
| `Client` | fair; 1 command (login, logout), 1 click (forget, new, select), the refresh loop, 2 profiles, 1 tunnel, no file, a good one or a garbled one, with and without an environment; 0.9 M states, 115 s | `InterruptedSaveKeepsConfig`, `DefaultExists`, `SaveLosesNothing`, `MenuCatchesUp` |
| `Service` | 3 commands of 11 kinds, 1 edit or reboot of 9 kinds, a fresh or an old machine; a shell with no variable, a token or another domain; nobody else on the ports, another process on 443, or one on every port of the server; 3.2 M states, 110 s | `IInv` (`NeverHalfWritten`, `EnvFilesStayPrivate` and what they rest on), `RefusalIsTheShells`, `InstallRepairs`, `UpgradeKeepsConfig`, `CleanDoctorSeesNoRival` |

Four more runs each check one sentence of the code's own documentation and find
it violated (section 6).

*Why the bounds suffice.* A connection runs its handler once, so an agent that
reconnects is another connection; two of them are the holder of a name and its
successor, or two contenders, and one request that kills the first gives the two
removals of which the later may come when the name has its successor. That more
contenders and killers change nothing is what the proofs add. Two ports are the
least in which the walk over the range skips a taken port and comes to its end.
One restart separates what a state before it and a state after it can hold;
restarts do not interact with each other except through the store. Two requests
and one handler are every pair of writers of a token record or a reservation.
Visits do not see each other, so one is enough; it needs two tunnels of one name,
the first guarded and the second not, to end up at the wrong one.
A window of one chunk makes every writer wait for the reader at every write and
still lets the chunks of two frames alternate; two sessions are a loss and the
return from it. Two runs and three clicks are a run, its successor under the
same name, and a third click that stops, starts or forgets meanwhile. A command,
a click and the refresh loop are three readers and two writers of one file, which
is a save between any other's read and save. Three commands are an install cut,
one run again over what it left, and a `doctor` or an uninstall after it; one edit
separates what was judged from what is read.

*Deadlock* checking is off in every cfg: connections, requests, visits, commands,
clicks and agents of an instance end, and the system may stop there. That
nothing is left behind when it does is `CleanAtRest` and `EndsAndGivesBack`,
that everything that must end does is in the fair runs.

*Symmetry* is over requests, in `StoreRaces`: what it checks are invariants and
action properties, and none of them names a request. The connections are nowhere
symmetric, since `c1` is the one that is killed.

*Fairness.* In `EdgeFair`: `WF` on each handler that has its Hello, on each
request that was let in, and on what a visit's goroutine does of its own accord
(`VisitRuns`): the Go scheduler runs every goroutine that can run. It is not
assumed of agents, links, clients, visitors, services, timers or the operator:
`ReadHello`, `AgentLeaves`, `Authed`, `WaitGivesUp`, `Finish`, `ClientLeaves` and
`Drains` and `Restart` need never happen, so `WaitersAreReleased` does not lean on the
three-second timer, nor `SpliceEnds` on a service that hangs up, nor
`VisitsEndWithTunnel` on a visitor that reads: a write that is `Blocked` is not
enabled. What then stays is named in the properties: a visitor that does not read
what the server still has for it, one that keeps a TCP connection the server has
ended (`VisitorStays`), an agent that does not read what the visitor had sent
(`Blocked(v, "up")`). `SpliceEnds` leans on
yamux, which closes a stream whose one side was closed after five minutes
(`DownEnds`). `Record` includes an `emit`. `Control` and `Api` leave out the event `Tunnel.Close` writes to the
agent before it closes the session. These writes to the event stream have no
deadline and wait on an agent that stopped taking events, so what `EdgeFair` shows
is under the assumption that they return; `EmitReturns` and `CloseDropsSession` are
that fact for an agent that takes its events.

In `Agent`: `WF` on the agent's goroutine, the event reader and its `OnEvent`,
the server's handlers and closers, on `Carries` (yamux delivers what is on a link
that is up, and either end of a dead session learns of it in the end, by its
keepalive), and on each `emit`. `WF` on `Report` says that what the agent does with an
event returns; without it `EmitReturns` does not hold. Nothing is assumed of
requests, operators, links or the user. In `TrayManager`: `WF` on each click once
made and on each run; a server need not end a session, nobody has to click. In
`ClientConfig`: `WF` on a command and a click that have begun, on the refresh loop,
and on its ticker; requests to the server have a time limit in the code. Nobody
has to click, run a command or quit.

## 4. Proofs

The proof modules show, for every value of the constants, what the runs show on
small instances. They assume what the modules state of their constants
(`StoreAssumption`, `RegistryAssumption`, `ControlAssumption`, `ApiAssumption`,
`ServerAssumption`, `EdgeAssumption`, `AgentAssumption`, `TrayAssumption`,
`ClientAssumption`, `ServiceAssumption`): finite sets where something is counted, model values that
differ from the sets they complement, ports above zero, inputs of the right shape.

| Module | Theorems |
|---|---|
| `ServerProofs` | `Invariance` (`IInv`), and of it `TypeCorrect`, `HandshakeIsSafe`, `NoTunnelIsOrphaned`, `NoNameGoesStale`; `LeaseRefinement`: every step, restarts included, is a step of the lease or leaves it alone |
| `StoreProofs` | `RevocationIsFinal`, `NoReservationIsStolen`, `ReservationsStayCapped` |
| `RegistryProofs` | `RegistryInvariance` (`RInv`), and from it `PortIndexIsRight`, `ListenersAreOwned`, `CountsNeverExceed`, `NothingIsLeft` |
| `EdgeProofs` | `EdgeImplementsServer` (`EdgeSpec => Spec`), `EdgeInvariance` (`VInv`), `EdgeTypeCorrect`, `VisitsReachTheirTunnel` |
| `AgentProofs` | `AgentInvariance` (`IInv`), and from it `TypeCorrect`, `OnlyOperatorsTell`, `CleanCloseHeeded`, `NameKept`; `AgentServerLeases`: the server's half of `Agent` implements `NameLease` |
| `TrayProofs` | `TrayInvariance`, `NoAgentUnseen`, `StatusesSettle` |
| `ClientProofs` | `ClientInvariance` (`IInv`), `DefaultsExist`; `SavesStayInStep` (`SaveInv`), and from it `InterruptedSavesKeep`, `SavesLoseNothing` |
| `ServiceProofs` | `ServiceInvariance` (`IInv`), `WritesAreWhole`, `EnvFilesArePrivate`; `ServiceSteady` (`SInv`), and from it `RefusalsAreTheShells`, `InstallsRepair`, `UpgradesKeepConfig`, `CleanDoctorsSeeNoRival` |

*The server.* `HandshakeUndisturbed`, `NoOrphanTunnel` and
`NoStaleName` are not inductive by themselves. That a removal harms nobody rests
on who can be asked to remove a tunnel; that is who found it in `byID` or
`list`, which answer with routable tunnels only, so the tunnel's handler is past
the handshake (`DropTargets`); that in turn rests on `ready` following the
handler (`FlagsFollowHandler`) and on what each handler has filled in when it
publishes (`WellFormed`). The proof takes one case per action, first for the
types, then for the rest. `IInv` is the conjunction.

*Ports, sockets, counts.* `RInv` rests on who closes a tunnel: `closed` picks one
caller of `Close`, and until that one is past the listener and the session it
stands for them (`ListenerDue`, `SessionDue`). So a bound port has an owner, the
port cannot be bound again before whoever closes the tunnel has come to it, and
when all are at rest nothing is left. The counts need cardinalities: `byToken[t]`
never exceeds the number of `t`'s registered tunnels, since `remove`, called once
or twice, lowers it at least as often as the set loses a member.

*The edge.* Every step of `EdgeNext` is a step of the server or leaves its
variables alone, so its theorems hold under traffic. `VInv` says of each visit
under way which tunnel it found, under which name or port it found it, and that it
was let in; that a tunnel's name, port and credentials do not change once it is
registered comes from `IInv`.

*The agent.* What the server has written to an event stream and its reader has not
consumed is one sequence, whichever side's yamux holds it (`Pipe`). `Kept` follows
an operator's close event along it. `Close` writes the event in two chunks, then
the end of the stream, then ends the session. So where a final close has put the
end into the pipe, its event is ahead of the end, or half of it is and the reader
is in its frame, or the agent has taken it, or the reader has given the stream up
(`WillStop`); and that holds from the write of the event on, if what is written
gets there at all. A reader that comes to the end by itself has taken it:
`CleanCloseIsHeeded` follows with what `drain` reports (`DrainInv`). In the other
direction, `stopRetry` is set only by a frame of a final closer (`StopInv`).
`KeepsItsName` needs that what the agent asks for, what the Hello says and what
the answer brings are one name once there is one (`NameInv`).

*Tray.* `UnseenOnlyByForget` needs that what Stop waits for it has cancelled
(`StopCancels`) and that a status follows its agent (`StatusFollowsAgent`).

*Client.* `DefaultExists` is inductive with the copies of all processes in it; `IInv`
adds `NilMeansNoFile`: a nil map, in the widget or in a reload under way, stands for
a file that was never there, and then nobody can have been shown an item to click.
The saves have an invariant of their own, `SaveInv`.
As long as no two saves have overlapped, the one process between `Open` and `Rename` owns the
temporary file's inode (`OneSave`), which holds nothing yet or the whole of its
copy, and never is the inode of the config; so the file under its name parses,
unless it did not at first and nobody has saved since (`GoodFile`). And a copy that claims to be of the present version is the file, but
for what its process was asked to change (`Bases`, `ProcCopies`, `TrayCopies`):
what `Rename` then puts in place loses nothing else.

*Service.* `IInv` has one idea, that every plan is made of steps that write whole
bodies, and environment files for root only (`Steps`), and that a write under way is
of the plan's first step. `SInv` is about time. A command looks at the
machine and acts on it later, and so does systemd; meanwhile others act. What was
seen still holds because of what each kind of command may do (`StepsOf`: only an
uninstall removes, and it has stopped the service first (`RemovesStopped`);
install and tunnel write no config or environment that is there), and because
`seen`, `began` and `since` lie in the past (`LooksBack`), so that an edit always
shows. On this rest a write of an absent file that finds it still absent
(`StillAbsent`, for `UpgradeKeepsConfig`); a config only root can read, which the
plan has yet to open (`RepairIsDue`, for `InstallRepairs`); a service started by
install that finds the config install judged (`EnablesServable`,
`BootsServable`, for `RefusalIsTheShells`: `startBlocker` and the unit ask the same
questions of the same files, and where their answers differ a variable of the shell
has stood in for what the unit lacks); and the ports `doctor` asked for, which the
server, if it came up, could bind because nobody else held them (`DoctorKnows`,
`ServesItsPorts`, for `CleanDoctorSeesNoRival`).

Every safety and action property that a passing run checks is a theorem, for every
value of the constants. Model-checked only are the liveness properties
(`DropTakesEffect`, `EndedSessionIsReleased`, `HandshakeEnds`,
`WaitersAreReleased`, `VisitsEndWithTunnel`, `SpliceEnds`,
`EmitReturns`, `CloseDropsSession`, `EndsAndGivesBack`, `CancelledRunFinishes`,
`MenuCatchesUp`): what follows from fairness needs ENABLED, which the prover does
not have. The four findings are counterexamples, and need no proof.

## 5. Reading the properties

* `HandshakeUndisturbed` is why `byID` and `list` must not see a tunnel before
  `markReady`: one closed there has no session to close, and its handler would
  wait for ever.
* `NoOrphanTunnel` is why `registry.remove` compares before it deletes: it is
  called twice for a dropped tunnel, the second time possibly after the name has
  gone to another agent.
* `NeverOvercounted`: the count errs on one side only. Because a dropped tunnel
  is uncounted twice it can let a token exceed its limit; it can never lock a
  token out.
* `RevocationSticks`: the one way back for a revoked token is a `TouchToken` that
  was under way, and writes its old copy of the record.
* `ReachesItsTunnel` is why a visit must keep the pointer it found: a name may
  pass to an agent with other credentials, or none, while the visit is checked.
* `WaitersAreReleased` is why `Close` closes the channel `waitReady` selects on.
* `ToldOnlyByOperator` and `CleanCloseIsHeeded` are the two directions of "the
  agent stops when told to". The second has the condition the code needs: the
  reader has begun and comes to the end of the stream within `drain`'s 250 ms.
  A close event whose stream was not accepted yet is not heeded.
* `UnseenOnlyByForget` names the one way an agent can run on out of sight of the
  tray: `Forget` deletes by name after an unlocked wait, and drops a run that was
  started meanwhile.
* `EndsAndGivesBack` spans both processes: an agent that ends, however it does,
  leaves no lease, even if it left in the middle of a handshake.
* `SaveLosesNothing` says what `Save` owes: a process that had read the file as it
  is loses nothing of it. One that had read an older file overwrites what came in
  between, as the code does; the property's `base` tells the two apart.
* `DefaultExists` has one exception, `misclick`: the widget makes a profile the
  default that a logout has removed since its menu was drawn.
* `MenuCatchesUp` says that all races between the loop, clicks and commands are
  mended by a later reload.
* `VisitsEndWithTunnel` covers a visit wherever its tunnel's end finds it, and names
  what no deadline ends.
* `RefusalIsTheShells`, `InstallRepairs` and `CleanDoctorSeesNoRival` carry in
  `edited`, `since` and `began` what a command can be held to: what it looked at, if
  nobody has changed it since. The first is of the refusals `startBlocker` asks
  about; a unit can also loop over a port, a key pair, or a config it cannot read.
* `EnvFilesStayPrivate` is of the files made for secrets. The config is not one of
  them (section 6).
* `CleanDoctorSeesNoRival` does not say that a clean verdict is about zerock: a
  process with the management port that answers `/healthz` passes (section 6).

## 6. Findings

Each is a run that TLC ends with a counterexample; `PROJECT.json` quotes the
sentence and its line.

| Run | What the code does |
|---|---|
| `EdgeFindsAProxy` | an HTTP request to the name of a TCP tunnel passes `claimed` and `waitReady` and is handed to a nil proxy; the handler panics |
| `RevokeHandshake` | a tunnel in its handshake survives the revocation of its token |
| `FramesInterleave` | the frames of two requests that end together can alternate on the event stream; the agent's reader gives up on it |
| `FormPanics` | the form of a new tunnel, in a widget that has never had a config file, writes to a nil map |

The same models show, without a run of their own:

* a killed tunnel is uncounted twice, at the expense of the token's other tunnels,
  and two handshakes of one token can pass the tunnel limit together;
* a `TouchToken` under way clears `RevokedAt` again;
* a reservation can be written for a token deleted meanwhile, or released after it
  has changed hands, and a name can be reserved between the test and the claim;
* two admins can revoke each other at once, and none is usable until the next start;
* an agent that is back before the server has noticed the broken link is refused
  its own name with `subdomain_taken` and ends;
* `Forget` can drop a run it did not stop;
* two saves at once share `path.tmp` and can leave a config that does not parse;
* `Bootstrap` commits the first admin token before it is printed: a stop in between
  leaves a token nobody has seen;
* after a purge and a second install, the token `install` shows may be one from the
  older journal;
* `enable --now` leaves a running service on the old binary (`service.go:204`),
  where `README.md:112` calls a second install the upgrade path;
* a config at 0640, or under an `/etc/zerock` that `service tunnel` has made 0700,
  cannot be read by the unit's dynamic user, and `install` does not repair it;
* a DNS credential that somebody keeps in a 0600 config is opened to every user when
  `install` repairs the mode (`service.go:443`), which `server/config.go:318` calls
  "wrong for secrets"; `doctor` warns of it afterwards;
* the widget can end at "concurrent map iteration and map write": `render` goes
  through the shared config after it has given up `ui.mu` (`tray.go:346`, `:359`),
  while a click writes the map (`tray.go:546`, `:638`). In the model this is `Torn`.
  (`start`, at `tray.go:503`, resolves the shared config unlocked too; that one is
  not modelled.);
* `doctor` takes a 200 on the management port from whoever gives it
  (`doctor.go:480`): a server started by hand stands for the service, though
  `doctor.go:473` says that the check "proves the server is serving".

## 7. Plan

Done: the server's core with its proofs, public traffic over it with its proofs,
the event stream and the agent, the tray manager, the client's configuration and
its writers, and the service commands. What would come next:

1. Graceful shutdown: `closeAll` against handlers in their handshake, for what
   agents are told.
2. The tunnel commands of `clientcli` on top of `Agent`, and pure helpers
   (`normalizeScopes`, label validation, tunnel specs) against reference
   definitions.
3. `Agent` and `Server` in one specification. Each is proved to keep `NameLease`,
   which is the contract they meet in; what the agent is told of a tunnel that is
   closed in its handshake is outside of that contract.

## 8. Not modelled

Certificates (`tls.go`: calls of certmagic and a certificate authority), the
dashboard (HTML over the API), command-line parsing and output, dialogs and icons,
the vendored tray library. Of what is modelled: headers and error pages of the
edge, byte and request counters, the agent's forwarding to its local service, the
fields of a profile beside its name, the API's host name and the labels reserved for
it (`Control` has a set of blocked names), `doctor`'s checks of certificates and DNS,
which ask other machines. Secrets, expiry, labels and formatting are abstracted:
where they decide something, the decision is a nondeterministic refusal.

## Running

```
tlc -workers 2 -config StoreRaces.cfg MCServer.tla
tlc -workers 2 -config Edge.cfg MCEdge.tla
tlc -workers 2 -config AgentStream.cfg MCAgent.tla
tlc -workers 2 -config Tray.cfg MCTray.tla
tlc -workers 2 -config Client.cfg MCClient.tla
tlc -workers 2 -config Service.cfg MCService.tla
tlapm --threads 4 ServiceProofs.tla
```
