------------------------------ MODULE Service ------------------------------
(***************************************************************************)
(* internal/cli: service install, uninstall and tunnel (service.go,        *)
(* units.go), serve, doctor and admin-token, on one machine with systemd.  *)
(*                                                                         *)
(* A command is a plan of file changes, decided when it starts and applied *)
(* one step at a time, and then calls of systemctl.  It can be cut at any  *)
(* step.  Meanwhile the operator edits files in another shell, and systemd *)
(* starts, restarts and gives up on the server.  A body stands for what a  *)
(* file says, "half" for a write that was cut; a mode is "open" (0644 or   *)
(* 0755: others may read), "group" (0640) or "shut" (0600 or 0700).  The   *)
(* umask is 022.  Printing, journald's excerpts and the ss hints are left  *)
(* out.  The tunnel's agent is up or not: see Agent for what is inside.    *)
(***************************************************************************)
EXTENDS ServerConfig

CONSTANTS
    Inputs,        \* the commands that are ever typed
    MaxCommands,   \* bound: how many
    MaxEdits,      \* bound: changes made by hand, and reboots
    Edits,         \* their kinds
    MaxTokens,     \* bound: admin tokens ever minted
    Machines,      \* what the machine may look like at first
    HeldPorts,     \* sets of ports a reverse proxy may hold
    Shells         \* environments the commands may be typed in

ASSUME ServiceAssumption ==
    /\ MaxCommands \in Nat /\ MaxEdits \in Nat /\ MaxTokens \in Nat
    /\ Machines \subseteq {"fresh", "legacy"}
    /\ \A i \in Inputs :
          /\ i.kind \in {"install", "tunnel"} => i.from \in {"v1", "v2", "installed"}
          /\ i.kind = "tunnel" => i.args = "args"

VARIABLES
    files,     \* path -> what is there
    tmp,       \* path -> what is at path + ".zerock-tmp"
    etc,       \* the mode of /etc/zerock, "none" before it exists
    admins,    \* the admin tokens of the database
    minted,    \* how many were ever minted
    journal,   \* the bootstrap tokens in the journal of zerock.service, in order
    svc,       \* zerock.service
    tunnel,    \* zerock-tunnel@name
    held,      \* the ports another process holds
    shell,     \* the environment of the operator's shell
    cmd,       \* the command that runs
    typed,     \* commands so far
    edited     \* edits so far

disk  == <<files, tmp, etc>>
store == <<admins, minted, journal>>
units == <<svc, tunnel>>
vars  == <<disk, store, units, held, shell, cmd, typed, edited>>

Paths == {"binary", "config", "env", "unit", "tunnelUnit", "tunnelEnv"}
UnderEtc == {"config", "env", "tunnelEnv"}

NoFile == [body |-> "none", mode |-> "none"]
Exists(p) == files[p] # NoFile

-----------------------------------------------------------------------------
(* What the files say.                                                     *)

Domain == <<"example", "com">>

\* autoConfigTemplate and proxiedConfigTemplate, and what an editor makes of
\* them: a token written in, a certificate, the domain lost.
Written(body) ==
    LET auto == [domain |-> Domain, mode |-> "auto", delay |-> "30s", token |-> ""]
    IN  CASE body = "auto"    -> auto
          [] body = "proxied" -> [domain |-> Domain, mode |-> "off", http |-> "8080"]
          [] body = "secret"  -> [auto EXCEPT !.token = "dns"]
          [] body = "files"   -> [domain |-> Domain, mode |-> "files", delay |-> "30s", token |-> "",
                                   cert |-> "c", key |-> "k"]
          [] OTHER            -> [auto EXCEPT !.domain = <<>>]

\* renderServerConfig.
Rendered(proxy) == IF proxy THEN "proxied" ELSE "auto"

NoEnv == [token |-> "", domain |-> <<>>]

\* readEnvFile: dnsEnvBody leaves the variable empty for the operator to fill.
EnvFile == IF files["env"].body = "token" THEN [NoEnv EXCEPT !.token = "dns"] ELSE NoEnv

\* applyEnvFile: what is already set in the shell wins.
AppliedEnv ==
    [token  |-> IF shell.token # "" THEN shell.token ELSE EnvFile.token,
     domain |-> IF shell.domain # <<>> THEN shell.domain ELSE EnvFile.domain]

\* Mutant: any config will do.
StartBlocker_AnyConfig == ~Exists("config")

StartBlocker == ~(Exists("config") /\ Servable(Written(files["config"].body), AppliedEnv))

\* DynamicUser: the server is neither root nor in its group.
ServerReadsConfig == Exists("config") /\ files["config"].mode = "open" /\ etc = "open"

-----------------------------------------------------------------------------
(* The plan.                                                               *)

Step(op, path, body, mode) == [op |-> op, path |-> path, body |-> body, mode |-> mode]
Nothing(path) == Step("none", path, "none", "none")

\* selfPath and sameFile: the command was typed at the installed binary.
SameFile(i) == i.from = "installed"

CopyBinary(i) ==
    IF SameFile(i) THEN Nothing("binary") ELSE Step("write", "binary", i.from, "open")

\* Mutant: an old config is left as it is.
EnsureReadable_Never == Nothing("config")

\* ensureReadable looks at the mode while the plan is made.
EnsureReadable ==
    IF Exists("config") /\ files["config"].mode = "shut" THEN Step("chmod", "config", "none", "open")
                                                         ELSE Nothing("config")

\* Mutant: whether to keep a file is decided with the plan.
InstallPlan_KeepsEarly(i) ==
    LET keep(p, body, mode) == IF Exists(p) THEN Nothing(p) ELSE Step("write", p, body, mode)
    IN  <<CopyBinary(i),
          Step("mkdir", "etc", "none", "open"),
          keep("config", Rendered(i.proxy), "open"),
          EnsureReadable,
          keep("env", "blank", "shut"),
          Step("write", "unit", "unit", "open")>>

InstallPlan(i) ==
    <<CopyBinary(i),
      Step("mkdir", "etc", "none", "open"),
      Step("absent", "config", Rendered(i.proxy), "open"),
      EnsureReadable,
      Step("absent", "env", "blank", "shut"),
      Step("write", "unit", "unit", "open")>>

UninstallPlan(i) ==
    <<IF Exists("unit") THEN Step("remove", "unit", "none", "none") ELSE Nothing("unit")>>
    \o IF i.purge THEN <<IF etc # "none" THEN Step("remove", "etc", "none", "none") ELSE Nothing("etc"),
                          Step("remove", "data", "none", "none")>>
                   ELSE <<>>

TunnelPlan(i) ==
    <<CopyBinary(i),
      Step("mkdir", "tunnels", "none", "shut"),
      Step("write", "tunnelUnit", "unit", "open"),
      Step("write", "tunnelEnv", i.args, "shut")>>

Plan(i) ==
    CASE i.kind = "install"   -> InstallPlan(i)
      [] i.kind = "uninstall" -> UninstallPlan(i)
      [] i.kind = "tunnel"    -> TunnelPlan(i)
      [] OTHER                -> <<>>

-----------------------------------------------------------------------------
(* A command starts.                                                       *)

Idle == [pc |-> "idle", input |-> [kind |-> "none"], plan |-> <<>>, writing |-> FALSE,
         began |-> 0, seen |-> 0, result |-> "none", token |-> 0, faults |-> {}, ports |-> {}]

\* requireRoot.
Refused(i) == i.kind \in {"install", "uninstall", "tunnel"} /\ ~i.root /\ ~i.dry

First(i) ==
    CASE i.kind = "uninstall"  -> IF i.dry THEN "plan" ELSE "disable"
      [] i.kind = "doctor"     -> "inspect"
      [] i.kind = "adminToken" -> "mint"
      [] OTHER                 -> "plan"

\* What every action of a command leaves alone.
Quiet == UNCHANGED <<held, shell, typed, edited>>
AllButCmd == UNCHANGED <<disk, store, units>> /\ Quiet

\* The command is over.  "seen" counts the edits made before its present step.
Over(result) == [cmd EXCEPT !.pc = "idle", !.plan = <<>>, !.writing = FALSE, !.result = result]
Ends(result) == cmd' = Over(result) /\ AllButCmd

Begin(i) ==
    /\ cmd.pc = "idle" /\ typed < MaxCommands
    /\ (i.kind \in {"install", "tunnel"} /\ SameFile(i)) => Exists("binary")
    /\ typed' = typed + 1
    /\ cmd' = IF Refused(i) THEN [Idle EXCEPT !.input = i, !.result = "refused"]
              ELSE [Idle EXCEPT !.input = i, !.pc = First(i), !.plan = Plan(i),
                                 !.began = edited, !.seen = edited]
    /\ UNCHANGED <<disk, store, units, held, shell, edited>>

\* systemctl disable --now, before the plan of a real uninstall.
Disable ==
    /\ cmd.pc = "disable"
    /\ cmd' = [cmd EXCEPT !.pc = "plan"]
    /\ svc' = [svc EXCEPT !.state = "off", !.enabled = FALSE, !.secret = 0]
    /\ UNCHANGED <<disk, store, tunnel>> /\ Quiet

\* run prints the plan of a dry run and is done.
DryRun ==
    /\ cmd.pc = "plan" /\ cmd.input.dry
    /\ Ends("dry")

Applying(op) == cmd.pc = "plan" /\ ~cmd.input.dry /\ cmd.plan # <<>> /\ Head(cmd.plan).op = op

Applied == [cmd EXCEPT !.plan = Tail(@), !.writing = FALSE, !.seen = edited]

\* The steps that write a file: always, or if it is still absent.
WriteDue ==
    \/ Applying("write")
    \/ Applying("absent") /\ ~Exists(Head(cmd.plan).path)

\* A step whose work is done, or was never needed.
SkipStep ==
    /\ \/ Applying("none")
       \/ Applying("absent") /\ ~cmd.writing /\ Exists(Head(cmd.plan).path)
    /\ cmd' = Applied
    /\ AllButCmd

\* Mutant: the file itself is written to.
WriteTmp_InPlace ==
    LET s == Head(cmd.plan)
    IN  /\ WriteDue /\ ~cmd.writing
        /\ files' = [files EXCEPT ![s.path] = [body |-> "half", mode |-> s.mode]]
        /\ etc' = IF etc = "none" /\ s.path \in UnderEtc THEN "open" ELSE etc
        /\ cmd' = [cmd EXCEPT !.writing = TRUE, !.seen = edited]
        /\ UNCHANGED <<tmp, store, units>> /\ Quiet

\* writeFileAtomic up to the end of os.WriteFile...
WriteTmp ==
    LET s == Head(cmd.plan)
    IN  /\ WriteDue /\ ~cmd.writing
        /\ tmp' = [tmp EXCEPT ![s.path] = [body |-> "half", mode |-> s.mode]]
        /\ etc' = IF etc = "none" /\ s.path \in UnderEtc THEN "open" ELSE etc
        /\ cmd' = [cmd EXCEPT !.writing = TRUE, !.seen = edited]
        /\ UNCHANGED <<files, store, units>> /\ Quiet

\* ... and Chmod and Rename.
Rename ==
    LET s == Head(cmd.plan)
    IN  /\ cmd.pc = "plan" /\ cmd.writing
        /\ files' = [files EXCEPT ![s.path] = [body |-> s.body, mode |-> s.mode]]
        /\ tmp' = [tmp EXCEPT ![s.path] = NoFile]
        /\ cmd' = Applied
        /\ UNCHANGED <<etc, store, units>> /\ Quiet

\* MkdirAll gives every directory it makes the mode it was called with, and
\* leaves one that exists as it is.
Mkdir ==
    /\ Applying("mkdir")
    /\ etc' = IF etc = "none" THEN Head(cmd.plan).mode ELSE etc
    /\ cmd' = Applied
    /\ UNCHANGED <<files, tmp, store, units>> /\ Quiet

Chmod ==
    /\ Applying("chmod")
    /\ files' = [files EXCEPT !["config"].mode = Head(cmd.plan).mode]
    /\ cmd' = Applied
    /\ UNCHANGED <<tmp, etc, store, units>> /\ Quiet

\* os.RemoveAll.
Remove ==
    LET path == Head(cmd.plan).path
        gone == IF path = "etc" THEN UnderEtc ELSE {path}
    IN  /\ Applying("remove")
        /\ files' = [p \in Paths |-> IF p \in gone THEN NoFile ELSE files[p]]
        /\ tmp' = [p \in Paths |-> IF path = "etc" /\ p \in gone THEN NoFile ELSE tmp[p]]
        /\ etc' = IF path = "etc" THEN "none" ELSE etc
        /\ admins' = IF path = "data" THEN {} ELSE admins
        /\ cmd' = Applied
        /\ UNCHANGED <<minted, journal, units>> /\ Quiet

-----------------------------------------------------------------------------
(* After the plan: daemon-reload, and the start.                           *)

PlanDone == cmd.pc = "plan" /\ ~cmd.input.dry /\ cmd.plan = <<>>

UninstallDone ==
    /\ PlanDone /\ cmd.input.kind = "uninstall"
    /\ Ends("removed")

\* --no-start, or something is missing: say so instead of starting.
InstallNotStarted ==
    /\ PlanDone /\ cmd.input.kind = "install"
    /\ ~cmd.input.start \/ StartBlocker
    /\ Ends(IF cmd.input.start THEN "blocked" ELSE "unstarted")

InstallGoesOn ==
    /\ PlanDone /\ cmd.input.kind = "install"
    /\ cmd.input.start /\ ~StartBlocker
    /\ cmd' = [cmd EXCEPT !.pc = "enable", !.seen = edited]
    /\ AllButCmd

\* Type=simple: a unit is active from the moment its process exists.
Active(unit) == unit.state \in {"boot", "minted", "up"}

\* exec of the unit's binary, because of "by".
Exec(by) == [svc EXCEPT !.state = "boot", !.binary = files["binary"].body, !.why = "none",
                        !.by = by, !.since = cmd.seen]

\* systemctl enable --now: starting a unit that is active leaves it as it is.
InstallEnable ==
    /\ cmd.pc = "enable"
    /\ svc' = [IF Active(svc) THEN svc ELSE Exec("install") EXCEPT !.enabled = TRUE]
    /\ cmd' = [cmd EXCEPT !.pc = "verdict"]
    /\ UNCHANGED <<disk, store, tunnel>> /\ Quiet

\* findBootstrapToken: the first there is in all of the unit's journal.
BootstrapToken == IF journal # <<>> THEN Head(journal) ELSE 0

\* Two seconds later: serviceActive, and the token to show.
InstallVerdict ==
    /\ cmd.pc = "verdict"
    /\ cmd' = [Over(IF Active(svc) THEN "running" ELSE "failed") EXCEPT
                 !.token = IF Active(svc) THEN BootstrapToken ELSE 0]
    /\ AllButCmd

\* The unit of the tunnel reads its environment file, as root, when it starts.
TunnelEnable ==
    /\ PlanDone /\ cmd.input.kind = "tunnel"
    /\ tunnel' = IF tunnel.state = "up" THEN tunnel ELSE [state |-> "up", args |-> files["tunnelEnv"].body]
    /\ cmd' = Over("running")
    /\ UNCHANGED <<disk, store, svc>> /\ Quiet

\* A signal, a full disk, a closed terminal.
Cut ==
    /\ cmd.pc # "idle"
    /\ Ends("cut")

-----------------------------------------------------------------------------
(* The process of zerock.service: runServe, under Restart=always.          *)

\* LoadConfig fails.
ServeRefuses ==
    /\ svc.state = "boot"
    /\ ~(ServerReadsConfig /\ Servable(Written(files["config"].body), EnvFile))
    /\ svc' = [svc EXCEPT !.state = "loop", !.why = IF ServerReadsConfig THEN "invalid" ELSE "unreadable"]
    /\ UNCHANGED <<disk, store, tunnel, cmd>> /\ Quiet

Ran == Inspected(Written(files["config"].body), EnvFile)

\* New opens the database, and Bootstrap mints a token if there is no admin.
ServeBootstraps ==
    LET first == admins = {}
    IN  /\ svc.state = "boot" /\ ServerReadsConfig
        /\ Servable(Written(files["config"].body), EnvFile)
        /\ first => minted < MaxTokens
        /\ minted' = IF first THEN minted + 1 ELSE minted
        /\ admins' = IF first THEN {minted + 1} ELSE admins
        /\ svc' = [svc EXCEPT !.state = "minted", !.config = files["config"].body,
                              !.needs = NeededPorts(Ran), !.secret = IF first THEN minted + 1 ELSE 0]
        /\ UNCHANGED <<journal, disk, tunnel, cmd>> /\ Quiet

\* printBootstrap.
Printed == IF svc.secret # 0 THEN Append(journal, svc.secret) ELSE journal

\* Mutant: the edge may do without its port, as the redirect to it may.
RunFails_EdgeSurvives ==
    {r \in {"none", "tls", "port"} :
        /\ r = "tls" => svc.config = "files"
        /\ r = "port" <=> r # "tls" /\ svc.needs \cap held \cap {"7223", "7224"} # {}}

\* buildTLS, and then the listeners: what Run may fail over.  Whether the key
\* pair of a config with "files" loads only the machine knows.
RunFails ==
    {r \in {"none", "tls", "port"} :
        /\ r = "tls" => svc.config = "files"
        /\ r = "port" <=> r # "tls" /\ svc.needs \cap held # {}}

ServeListens ==
    /\ svc.state = "minted"
    /\ journal' = Printed
    /\ \E r \in RunFails :
          svc' = [svc EXCEPT !.state = IF r = "none" THEN "up" ELSE "loop", !.why = r, !.secret = 0]
    /\ UNCHANGED <<admins, minted, disk, tunnel, cmd>> /\ Quiet

\* Restart=always, until StartLimitBurst.
Retry ==
    /\ svc.state = "loop"
    /\ svc' = [Exec(svc.by) EXCEPT !.since = svc.since]
    /\ UNCHANGED <<disk, store, tunnel, cmd>> /\ Quiet

GiveUp ==
    /\ svc.state = "loop"
    /\ svc' = [svc EXCEPT !.state = "failed"]
    /\ UNCHANGED <<disk, store, tunnel, cmd>> /\ Quiet

-----------------------------------------------------------------------------
(* doctor and admin-token.                                                 *)

\* The environment doctor ends up with: the file only if it may read it.
DoctorEnv == IF cmd.input.root THEN AppliedEnv ELSE shell

DoctorReads ==
    /\ Exists("config")
    /\ cmd.input.root \/ ServerReadsConfig
    /\ Readable(Written(files["config"].body), DoctorEnv)

\* doctorDNSCredential, of a config that could be read.
NoCredential(c) == c.mode = "auto" /\ c.token = ""

\* doctorConfig: what it reads, and whether it could be served.
DoctorInspect ==
    LET c      == Inspected(Written(files["config"].body), DoctorEnv)
        absent == ~Exists("config") /\ (cmd.input.root \/ etc # "shut")
    IN  /\ cmd.pc = "inspect"
        /\ cmd' = [cmd EXCEPT
                      !.pc = "service",
                      !.ports = IF DoctorReads THEN NeededPorts(c) ELSE {},
                      !.faults = IF absent \/ (DoctorReads /\ ValidForServing(c)) THEN {} ELSE {"config"}
                                   \cup IF DoctorReads /\ NoCredential(c) THEN {"credential"} ELSE {}]
        /\ AllButCmd

DoctorService ==
    /\ cmd.pc = "service"
    /\ cmd' = [cmd EXCEPT !.pc = "dial",
                          !.faults = IF Active(svc) THEN @ ELSE @ \cup {"service"}]
    /\ AllButCmd

Listening == held \cup (IF svc.state = "up" THEN svc.needs ELSE {})

\* doctorListeners: whoever answers will do, as long as the service is active.
DoctorListeners ==
    /\ cmd.pc = "dial"
    /\ cmd' = [cmd EXCEPT !.pc = "health",
                          !.faults = IF cmd.ports \subseteq Listening THEN @ ELSE @ \cup {"listener"}]
    /\ AllButCmd

\* report.render: any failure is the exit code.
Verdict(faults) == IF faults = {} THEN "clean" ELSE "faulty"

\* What a request for /healthz on the loopback door may come to: the server
\* says yes, another process on the port whatever it likes.
HealthAnswers ==
    IF svc.state = "up" /\ "7224" \in svc.needs THEN {TRUE}
    ELSE IF "7224" \in held THEN BOOLEAN ELSE {FALSE}

\* doctorAdminAPI.
DoctorHealth ==
    /\ cmd.pc = "health"
    /\ \E healthy \in HealthAnswers :
          Ends(Verdict(cmd.faults \cup IF "7224" \in cmd.ports /\ ~healthy THEN {"health"} ELSE {}))

\* bbolt's lock: the server holds it from New to the end of its process.
Locked == svc.state \in {"minted", "up"}

AdminToken ==
    /\ cmd.pc = "mint"
    /\ IF ~DoctorReads \/ ~cmd.input.root \/ Locked
       THEN cmd' = Over("error") /\ UNCHANGED <<admins, minted>>
       ELSE /\ minted < MaxTokens
            /\ minted' = minted + 1 /\ admins' = admins \cup {minted + 1}
            /\ cmd' = [Over("minted") EXCEPT !.token = minted + 1]
    /\ UNCHANGED <<journal, disk, units>> /\ Quiet

-----------------------------------------------------------------------------
(* What the operator does by hand, and reboots.                            *)

EditedFiles(e) ==
    LET wrote(p, body) == [files EXCEPT ![p].body = IF @ = "none" THEN @ ELSE body]
        chmod(mode)    == [files EXCEPT !["config"].mode = IF @ = "none" THEN @ ELSE mode]
    IN  CASE e = "set token"    -> wrote("env", "token")
          [] e = "clear token"  -> wrote("env", "blank")
          [] e = "write secret" -> wrote("config", "secret")
          [] e = "lose domain"  -> wrote("config", "broken")
          [] e = "chmod 600"    -> chmod("shut")
          [] e = "chmod 640"    -> chmod("group")
          [] e = "own config"   -> [files EXCEPT !["config"] =
                                      IF @ = NoFile /\ etc # "none" THEN [body |-> "files", mode |-> "open"] ELSE @]
          [] OTHER              -> files

Edit(e) ==
    /\ edited < MaxEdits /\ e \in Edits
    /\ EditedFiles(e) # files
    /\ files' = EditedFiles(e)
    /\ edited' = edited + 1
    /\ UNCHANGED <<tmp, etc, store, units, held, shell, cmd, typed>>

\* systemctl restart or stop zerock; nobody starts it under an uninstall.
ByHand(e) ==
    /\ edited < MaxEdits /\ e \in Edits \cap {"restart", "stop"}
    /\ Exists("unit") /\ ~(cmd.pc # "idle" /\ cmd.input.kind = "uninstall")
    /\ svc' = [IF e = "restart" THEN Exec("hand") ELSE [svc EXCEPT !.state = "off"] EXCEPT !.secret = 0]
    /\ edited' = edited + 1
    /\ UNCHANGED <<disk, store, tunnel, held, shell, cmd, typed>>

\* Everything stops; systemd starts what is enabled.
Reboot ==
    /\ edited < MaxEdits /\ "reboot" \in Edits
    /\ svc' = [IF svc.enabled /\ Exists("unit") THEN Exec("reboot") ELSE [svc EXCEPT !.state = "off"]
                EXCEPT !.secret = 0]
    /\ tunnel' = [state |-> IF tunnel.state # "off" /\ Exists("tunnelEnv") THEN "up" ELSE "off",
                  args  |-> files["tunnelEnv"].body]
    /\ edited' = edited + 1
    /\ cmd' = Over("cut")
    /\ UNCHANGED <<disk, store, held, shell, typed>>

-----------------------------------------------------------------------------
\* An install from before the service ran unprivileged left a config at 0600.
Legacy == [NoFile EXCEPT !.body = "auto", !.mode = "shut"]

Init ==
    /\ \E m \in Machines :
          /\ files = [p \in Paths |-> IF m = "legacy" /\ p = "config" THEN Legacy ELSE NoFile]
          /\ etc = IF m = "legacy" THEN "open" ELSE "none"
    /\ tmp = [p \in Paths |-> NoFile]
    /\ admins = {} /\ minted = 0 /\ journal = <<>>
    /\ svc = [state |-> "off", enabled |-> FALSE, binary |-> "none", config |-> "none", needs |-> {},
              why |-> "none", by |-> "none", since |-> 0, secret |-> 0]
    /\ tunnel = [state |-> "off", args |-> "none"]
    /\ held \in HeldPorts
    /\ shell \in Shells
    /\ cmd = Idle
    /\ typed = 0 /\ edited = 0

PlanNext ==
    \/ \E i \in Inputs : Begin(i)
    \/ Disable \/ DryRun \/ SkipStep \/ WriteTmp \/ Rename \/ Mkdir \/ Chmod \/ Remove

CommandNext ==
    \/ PlanNext
    \/ UninstallDone \/ InstallNotStarted \/ InstallGoesOn \/ InstallEnable \/ InstallVerdict
    \/ TunnelEnable \/ DoctorInspect \/ DoctorService \/ DoctorListeners \/ DoctorHealth
    \/ AdminToken

SystemNext == ServeRefuses \/ ServeBootstraps \/ ServeListens \/ Retry \/ GiveUp

Next ==
    \/ CommandNext \/ Cut
    \/ SystemNext
    \/ \E e \in Edits : Edit(e) \/ ByHand(e)
    \/ Reboot

Spec == Init /\ [][Next]_vars
-----------------------------------------------------------------------------
(* Properties.                                                             *)

Bodies == {"none", "half", "v1", "v2", "auto", "proxied", "secret", "files", "broken", "blank",
           "token", "unit", "args"}
Modes  == {"none", "open", "group", "shut"}

\* The environment files: they are made for a DNS credential and a tunnel's token.
Secret == {"env", "tunnelEnv"}

\* The steps of plans: a write is of a whole body, and of a secret for root alone.
Steps ==
    {s \in [op : {"none", "write", "absent", "mkdir", "chmod", "remove"},
            path : Paths \cup {"etc", "tunnels", "data"}, body : Bodies \ {"half"}, mode : Modes] :
        /\ s.op \in {"write", "absent"} => s.path \in Paths /\ (s.path \in Secret => s.mode = "shut")
        /\ s.op = "mkdir" => s.mode \in {"open", "shut"}}

CommandPC == {"idle", "plan", "disable", "enable", "verdict", "inspect", "service", "dial", "health", "mint"}

\* The type of every variable.  Ports are whatever the config says.
TypeOK ==
    /\ files \in [Paths -> [body : Bodies, mode : Modes]]
    /\ tmp \in [Paths -> [body : {"none", "half"}, mode : Modes]]
    /\ etc \in {"none", "open", "shut"}
    /\ minted \in 0..MaxTokens /\ admins \subseteq 1..minted
    /\ journal \in Seq(1..minted)
    /\ svc \in [state : {"off", "boot", "minted", "up", "loop", "failed"}, enabled : BOOLEAN,
                binary : Bodies, config : Bodies, needs : {svc.needs},
                why : {"none", "invalid", "unreadable", "tls", "port"},
                by : {"none", "install", "hand", "reboot"}, since : 0..MaxEdits, secret : 0..minted]
    /\ tunnel \in [state : {"off", "up"}, args : Bodies]
    /\ cmd \in [pc : CommandPC, input : Inputs \cup {Idle.input}, plan : Seq(Steps), writing : BOOLEAN,
                began : 0..MaxEdits, seen : 0..MaxEdits, result : {cmd.result}, token : 0..minted,
                faults : {cmd.faults}, ports : {cmd.ports}]
    /\ typed \in 0..MaxCommands /\ edited \in 0..MaxEdits

\* writeFileAtomic: "an interrupted write cannot leave a half-written config",
\* wherever a command is cut and whatever an earlier cut left behind.
NeverHalfWritten == \A p \in Paths : files[p].body # "half"

\* What zerock keeps in files of root's alone stays there: neither the DNS
\* environment nor a tunnel's is ever open to others, nor the temporary it
\* passes through.  (A token somebody writes into the config itself is not
\* among it: install opens that file to the server, and so to everybody.)
EnvFilesStayPrivate ==
    \A p \in Secret : files[p].mode \in {"none", "shut"} /\ tmp[p].mode \in {"none", "shut"}

\* What those three rest on: a write that is under way is of the step the plan
\* has come to.
IInv ==
    /\ TypeOK
    /\ NeverHalfWritten
    /\ EnvFilesStayPrivate
    /\ cmd.writing => /\ cmd.pc = "plan" /\ cmd.plan # <<>>
                      /\ Head(cmd.plan).op \in {"write", "absent"}

\* A variable of the shell stood in for what the unit will not have: a token
\* its environment file is without, or another domain.
ShellStandsIn == (shell.token # "" /\ EnvFile.token = "") \/ shell.domain # <<>>

\* When the service that install has started refuses its config, what misled
\* startBlocker was the operator's shell, which the unit never sees, and not
\* another reading of the same files.  An edit since may be the reason too;
\* a key pair or a port that fails the server later is not LoadConfig's.
RefusalIsTheShells ==
    svc.by = "install" /\ edited = svc.since /\ svc.why = "invalid" => ShellStandsIn

\* A finished install leaves no config that only root may read (0600, as older
\* versions wrote it), unless somebody edited it under way.
InstallRepairs ==
    cmd.input.kind = "install" /\ cmd.result \in {"running", "failed", "blocked", "unstarted"}
        /\ edited = cmd.began => files["config"].mode # "shut"

\* Install never changes a config or a credential file that was there when it
\* came to it, not even one made while it ran: "Re-running keeps an existing
\* config".  (Between the test and the rename there is nothing it could see.)
UpgradeKeepsConfig ==
    [][\A p \in {"config", "env"} :
          cmd.input.kind = "install" /\ Exists(p) /\ files'[p].body # files[p].body
              => edited' # edited \/ edited # cmd.seen]_vars

\* Another process on a port of the config does not pass doctor for zerock:
\* where one has such a port, doctor's verdict is clean only if it has the
\* management door too, and answers /healthz there in zerock's place.  Unless
\* the config was edited after the server had read it.
CleanDoctorSeesNoRival ==
    [][cmd'.result = "clean" /\ cmd.result # "clean" /\ edited = svc.since
          /\ cmd.ports \cap held # {} => "7224" \in held]_vars
=============================================================================
