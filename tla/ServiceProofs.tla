--------------------------- MODULE ServiceProofs ---------------------------
(***************************************************************************)
(* The machine under the commands: wherever a command is cut, whatever is  *)
(* edited meanwhile, no file is half written and no environment file open. *)
(* And what a command, or systemd for it, has seen of the machine it may   *)
(* act on later, as long as nobody has edited it since.                    *)
(***************************************************************************)
EXTENDS Service, TLAPS, SequenceTheorems

-----------------------------------------------------------------------------
(* Plans.                                                                  *)

\* The steps each kind of command takes: install makes a config and an
\* environment only where there is none, and opens a config to readers; only
\* uninstall removes.
InstallSteps ==
    {s \in Steps :
        /\ s.op # "remove"
        /\ s.op = "write" => s.path \notin {"config", "env"}
        /\ s.op = "chmod" => s.mode = "open"
        /\ s.op = "absent" => \/ s.path = "config" /\ s.mode = "open"
                              \/ s.path = "env" /\ s.body = "blank"}

TunnelSteps ==
    {s \in Steps :
        /\ s.op \in {"none", "mkdir", "write"}
        /\ s.op = "write" => s.path \notin {"config", "env"}}

UninstallSteps == {s \in Steps : s.op \in {"none", "remove"}}

StepsOf(kind) ==
    CASE kind = "install"   -> InstallSteps
      [] kind = "tunnel"    -> TunnelSteps
      [] kind = "uninstall" -> UninstallSteps
      [] OTHER              -> {}

LEMMA StepsOfAKind ==
    ASSUME NEW kind
    PROVE  StepsOf(kind) \subseteq Steps
  BY DEF StepsOf, InstallSteps, TunnelSteps, UninstallSteps

\* Every command plans steps of its kind.
LEMMA PlanOfAKind ==
    ASSUME NEW i \in Inputs
    PROVE  Plan(i) \in Seq(StepsOf(i.kind))
  <1>1. i.kind \in {"install", "tunnel"} => CopyBinary(i) \in InstallSteps \cap TunnelSteps
    <2> USE DEF Steps, Paths, Secret, Bodies, Modes, InstallSteps, TunnelSteps
    <2>1. i.kind \in {"install", "tunnel"} /\ ~SameFile(i) => i.from \in {"v1", "v2"}
      BY ServiceAssumption DEF SameFile
    <2>2. QED
      BY <2>1 DEF CopyBinary, Nothing, Step
  <1>2. EnsureReadable \in InstallSteps
    BY DEF EnsureReadable, Nothing, Step, Steps, Paths, Secret, Bodies, Modes, InstallSteps
  <1>3. ASSUME i.kind = "install"
        PROVE  InstallPlan(i) \in Seq(InstallSteps)
    <2>1. /\ Step("mkdir", "etc", "none", "open") \in InstallSteps
          /\ Step("absent", "config", Rendered(i.proxy), "open") \in InstallSteps
          /\ Step("absent", "env", "blank", "shut") \in InstallSteps
          /\ Step("write", "unit", "unit", "open") \in InstallSteps
      BY DEF Step, Rendered, Steps, Paths, Secret, Bodies, Modes, InstallSteps
    <2>2. QED
      BY <1>1, <1>2, <1>3, <2>1 DEF InstallPlan
  <1>4. UninstallPlan(i) \in Seq(UninstallSteps)
    <2>1. /\ Step("remove", "unit", "none", "none") \in UninstallSteps
          /\ Nothing("unit") \in UninstallSteps
          /\ Step("remove", "etc", "none", "none") \in UninstallSteps
          /\ Nothing("etc") \in UninstallSteps
          /\ Step("remove", "data", "none", "none") \in UninstallSteps
      BY DEF Step, Nothing, Steps, Paths, Secret, Bodies, Modes, UninstallSteps
    <2> DEFINE unit == <<IF Exists("unit") THEN Step("remove", "unit", "none", "none") ELSE Nothing("unit")>>
               rest == IF i.purge THEN <<IF etc # "none" THEN Step("remove", "etc", "none", "none") ELSE Nothing("etc"),
                                         Step("remove", "data", "none", "none")>>
                                  ELSE <<>>
    <2>2. unit \in Seq(UninstallSteps)
      BY <2>1
    <2>3. rest \in Seq(UninstallSteps)
      BY <2>1
    <2>4. UninstallPlan(i) = unit \o rest
      BY DEF UninstallPlan
    <2> HIDE DEF unit, rest
    <2>5. QED
      BY <2>2, <2>3, <2>4, ConcatProperties
  <1>5. i.kind = "tunnel" => TunnelPlan(i) \in Seq(TunnelSteps)
    <2>1. i.kind = "tunnel" =>
            /\ Step("mkdir", "tunnels", "none", "shut") \in TunnelSteps
            /\ Step("write", "tunnelUnit", "unit", "open") \in TunnelSteps
            /\ Step("write", "tunnelEnv", i.args, "shut") \in TunnelSteps
      BY ServiceAssumption DEF Step, Steps, Paths, Secret, Bodies, Modes, TunnelSteps
    <2>2. QED
      BY <1>1, <2>1 DEF TunnelPlan
  <1>6. CASE i.kind = "install"
    BY <1>3, <1>6 DEF Plan, StepsOf
  <1>7. CASE i.kind = "tunnel"
    BY <1>5, <1>7 DEF Plan, StepsOf
  <1>8. CASE i.kind = "uninstall"
    BY <1>4, <1>8 DEF Plan, StepsOf
  <1>9. CASE i.kind \notin {"install", "tunnel", "uninstall"}
    <2>1. Plan(i) = <<>>
      BY <1>9 DEF Plan
    <2>2. <<>> \in Seq(StepsOf(i.kind))
      OBVIOUS
    <2>3. QED
      BY <2>1, <2>2
  <1>10. QED
    BY <1>6, <1>7, <1>8, <1>9

LEMMA PlanSteps ==
    ASSUME NEW i \in Inputs
    PROVE  Plan(i) \in Seq(Steps)
  <1>1. Plan(i) \in Seq(StepsOf(i.kind)) /\ StepsOf(i.kind) \subseteq Steps
    BY PlanOfAKind, StepsOfAKind
  <1>2. QED
    BY ONLY <1>1, SeqMonotonic

\* The first step of a plan, and what is left of the plan after it.
LEMMA PlanGoesOn ==
    ASSUME NEW plan \in Seq(Steps), plan # <<>>
    PROVE  Head(plan) \in Steps /\ Tail(plan) \in Seq(Steps)
  BY HeadTailProperties

-----------------------------------------------------------------------------
(* Commands.                                                               *)

CmdOK(c) ==
    /\ c \in [pc : CommandPC, input : Inputs \cup {Idle.input}, plan : Seq(Steps), writing : BOOLEAN,
               began : 0..MaxEdits, seen : 0..MaxEdits, result : {c.result}, token : 0..minted,
               faults : {c.faults}, ports : {c.ports}]
    /\ c.writing => /\ c.pc = "plan" /\ c.plan # <<>>
                    /\ Head(c.plan).op \in {"write", "absent"}

SvcOK(u) ==
    u \in [state : {"off", "boot", "minted", "up", "loop", "failed"}, enabled : BOOLEAN,
           binary : Bodies, config : Bodies, needs : {u.needs},
           why : {"none", "invalid", "unreadable", "tls", "port"},
           by : {"none", "install", "hand", "reboot"}, since : 0..MaxEdits, secret : 0..minted]

DiskOK ==
    /\ files \in [Paths -> [body : Bodies, mode : Modes]]
    /\ tmp \in [Paths -> [body : {"none", "half"}, mode : Modes]]
    /\ etc \in {"none", "open", "shut"}
    /\ NeverHalfWritten
    /\ EnvFilesStayPrivate

StoreOK ==
    /\ minted \in 0..MaxTokens /\ admins \subseteq 1..minted
    /\ journal \in Seq(1..minted)

BoundsOK == typed \in 0..MaxCommands /\ edited \in 0..MaxEdits

TunnelOK == tunnel \in [state : {"off", "up"}, args : Bodies]

LEMMA Parts ==
    IInv <=> DiskOK /\ StoreOK /\ SvcOK(svc) /\ TunnelOK /\ CmdOK(cmd) /\ BoundsOK
  BY DEF IInv, TypeOK, DiskOK, StoreOK, SvcOK, TunnelOK, CmdOK, BoundsOK

LEMMA PartsAgain ==
    DiskOK' /\ StoreOK' /\ SvcOK(svc)' /\ TunnelOK' /\ CmdOK(cmd)' /\ BoundsOK' => IInv'
  BY DEF IInv, TypeOK, DiskOK, StoreOK, SvcOK, TunnelOK, CmdOK, BoundsOK

\* What a step leaves alone stays in order.
LEMMA Frames ==
    /\ DiskOK /\ UNCHANGED disk => DiskOK'
    /\ StoreOK /\ UNCHANGED store => StoreOK'
    /\ SvcOK(svc) /\ UNCHANGED <<svc, minted>> => SvcOK(svc)'
    /\ TunnelOK /\ UNCHANGED tunnel => TunnelOK'
    /\ CmdOK(cmd) /\ UNCHANGED <<cmd, minted>> => CmdOK(cmd)'
    /\ BoundsOK /\ UNCHANGED <<typed, edited>> => BoundsOK'
  BY DEF DiskOK, StoreOK, SvcOK, TunnelOK, CmdOK, BoundsOK, disk, store, NeverHalfWritten, EnvFilesStayPrivate

\* A command that is over is in order, whatever it reports.
LEMMA OverOK ==
    ASSUME CmdOK(cmd), NEW result
    PROVE  CmdOK(Over(result))
  <1>1. <<>> \in Seq(Steps) /\ "idle" \in CommandPC
    BY DEF CommandPC
  <1>2. QED
    BY <1>1 DEF CmdOK, Over

LEMMA AppliedOK ==
    ASSUME CmdOK(cmd), BoundsOK, cmd.plan # <<>>
    PROVE  CmdOK(Applied)
  BY PlanGoesOn DEF CmdOK, Applied, BoundsOK

LEMMA OnlyCmd ==
    ASSUME IInv, AllButCmd, CmdOK(cmd')
    PROVE  IInv'
  <1>1. CmdOK(cmd)'
    BY DEF AllButCmd, store, CmdOK
  <1>2. QED
    BY <1>1, Parts, PartsAgain, Frames DEF AllButCmd, Quiet, store, units

\* A command that only moves on, or reports.
LEMMA TalkKeeps ==
    ASSUME IInv, DryRun \/ SkipStep \/ UninstallDone \/ InstallNotStarted \/ InstallGoesOn
                 \/ InstallVerdict \/ Cut \/ DoctorInspect \/ DoctorService \/ DoctorListeners
                 \/ DoctorHealth
    PROVE  IInv'
  <1>1. CmdOK(cmd) /\ BoundsOK /\ StoreOK
    BY Parts
  <1>2. CASE DryRun \/ UninstallDone \/ InstallNotStarted \/ Cut \/ DoctorHealth
    BY <1>1, <1>2, OverOK, OnlyCmd
      DEF DryRun, UninstallDone, InstallNotStarted, Cut, DoctorHealth, Ends
  <1>3. CASE SkipStep
    BY <1>1, <1>3, AppliedOK, OnlyCmd DEF SkipStep, Applying
  <1>4. CASE InstallGoesOn
    <2>1. CmdOK(cmd')
      BY <1>1, <1>4 DEF InstallGoesOn, PlanDone, CmdOK, CommandPC, BoundsOK
    <2>2. QED
      BY <1>4, <2>1, OnlyCmd DEF InstallGoesOn
  <1>5. CASE InstallVerdict
    <2>1. BootstrapToken \in 0..minted
      BY <1>1, HeadTailProperties DEF StoreOK, BootstrapToken
    <2> DEFINE c == Over(IF Active(svc) THEN "running" ELSE "failed")
               n == IF Active(svc) THEN BootstrapToken ELSE 0
    <2>2. /\ CmdOK(c) /\ n \in 0..minted
          /\ cmd' = [c EXCEPT !.token = n]
      BY <1>1, <1>5, <2>1, OverOK DEF InstallVerdict, StoreOK
    <2> HIDE DEF c, n
    <2>3. CmdOK(cmd')
      BY <2>2 DEF CmdOK
    <2>4. QED
      BY <1>5, <2>3, OnlyCmd DEF InstallVerdict
  <1>6. CASE DoctorInspect
    <2>1. ~cmd.writing
      BY <1>1, <1>6 DEF DoctorInspect, CmdOK
    <2>2. PICK ports, faults : cmd' = [cmd EXCEPT !.pc = "service", !.ports = ports, !.faults = faults]
      BY <1>6 DEF DoctorInspect
    <2>3. CmdOK(cmd')
      BY <1>1, <2>1, <2>2 DEF CmdOK, CommandPC
    <2>4. QED
      BY <1>6, <2>3, OnlyCmd DEF DoctorInspect
  <1>7. CASE DoctorService \/ DoctorListeners
    <2>1. ~cmd.writing
      BY <1>1, <1>7 DEF DoctorService, DoctorListeners, CmdOK
    <2>2. PICK faults : \/ cmd' = [cmd EXCEPT !.pc = "dial", !.faults = faults]
                        \/ cmd' = [cmd EXCEPT !.pc = "health", !.faults = faults]
      BY <1>7 DEF DoctorService, DoctorListeners
    <2>3. CmdOK(cmd')
      BY <1>1, <2>1, <2>2 DEF CmdOK, CommandPC
    <2>4. QED
      BY <1>7, <2>3, OnlyCmd DEF DoctorService, DoctorListeners
  <1>8. QED
    BY <1>2, <1>3, <1>4, <1>5, <1>6, <1>7

LEMMA BeginKeeps ==
    ASSUME IInv, NEW i \in Inputs, Begin(i)
    PROVE  IInv'
  <1>1. Plan(i) \in Seq(Steps) /\ <<>> \in Seq(Steps)
    BY PlanSteps
  <1>2. First(i) \in CommandPC /\ "idle" \in CommandPC
    BY DEF First, CommandPC
  <1>3. BoundsOK /\ StoreOK
    BY Parts
  <1>a. CmdOK(Idle)
    BY <1>1, <1>2, <1>3, ServiceAssumption DEF CmdOK, StoreOK, Idle
  <1>b. PICK idle : idle = Idle /\ CmdOK(idle) /\ ~idle.writing
    BY <1>a DEF Idle
  <1>4. Refused(i) => CmdOK(cmd')
    <2>1. Refused(i) => cmd' = [idle EXCEPT !.input = i, !.result = "refused"]
      BY <1>b DEF Begin
    <2>2. CmdOK([idle EXCEPT !.input = i, !.result = "refused"])
      BY <1>b DEF CmdOK
    <2>3. QED
      BY <2>1, <2>2
  <1>5. ~Refused(i) => CmdOK(cmd')
    <2>1. ASSUME NEW pc \in CommandPC, NEW plan \in Seq(Steps)
          PROVE  CmdOK([idle EXCEPT !.input = i, !.pc = pc, !.plan = plan, !.began = edited, !.seen = edited])
      BY <1>3, <1>b DEF CmdOK, BoundsOK
    <2>2. ~Refused(i) =>
            cmd' = [idle EXCEPT !.input = i, !.pc = First(i), !.plan = Plan(i), !.began = edited, !.seen = edited]
      BY <1>b DEF Begin
    <2>3. QED
      BY <1>1, <1>2, <2>1, <2>2
  <1>6. CmdOK(cmd)'
    BY <1>4, <1>5 DEF Begin, store, CmdOK
  <1>7. BoundsOK'
    BY <1>3, ServiceAssumption DEF Begin, BoundsOK
  <1>8. QED
    BY <1>6, <1>7, Parts, PartsAgain, Frames DEF Begin, store, units

-----------------------------------------------------------------------------
(* The steps of a plan.                                                    *)

LEMMA WriteTmpKeeps ==
    ASSUME IInv, WriteTmp
    PROVE  IInv'
  <1> DEFINE s == Head(cmd.plan)
  <1>1. DiskOK /\ CmdOK(cmd) /\ BoundsOK
    BY Parts
  <1>2. cmd.plan # <<>> /\ cmd.pc = "plan" /\ s.op \in {"write", "absent"}
    BY DEF WriteTmp, WriteDue, Applying
  <1>3. s \in Steps
    BY <1>1, <1>2, PlanGoesOn DEF CmdOK
  <1>4. s.path \in Paths /\ s.mode \in Modes /\ (s.path \in Secret => s.mode = "shut")
    BY <1>2, <1>3 DEF Steps
  <1>5. /\ tmp' = [tmp EXCEPT ![s.path] = [body |-> "half", mode |-> s.mode]]
        /\ etc' = IF etc = "none" /\ s.path \in UnderEtc THEN "open" ELSE etc
        /\ files' = files
        /\ cmd' = [cmd EXCEPT !.writing = TRUE, !.seen = edited]
    BY DEF WriteTmp
  <1> HIDE DEF s
  <1>6. DiskOK'
    BY <1>1, <1>4, <1>5 DEF DiskOK, NeverHalfWritten, EnvFilesStayPrivate, Paths, Secret
  <1>7. CmdOK(cmd)'
    <2>1. CmdOK(cmd')
      BY <1>1, <1>2, <1>5 DEF CmdOK, BoundsOK, s
    <2>2. QED
      BY <2>1 DEF WriteTmp, store, CmdOK
  <1>8. QED
    BY <1>6, <1>7, Parts, PartsAgain, Frames DEF WriteTmp, Quiet, store, units

LEMMA RenameKeeps ==
    ASSUME IInv, Rename
    PROVE  IInv'
  <1> DEFINE s == Head(cmd.plan)
  <1>1. DiskOK /\ CmdOK(cmd) /\ BoundsOK
    BY Parts
  <1>2. cmd.plan # <<>> /\ s.op \in {"write", "absent"}
    BY <1>1 DEF Rename, CmdOK
  <1>3. s \in Steps
    BY <1>1, <1>2, PlanGoesOn DEF CmdOK
  <1>4. /\ s.path \in Paths /\ s.mode \in Modes /\ s.body \in Bodies \ {"half"}
        /\ s.path \in Secret => s.mode = "shut"
    BY <1>2, <1>3 DEF Steps
  <1>5. /\ files' = [files EXCEPT ![s.path] = [body |-> s.body, mode |-> s.mode]]
        /\ tmp' = [tmp EXCEPT ![s.path] = NoFile]
        /\ etc' = etc
    BY DEF Rename
  <1>6. CmdOK(cmd)'
    BY <1>1, <1>2, AppliedOK DEF Rename, store, CmdOK
  <1> HIDE DEF s
  <1>7. DiskOK'
    BY <1>1, <1>4, <1>5 DEF DiskOK, NeverHalfWritten, EnvFilesStayPrivate, Paths, Secret, NoFile, Modes
  <1>8. QED
    BY <1>6, <1>7, Parts, PartsAgain, Frames DEF Rename, Quiet, store, units

LEMMA OtherStepKeeps ==
    ASSUME IInv, Mkdir \/ Chmod \/ Remove
    PROVE  IInv'
  <1> DEFINE s == Head(cmd.plan)
  <1>1. DiskOK /\ CmdOK(cmd) /\ BoundsOK /\ StoreOK
    BY Parts
  <1>2. cmd.plan # <<>> /\ s.op \in {"mkdir", "chmod", "remove"} /\ cmd' = Applied /\ UNCHANGED minted
    BY DEF Mkdir, Chmod, Remove, Applying, store
  <1>3. s \in Steps
    BY <1>1, <1>2, PlanGoesOn DEF CmdOK
  <1>4. s.mode \in Modes /\ (s.op = "mkdir" => s.mode \in {"open", "shut"})
    BY <1>3 DEF Steps
  <1>5. CmdOK(cmd)'
    BY <1>1, <1>2, AppliedOK DEF CmdOK
  <1>6. DiskOK' /\ StoreOK'
    <2>1. CASE Mkdir
      <3>1. files' = files /\ tmp' = tmp /\ (etc' = etc \/ etc' \in {"open", "shut"})
        BY <1>4, <2>1 DEF Mkdir, Applying
      <3>2. QED
        BY <1>1, <2>1, <3>1, Frames DEF Mkdir, DiskOK, NeverHalfWritten, EnvFilesStayPrivate
    <2>2. CASE Chmod
      <3>1. /\ files' = [files EXCEPT !["config"].mode = s.mode]
            /\ UNCHANGED <<tmp, etc>>
        BY <2>2 DEF Chmod
      <3> HIDE DEF s
      <3>2. DiskOK'
        BY <1>1, <1>4, <3>1 DEF DiskOK, NeverHalfWritten, EnvFilesStayPrivate, Paths, Secret
      <3>3. QED
        BY <1>1, <2>2, <3>2, Frames DEF Chmod
    <2>3. CASE Remove
      <3>1. PICK gone : files' = [p \in Paths |-> IF p \in gone THEN NoFile ELSE files[p]]
        BY <2>3 DEF Remove
      <3>2. PICK more : tmp' = [p \in Paths |-> IF p \in more THEN NoFile ELSE tmp[p]]
        <4>1. tmp' = [p \in Paths |-> IF p \in (IF s.path = "etc" THEN UnderEtc ELSE {}) THEN NoFile ELSE tmp[p]]
          BY <2>3 DEF Remove
        <4>2. QED
          BY <4>1
      <3>3. etc' \in {etc, "none"} /\ admins' \in {{}, admins} /\ UNCHANGED <<minted, journal>>
        BY <2>3 DEF Remove
      <3>4. DiskOK'
        BY <1>1, <3>1, <3>2, <3>3 DEF DiskOK, NeverHalfWritten, EnvFilesStayPrivate, NoFile, Bodies, Modes, Paths, Secret
      <3>5. QED
        BY <1>1, <3>3, <3>4 DEF StoreOK
    <2>4. QED
      BY <2>1, <2>2, <2>3
  <1>7. QED
    BY <1>2, <1>5, <1>6, Parts, PartsAgain, Frames DEF Mkdir, Chmod, Remove, Quiet, store, units

-----------------------------------------------------------------------------
(* The service, and what happens to it.                                    *)

\* A process of the server that has just been started.
LEMMA ExecOK ==
    ASSUME SvcOK(svc), DiskOK, CmdOK(cmd), StoreOK, NEW by \in {"none", "install", "hand", "reboot"}
    PROVE  SvcOK(Exec(by))
  <1>1. files["binary"].body \in Bodies
    BY DEF DiskOK, Paths
  <1>2. cmd.seen \in 0..MaxEdits
    BY DEF CmdOK
  <1>3. QED
    BY <1>1, <1>2 DEF SvcOK, Exec

\* Steps of the command that change the service with it.
LEMMA EnableKeeps ==
    ASSUME IInv, Disable \/ InstallEnable \/ TunnelEnable
    PROVE  IInv'
  <1>1. DiskOK /\ CmdOK(cmd) /\ StoreOK /\ SvcOK(svc) /\ TunnelOK
    BY Parts
  <1>2. minted' = minted /\ 0 \in 0..minted
    BY <1>1 DEF Disable, InstallEnable, TunnelEnable, store, StoreOK
  <1>3. CmdOK(cmd)'
    <2>1. CASE Disable
      BY <1>1, <1>2, <2>1 DEF Disable, CmdOK, CommandPC
    <2>2. CASE InstallEnable
      BY <1>1, <1>2, <2>2 DEF InstallEnable, CmdOK, CommandPC
    <2>3. CASE TunnelEnable
      BY <1>1, <1>2, <2>3, OverOK DEF TunnelEnable, CmdOK
    <2>4. QED
      BY <2>1, <2>2, <2>3
  <1>4. SvcOK(svc)' /\ TunnelOK'
    <2>1. CASE Disable
      BY <1>1, <1>2, <2>1 DEF Disable, SvcOK, TunnelOK
    <2>2. CASE InstallEnable
      <3>1. PICK u : SvcOK(u) /\ svc' = [u EXCEPT !.enabled = TRUE]
        BY <1>1, <2>2, ExecOK DEF InstallEnable
      <3>2. QED
        BY <1>1, <1>2, <2>2, <3>1 DEF InstallEnable, SvcOK, TunnelOK
    <2>3. CASE TunnelEnable
      <3>1. files["tunnelEnv"].body \in Bodies
        BY <1>1 DEF DiskOK, Paths
      <3>2. QED
        BY <1>1, <1>2, <2>3, <3>1 DEF TunnelEnable, SvcOK, TunnelOK
    <2>4. QED
      BY <2>1, <2>2, <2>3
  <1>5. QED
    BY <1>3, <1>4, Parts, PartsAgain, Frames DEF Disable, InstallEnable, TunnelEnable, Quiet

\* The server runs, mints its first token, prints it, fails and is started again.
LEMMA ServerRuns ==
    ASSUME IInv, SystemNext
    PROVE  IInv'
  <1>1. DiskOK /\ CmdOK(cmd) /\ StoreOK /\ SvcOK(svc)
    BY Parts
  <1>2. CASE ServeRefuses \/ Retry \/ GiveUp
    <2>1. UNCHANGED minted
      BY <1>2 DEF ServeRefuses, Retry, GiveUp, store
    <2>2. ServeRefuses => SvcOK(svc)'
      <3>1. \A why \in {"invalid", "unreadable"} : SvcOK([svc EXCEPT !.state = "loop", !.why = why])
        BY <1>1 DEF SvcOK
      <3>2. QED
        BY <2>1, <3>1 DEF ServeRefuses, SvcOK
    <2>3. GiveUp => SvcOK(svc)'
      BY <1>1, <2>1 DEF GiveUp, SvcOK
    <2>4. Retry => SvcOK(svc)'
      <3>1. PICK u : u = Exec(svc.by) /\ SvcOK(u)
        BY <1>1, ExecOK DEF SvcOK
      <3>2. SvcOK([u EXCEPT !.since = svc.since])
        BY <1>1, <3>1 DEF SvcOK
      <3>3. QED
        BY <2>1, <3>1, <3>2 DEF Retry, SvcOK
    <2>5. SvcOK(svc)'
      BY <1>2, <2>2, <2>3, <2>4
    <2>6. QED
      BY <1>2, <2>5, Parts, PartsAgain, Frames DEF ServeRefuses, Retry, GiveUp, Quiet, store
  <1>3. CASE ServeBootstraps
    <2>1. files["config"].body \in Bodies
      BY <1>1 DEF DiskOK, Paths
    <2> DEFINE secret == IF admins = {} THEN minted + 1 ELSE 0
    <2>2. PICK needs : svc' = [svc EXCEPT !.state = "minted", !.config = files["config"].body,
                                          !.needs = needs, !.secret = secret]
      BY <1>3 DEF ServeBootstraps
    <2>3. minted' = (IF admins = {} THEN minted + 1 ELSE minted) /\ (admins = {} => minted < MaxTokens)
      BY <1>3 DEF ServeBootstraps
    <2>4. secret \in 0..minted'
      <3>1. minted \in Nat
        BY <1>1 DEF StoreOK
      <3>2. QED
        BY <2>3, <3>1
    <2> HIDE DEF secret
    <2>5. SvcOK(svc)'
      BY <1>1, <2>1, <2>2, <2>4 DEF SvcOK
    <2>6. StoreOK' /\ minted <= minted'
      <3>1. minted' \in 0..MaxTokens /\ minted <= minted'
        BY <1>1, <2>3, ServiceAssumption DEF StoreOK
      <3>2. admins' \subseteq 1..minted'
        BY <1>1, <1>3, <2>3, ServiceAssumption DEF ServeBootstraps, StoreOK
      <3>3. journal' \in Seq(1..minted')
        <4>1. 1..minted \subseteq 1..minted' /\ journal' = journal
          BY <1>1, <1>3, <3>1 DEF StoreOK, ServeBootstraps
        <4>2. QED
          BY <1>1, <4>1, SeqMonotonic DEF StoreOK
      <3>4. QED
        BY <3>1, <3>2, <3>3 DEF StoreOK
    <2>7. CmdOK(cmd)'
      BY <1>1, <1>3, <2>6 DEF ServeBootstraps, CmdOK, StoreOK
    <2>8. QED
      BY <1>3, <2>5, <2>6, <2>7, Parts, PartsAgain, Frames DEF ServeBootstraps, Quiet
  <1>4. CASE ServeListens
    <2>1. svc.secret \in 0..minted
      BY <1>1 DEF SvcOK
    <2>2. journal' \in Seq(1..minted)
      <3>1. svc.secret # 0 => svc.secret \in 1..minted
        BY <1>1, <2>1 DEF StoreOK
      <3>2. QED
        BY <1>1, <1>4, <3>1, AppendProperties DEF ServeListens, Printed, StoreOK
    <2>4. StoreOK' /\ minted' = minted /\ 0 \in 0..minted
      BY <1>1, <1>4, <2>2 DEF ServeListens, StoreOK
    <2>3. SvcOK(svc)'
      <3>1. PICK state \in {"loop", "up"}, why \in {"port", "none", "tls"} :
              svc' = [svc EXCEPT !.state = state, !.why = why, !.secret = 0]
        BY <1>4 DEF ServeListens, RunFails
      <3>2. QED
        BY <1>1, <2>4, <3>1 DEF SvcOK
    <2>5. QED
      BY <1>4, <2>3, <2>4, Parts, PartsAgain, Frames DEF ServeListens, Quiet
  <1>5. QED
    BY <1>2, <1>3, <1>4 DEF SystemNext

\* admin-token mints one.
LEMMA AdminTokenKeeps ==
    ASSUME IInv, AdminToken
    PROVE  IInv'
  <1>1. CmdOK(cmd) /\ StoreOK /\ SvcOK(svc)
    BY Parts
  <1>2. CASE UNCHANGED <<admins, minted>> /\ cmd' = Over("error")
    <2>1. CmdOK(cmd')
      BY <1>1, <1>2, OverOK
    <2>2. QED
      BY <1>2, <2>1, OnlyCmd DEF AdminToken, AllButCmd, store
  <1>3. CASE /\ minted < MaxTokens
             /\ minted' = minted + 1 /\ admins' = admins \cup {minted + 1}
             /\ cmd' = [Over("minted") EXCEPT !.token = minted + 1]
    <2>1. minted' \in 0..MaxTokens /\ minted <= minted' /\ minted + 1 \in 0..minted'
      BY <1>1, <1>3, ServiceAssumption DEF StoreOK
    <2>2. StoreOK'
      <3>1. admins' \subseteq 1..minted'
        BY <1>1, <1>3, <2>1 DEF StoreOK
      <3>2. 1..minted \subseteq 1..minted' /\ journal' = journal
        BY <1>1, <2>1 DEF StoreOK, AdminToken
      <3>3. QED
        BY <1>1, <2>1, <3>1, <3>2, SeqMonotonic DEF StoreOK
    <2>3. CmdOK(cmd)'
      <3>1. PICK c : c = Over("minted") /\ CmdOK(c)
        BY <1>1, OverOK
      <3>2. cmd' = [c EXCEPT !.token = minted + 1]
        BY <1>3, <3>1
      <3>3. QED
        BY <2>1, <3>1, <3>2 DEF CmdOK
    <2>4. SvcOK(svc)'
      BY <1>1, <2>1 DEF SvcOK, StoreOK, AdminToken, units
    <2>5. QED
      BY <2>2, <2>3, <2>4, Parts, PartsAgain, Frames DEF AdminToken, Quiet, units
  <1>4. QED
    BY <1>2, <1>3 DEF AdminToken

\* The operator edits a file, restarts or stops the service; the machine reboots.
LEMMA ByHandKeeps ==
    ASSUME IInv, Reboot \/ \E e \in Edits : Edit(e) \/ ByHand(e)
    PROVE  IInv'
  <1>1. DiskOK /\ CmdOK(cmd) /\ StoreOK /\ SvcOK(svc) /\ TunnelOK /\ BoundsOK
    BY Parts
  <1>2. BoundsOK' /\ minted' = minted /\ 0 \in 0..minted
    BY <1>1, ServiceAssumption DEF Reboot, Edit, ByHand, BoundsOK, store, StoreOK
  <1>3. ASSUME NEW e \in Edits, Edit(e)
        PROVE  IInv'
    <2>1. DiskOK'
      <3>1. EditedFiles(e) \in [Paths -> [body : Bodies \ {"half"}, mode : Modes]]
        <4> DEFINE Whole == [Paths -> [body : Bodies \ {"half"}, mode : Modes]]
        <4>1. files \in Whole
          BY <1>1 DEF DiskOK, NeverHalfWritten
        <4>2. \A q \in Paths, body \in Bodies \ {"half"} :
                [files EXCEPT ![q].body = IF @ = "none" THEN @ ELSE body] \in Whole
          BY <4>1
        <4>3. \A mode \in Modes : [files EXCEPT !["config"].mode = IF @ = "none" THEN @ ELSE mode] \in Whole
          BY <4>1 DEF Paths
        <4>4. [files EXCEPT !["config"] =
                 IF @ = NoFile /\ etc # "none" THEN [body |-> "files", mode |-> "open"] ELSE @] \in Whole
          BY <4>1 DEF Paths, Bodies, Modes
        <4>5. /\ {"env", "config"} \subseteq Paths
              /\ {"token", "blank", "secret", "broken"} \subseteq Bodies \ {"half"}
              /\ {"shut", "group"} \subseteq Modes
          BY DEF Paths, Bodies, Modes
        <4> HIDE DEF Whole
        <4>6. EditedFiles(e) \in Whole
          BY <4>1, <4>2, <4>3, <4>4, <4>5 DEF EditedFiles
        <4>7. QED
          BY <4>6 DEF Whole
      <3>2. \A p \in Secret : EditedFiles(e)[p].mode = files[p].mode
        BY <1>1 DEF EditedFiles, DiskOK, Paths, Secret
      <3>3. QED
        BY <1>1, <1>3, <3>1, <3>2 DEF Edit, DiskOK, NeverHalfWritten, EnvFilesStayPrivate, Paths, Secret
    <2>2. QED
      BY <1>2, <1>3, <2>1, Parts, PartsAgain, Frames DEF Edit, units
  <1>4. ASSUME NEW e \in Edits, ByHand(e)
        PROVE  IInv'
    <2>1. SvcOK([svc EXCEPT !.state = "off"])
      BY <1>1 DEF SvcOK
    <2>2. PICK u : SvcOK(u) /\ svc' = [u EXCEPT !.secret = 0]
      BY <1>1, <1>4, <2>1, ExecOK DEF ByHand
    <2>3. SvcOK(svc)'
      BY <1>2, <2>2 DEF SvcOK
    <2>4. QED
      BY <1>2, <1>4, <2>3, Parts, PartsAgain, Frames DEF ByHand
  <1>5. CASE Reboot
    <2>1. SvcOK([svc EXCEPT !.state = "off"])
      BY <1>1 DEF SvcOK
    <2>2. PICK u : SvcOK(u) /\ svc' = [u EXCEPT !.secret = 0]
      BY <1>1, <1>5, <2>1, ExecOK DEF Reboot
    <2>3. SvcOK(svc)'
      BY <1>2, <2>2 DEF SvcOK
    <2>4. TunnelOK'
      BY <1>1, <1>5 DEF Reboot, TunnelOK, DiskOK, Paths
    <2>5. CmdOK(cmd)'
      BY <1>1, <1>2, <1>5, OverOK DEF Reboot, CmdOK
    <2>6. QED
      BY <1>2, <1>5, <2>3, <2>4, <2>5, Parts, PartsAgain, Frames DEF Reboot
  <1>6. QED
    BY <1>3, <1>4, <1>5

-----------------------------------------------------------------------------
LEMMA InitHolds == Init => IInv
  <1> SUFFICES ASSUME Init PROVE IInv
    OBVIOUS
  <1>1. DiskOK
    <2>1. /\ NoFile \in [body : {"none", "half"}, mode : Modes]
          /\ NoFile \in [body : Bodies, mode : Modes] /\ NoFile.body # "half" /\ NoFile.mode = "none"
          /\ Legacy \in [body : Bodies, mode : Modes] /\ Legacy.body # "half"
      BY DEF NoFile, Legacy, Bodies, Modes
    <2>2. PICK m : /\ files = [p \in Paths |-> IF m = "legacy" /\ p = "config" THEN Legacy ELSE NoFile]
                   /\ etc = IF m = "legacy" THEN "open" ELSE "none"
      BY DEF Init
    <2>3. tmp = [p \in Paths |-> NoFile]
      BY DEF Init
    <2>4. QED
      BY <2>1, <2>2, <2>3 DEF DiskOK, NeverHalfWritten, EnvFilesStayPrivate, Paths, Secret
  <1>2. StoreOK /\ SvcOK(svc) /\ TunnelOK /\ BoundsOK
    BY ServiceAssumption DEF Init, StoreOK, SvcOK, TunnelOK, BoundsOK, Bodies
  <1>3. CmdOK(cmd)
    <2>1. <<>> \in Seq(Steps) /\ "idle" \in CommandPC
      BY DEF CommandPC
    <2>2. QED
      BY <2>1, ServiceAssumption DEF Init, Idle, CmdOK
  <1>4. QED
    BY <1>1, <1>2, <1>3, Parts

\* Whatever cuts the commands, every file is whole, the environment files and
\* their temporaries are root's alone, and every write under way is the one the
\* plan asks for.
THEOREM ServiceInvariance == Spec => []IInv
  <1>1. Init => IInv
    BY InitHolds
  <1>2. IInv /\ [Next]_vars => IInv'
    <2> SUFFICES ASSUME IInv, [Next]_vars PROVE IInv'
      OBVIOUS
    <2>1. CASE PlanNext
      BY <2>1, BeginKeeps, EnableKeeps, TalkKeeps, WriteTmpKeeps, RenameKeeps, OtherStepKeeps DEF PlanNext
    <2>2. CASE CommandNext \/ Cut
      BY <2>1, <2>2, EnableKeeps, TalkKeeps, AdminTokenKeeps DEF CommandNext
    <2>3. CASE UNCHANGED vars
      BY <2>3, Parts, PartsAgain, Frames DEF vars, disk, store, units
    <2>4. QED
      BY <2>1, <2>2, <2>3, ServerRuns, ByHandKeeps DEF Next
  <1>3. QED
    BY <1>1, <1>2, PTL DEF Spec

\* A command may be cut anywhere, and cut again: no file is ever half written.
THEOREM WritesAreWhole == Spec => []NeverHalfWritten
  <1>1. IInv => NeverHalfWritten
    BY DEF IInv
  <1>2. QED
    BY <1>1, ServiceInvariance, PTL

\* No environment file is open to others, nor is the temporary it passes through.
THEOREM EnvFilesArePrivate == Spec => []EnvFilesStayPrivate
  <1>1. IInv => EnvFilesStayPrivate
    BY DEF IInv
  <1>2. QED
    BY <1>1, ServiceInvariance, PTL

-----------------------------------------------------------------------------
(* The ports of a config.                                                  *)

\* The ports a server with this config needs: no environment changes them.
PortsOf(body) == NeededPorts(Inspected(Written(body), NoEnv))

LEMMA PortsOfAnyEnv ==
    ASSUME NEW body, NEW e
    PROVE  NeededPorts(Inspected(Written(body), e)) = PortsOf(body)
  <1> DEFINE u == Unmarshal(Written(body))
  <1>1. {"mode", "token", "domain", "control", "http", "https", "admin"} \subseteq DOMAIN u
    BY DEF Unmarshal, DefaultConfig
  <1> HIDE DEF u
  <1>2. ASSUME NEW f
        PROVE  NeededPorts(Normalize(ApplyEnv(u, f)))
                 = {u.control, IF u.mode = "off" THEN u.http ELSE u.https} \cup ({u.admin} \ {""})
    <2> DEFINE a == ApplyEnv(u, f)
               n == Normalize(a)
    <2>1. /\ a.control = u.control /\ a.mode = u.mode /\ a.http = u.http /\ a.https = u.https /\ a.admin = u.admin
          /\ DOMAIN a = DOMAIN u
      BY <1>1 DEF ApplyEnv
    <2> HIDE DEF a
    <2>2. /\ n.control = a.control /\ n.http = a.http /\ n.https = a.https /\ n.admin = a.admin
          /\ n.mode = IF a.mode = "" THEN "auto" ELSE a.mode
      BY <1>1, <2>1 DEF Normalize
    <2> HIDE DEF n
    <2>3. NeededPorts(n) = {u.control, IF u.mode = "off" THEN u.http ELSE u.https} \cup ({u.admin} \ {""})
      BY <2>1, <2>2 DEF NeededPorts
    <2>4. QED
      BY <2>3 DEF n, a
  <1>3. QED
    BY <1>2 DEF PortsOf, Inspected, u

\* No file that is ever written moves the API's port.
LEMMA ApiPortIsKnown ==
    ASSUME NEW body
    PROVE  "7224" \in PortsOf(body)
  <1> DEFINE u == Unmarshal(Written(body))
  <1>1. "admin" \notin DOMAIN Written(body)
    BY DEF Written, Domain
  <1>2. u.admin = "7224" /\ {"mode", "token", "domain", "admin"} \subseteq DOMAIN u
    <2>1. /\ {"mode", "token", "domain", "admin"} \subseteq DOMAIN DefaultConfig
          /\ DefaultConfig["admin"] = "7224"
      BY DEF DefaultConfig
    <2> DEFINE file == Written(body)
    <2>2. "admin" \notin DOMAIN file
      BY <1>1
    <2> HIDE DEF file
    <2>3. /\ {"mode", "token", "domain", "admin"} \subseteq DOMAIN Unmarshal(file)
          /\ Unmarshal(file)["admin"] = "7224"
      BY <2>1, <2>2 DEF Unmarshal
    <2>4. QED
      BY <2>3 DEF file
  <1> HIDE DEF u
  <1>3. Normalize(ApplyEnv(u, NoEnv)).admin = "7224"
    <2> DEFINE a == ApplyEnv(u, NoEnv)
    <2>1. a.admin = "7224" /\ DOMAIN a = DOMAIN u
      BY <1>2 DEF ApplyEnv
    <2> HIDE DEF a
    <2>2. Normalize(a).admin = "7224"
      BY <1>2, <2>1 DEF Normalize
    <2>3. QED
      BY <2>2 DEF a
  <1>4. QED
    BY <1>3 DEF PortsOf, Inspected, NeededPorts, u

-----------------------------------------------------------------------------
(* Commands and the service: what each may count on.                       *)

\* A command keeps to its plan, and has nothing to report before its end.
KeepsToPlan ==
    /\ cmd.plan \in Seq(StepsOf(cmd.input.kind))
    /\ cmd.pc # "idle" => cmd.result = "none"
    /\ cmd.pc \in {"enable", "verdict"} => cmd.plan = <<>>
    /\ cmd.pc = "disable" => cmd.input.kind = "uninstall"

\* Counts of edits lie in the past, and a process that runs under a command
\* was not started after the command last looked.
LooksBack ==
    /\ cmd.began <= edited /\ cmd.seen <= edited /\ svc.since <= edited
    /\ cmd.pc # "idle" => svc.since <= cmd.seen

\* A file being made where none was is still absent, but for an edit.
StillAbsent ==
    cmd.writing /\ Head(cmd.plan).op = "absent" /\ edited = cmd.seen => ~Exists(Head(cmd.plan).path)

\* A config only root can read is one the install has yet to come to.
ChmodDue(plan) == \E n \in 1..Len(plan) : plan[n].op = "chmod"

RepairIsDue ==
    cmd.input.kind = "install" /\ edited = cmd.began /\ files["config"].mode = "shut" =>
        /\ cmd.pc = "plan" => ChmodDue(cmd.plan)
        /\ cmd.pc \notin {"enable", "verdict"}

\* Until somebody edits, install starts what it has found servable.
EnablesServable == cmd.pc = "enable" /\ edited = cmd.seen => ~StartBlocker

\* An uninstall that removes files has stopped the service.
RemovesStopped ==
    cmd.pc = "plan" /\ cmd.input.kind = "uninstall" /\ ~cmd.input.dry => svc.state = "off"

\* doctor asks for the ports of the config it read, the API's among them.
DoctorKnows ==
    cmd.pc \in {"service", "dial", "health"} /\ cmd.ports # {} =>
        /\ "7224" \in cmd.ports
        /\ edited = cmd.seen => cmd.ports = PortsOf(files["config"].body)

\* Until somebody edits, what install started finds what install found.
ConfigServable == Exists("config") /\ Servable(Written(files["config"].body), EnvFile)
BootsServable ==
    svc.by = "install" /\ edited = svc.since /\ ~ShellStandsIn /\ svc.state \in {"boot", "minted", "loop"}
        => ConfigServable

\* A server runs on the ports of its config, which nobody else has.
ServesItsPorts ==
    /\ svc.state \in {"minted", "up"} /\ edited = svc.since
         => Exists("config") /\ svc.needs = PortsOf(files["config"].body)
    /\ svc.state = "up" => svc.needs \cap held = {}

\* Of a command that runs, of the service it meets, of the service by itself.
CmdInv  == KeepsToPlan /\ LooksBack /\ StillAbsent /\ RepairIsDue /\ InstallRepairs
MeetInv == EnablesServable /\ RemovesStopped /\ DoctorKnows
SvcInv  == BootsServable /\ ServesItsPorts /\ RefusalIsTheShells

SInv == IInv /\ CmdInv /\ MeetInv /\ SvcInv

-----------------------------------------------------------------------------
(* Facts that do not depend on the step.                                   *)

LEMMA OverFields ==
    ASSUME CmdOK(cmd), NEW result
    PROVE  LET c == Over(result)
           IN  /\ c.pc = "idle" /\ c.plan = <<>> /\ c.writing = FALSE /\ c.result = result
               /\ c.input = cmd.input /\ c.began = cmd.began /\ c.seen = cmd.seen /\ c.ports = cmd.ports
  BY DEF CmdOK, Over

LEMMA AppliedFields ==
    ASSUME CmdOK(cmd)
    PROVE  /\ Applied.pc = cmd.pc /\ Applied.plan = Tail(cmd.plan) /\ Applied.writing = FALSE
           /\ Applied.seen = edited /\ Applied.began = cmd.began
           /\ Applied.input = cmd.input /\ Applied.result = cmd.result /\ Applied.ports = cmd.ports
  BY DEF CmdOK, Applied

\* Nothing of the service's is disturbed while the config says what it said.
SameConfig ==
    /\ Exists("config")'
    /\ files'["config"].body = files["config"].body
    /\ EnvFile' = EnvFile

\* No command fills in the token that the environment file waits for.
NoNewToken == EnvFile.token = "" => EnvFile'.token = ""

LEMMA ServiceStays ==
    ASSUME SvcInv, UNCHANGED <<svc, edited, shell, held>>, NoNewToken,
           svc.state # "off" /\ edited = svc.since /\ Exists("config") => SameConfig
    PROVE  SvcInv'
  <1>1. ShellStandsIn => ShellStandsIn'
    BY DEF NoNewToken, ShellStandsIn
  <1>2. BootsServable'
    BY <1>1 DEF SvcInv, BootsServable, ConfigServable, SameConfig
  <1>3. ServesItsPorts'
    BY DEF SvcInv, ServesItsPorts, SameConfig
  <1>4. QED
    BY <1>1, <1>2, <1>3 DEF SvcInv, RefusalIsTheShells

\* Nor does what the shell stands in for change, while the files stay.
LEMMA ShellStays ==
    ASSUME UNCHANGED <<files, shell>>
    PROVE  ShellStandsIn' = ShellStandsIn
  <1>1. EnvFile' = EnvFile
    BY DEF EnvFile
  <1>2. QED
    BY <1>1 DEF ShellStandsIn

LEMMA FilesStay ==
    ASSUME UNCHANGED files
    PROVE  NoNewToken /\ (Exists("config") => SameConfig)
  BY DEF SameConfig, Exists, EnvFile, NoNewToken

\* A command ends: all it leaves is its report.
LEMMA EndsInOrder ==
    ASSUME SInv, UNCHANGED <<files, svc, edited, shell, held>>, NEW result, NEW token,
           cmd' = Over(result) \/ cmd' = [Over(result) EXCEPT !.token = token],
           cmd.input.kind = "install" /\ result \in {"running", "failed", "blocked", "unstarted"}
             => cmd.pc \in {"enable", "verdict"} \/ PlanDone
    PROVE  CmdInv' /\ MeetInv' /\ SvcInv'
  <1>1. CmdOK(cmd)
    BY Parts DEF SInv
  <1>2. /\ cmd'.pc = "idle" /\ cmd'.plan = <<>> /\ cmd'.writing = FALSE /\ cmd'.result = result
        /\ cmd'.input = cmd.input /\ cmd'.began = cmd.began /\ cmd'.seen = cmd.seen
    <2> DEFINE c == Over(result)
    <2>1. /\ c.pc = "idle" /\ c.plan = <<>> /\ c.writing = FALSE /\ c.result = result
          /\ c.input = cmd.input /\ c.began = cmd.began /\ c.seen = cmd.seen
      BY <1>1, OverFields
    <2>2. cmd' = c \/ cmd' = [c EXCEPT !.token = token]
      OBVIOUS
    <2>3. CmdOK(c)
      BY <1>1, OverOK
    <2> HIDE DEF c
    <2>4. QED
      BY <2>1, <2>2, <2>3 DEF CmdOK
  <1>3. KeepsToPlan' /\ LooksBack' /\ StillAbsent' /\ RepairIsDue'
    <2>1. <<>> \in Seq(StepsOf(cmd.input.kind))
      OBVIOUS
    <2>2. QED
      BY <1>2, <2>1 DEF SInv, CmdInv, KeepsToPlan, LooksBack, StillAbsent, RepairIsDue
  <1>4. InstallRepairs'
    <2>1. PlanDone => cmd.pc = "plan" /\ ~ChmodDue(cmd.plan)
      BY DEF PlanDone, ChmodDue
    <2>2. QED
      BY <1>2, <2>1 DEF SInv, CmdInv, RepairIsDue, InstallRepairs
  <1>5. MeetInv'
    BY <1>2 DEF MeetInv, EnablesServable, RemovesStopped, DoctorKnows
  <1>6. QED
    BY <1>3, <1>4, <1>5, FilesStay, ServiceStays DEF SInv, CmdInv

-----------------------------------------------------------------------------
(* The steps of a plan.                                                    *)

LEMMA HeadOfAKind ==
    ASSUME SInv, cmd.plan # <<>>
    PROVE  /\ Head(cmd.plan) \in StepsOf(cmd.input.kind)
           /\ Tail(cmd.plan) \in Seq(StepsOf(cmd.input.kind))
           /\ cmd.input.kind = "install" => Head(cmd.plan) \in InstallSteps
           /\ Head(cmd.plan).op = "remove" => cmd.input.kind = "uninstall"
           /\ Head(cmd.plan).op \in {"write", "absent"} /\ Head(cmd.plan).path \in {"config", "env"}
                => Head(cmd.plan) \in InstallSteps
  <1>1. /\ Head(cmd.plan) \in StepsOf(cmd.input.kind)
        /\ Tail(cmd.plan) \in Seq(StepsOf(cmd.input.kind))
    BY HeadTailProperties DEF SInv, CmdInv, KeepsToPlan
  <1>2. QED
    BY <1>1 DEF StepsOf, InstallSteps, TunnelSteps, UninstallSteps

\* A chmod that is due and is not the next step stays due.
LEMMA ChmodStaysDue ==
    ASSUME NEW S, NEW plan \in Seq(S), plan # <<>>, Head(plan).op # "chmod", ChmodDue(plan)
    PROVE  ChmodDue(Tail(plan))
  <1>1. PICK n \in 1..Len(plan) : plan[n].op = "chmod"
    BY DEF ChmodDue
  <1>2. Head(plan) = plan[1] /\ Len(plan) \in Nat
    OBVIOUS
  <1>3. n # 1
    BY <1>1, <1>2
  <1>4. /\ Len(Tail(plan)) = Len(plan) - 1
        /\ \A i \in 1..Len(Tail(plan)) : Tail(plan)[i] = plan[i + 1]
    BY HeadTailProperties
  <1>5. n - 1 \in 1..Len(Tail(plan)) /\ (n - 1) + 1 = n
    BY <1>1, <1>2, <1>3, <1>4
  <1>6. Tail(plan)[n - 1].op = "chmod"
    BY <1>1, <1>4, <1>5
  <1>7. QED
    BY <1>5, <1>6 DEF ChmodDue

\* A step is done: the command looks around again and goes on.
LEMMA StepDone ==
    ASSUME SInv, cmd' = Applied, cmd.pc = "plan", cmd.plan # <<>>, UNCHANGED <<svc, edited>>,
           cmd.input.kind = "install" /\ files'["config"].mode = "shut"
             => files["config"].mode = "shut" /\ Head(cmd.plan).op # "chmod"
    PROVE  CmdInv' /\ MeetInv'
  <1>1. CmdOK(cmd) /\ SvcOK(svc) /\ BoundsOK
    BY Parts DEF SInv
  <1>2. /\ cmd'.pc = "plan" /\ cmd'.plan = Tail(cmd.plan) /\ cmd'.writing = FALSE /\ cmd'.seen = edited
        /\ cmd'.began = cmd.began /\ cmd'.input = cmd.input /\ cmd'.result = cmd.result
    BY <1>1, AppliedFields
  <1>3. KeepsToPlan'
    BY <1>2, HeadOfAKind DEF SInv, CmdInv, KeepsToPlan
  <1>4. LooksBack' /\ StillAbsent'
    <2>1. edited <= edited
      BY <1>1 DEF BoundsOK
    <2>2. QED
      BY <1>2, <2>1 DEF SInv, CmdInv, LooksBack, StillAbsent
  <1>5. RepairIsDue'
    <2>1. SUFFICES ASSUME cmd.input.kind = "install", edited = cmd.began, files'["config"].mode = "shut"
                   PROVE  ChmodDue(Tail(cmd.plan))
      BY <1>2 DEF RepairIsDue
    <2>2. ChmodDue(cmd.plan) /\ Head(cmd.plan).op # "chmod"
      BY <2>1 DEF SInv, CmdInv, RepairIsDue
    <2>3. cmd.plan \in Seq(StepsOf(cmd.input.kind))
      BY DEF SInv, CmdInv, KeepsToPlan
    <2>4. QED
      BY <2>2, <2>3, ChmodStaysDue
  <1>6. InstallRepairs'
    BY <1>2 DEF SInv, CmdInv, KeepsToPlan, InstallRepairs
  <1>7. MeetInv'
    BY <1>2 DEF SInv, MeetInv, EnablesServable, RemovesStopped, DoctorKnows
  <1>8. QED
    BY <1>3, <1>4, <1>5, <1>6, <1>7 DEF CmdInv

\* Steps that change no file.
LEMMA IdleSteps ==
    ASSUME SInv, SkipStep \/ Mkdir
    PROVE  CmdInv' /\ MeetInv' /\ SvcInv'
  <1>1. /\ cmd' = Applied /\ cmd.pc = "plan" /\ cmd.plan # <<>> /\ Head(cmd.plan).op # "chmod"
        /\ UNCHANGED <<files, svc, held, shell, edited>>
    BY DEF SkipStep, Mkdir, Applying, AllButCmd, Quiet, disk, units
  <1>2. CmdInv' /\ MeetInv'
    BY <1>1, StepDone
  <1>3. SvcInv'
    BY <1>1, FilesStay, ServiceStays DEF SInv
  <1>4. QED
    BY <1>2, <1>3

LEMMA WriteTmpSteady ==
    ASSUME SInv, WriteTmp
    PROVE  CmdInv' /\ MeetInv' /\ SvcInv'
  <1>1. CmdOK(cmd) /\ SvcOK(svc) /\ BoundsOK
    BY Parts DEF SInv
  <1>2. /\ cmd.pc = "plan" /\ cmd' = [cmd EXCEPT !.writing = TRUE, !.seen = edited]
        /\ UNCHANGED <<files, svc, held, shell, edited>>
        /\ Head(cmd.plan).op = "absent" => ~Exists(Head(cmd.plan).path)
    BY DEF WriteTmp, WriteDue, Applying, Quiet, units
  <1>3. /\ cmd'.pc = "plan" /\ cmd'.plan = cmd.plan /\ cmd'.seen = edited
        /\ cmd'.began = cmd.began /\ cmd'.input = cmd.input /\ cmd'.result = cmd.result
    BY <1>1, <1>2 DEF CmdOK
  <1>4. KeepsToPlan' /\ RepairIsDue'
    BY <1>2, <1>3 DEF SInv, CmdInv, KeepsToPlan, RepairIsDue
  <1>5. LooksBack'
    <2>1. edited <= edited
      BY <1>1 DEF BoundsOK
    <2>2. QED
      BY <1>2, <1>3, <2>1 DEF SInv, CmdInv, LooksBack
  <1>6. StillAbsent' /\ InstallRepairs'
    BY <1>2, <1>3 DEF SInv, CmdInv, KeepsToPlan, StillAbsent, InstallRepairs, Exists
  <1>7. MeetInv'
    BY <1>2, <1>3 DEF SInv, MeetInv, EnablesServable, RemovesStopped, DoctorKnows
  <1>8. SvcInv'
    BY <1>2, FilesStay, ServiceStays DEF SInv
  <1>9. QED
    BY <1>4, <1>5, <1>6, <1>7, <1>8 DEF CmdInv

\* A write that replaces no file of the operator's.
LEMMA RenameFinds ==
    ASSUME SInv, Rename
    PROVE  LET s == Head(cmd.plan)
           IN  /\ cmd.pc = "plan" /\ cmd.plan # <<>> /\ s.op \in {"write", "absent"} /\ s.path \in Paths
               /\ s.path \in {"config", "env"} =>
                    /\ s \in InstallSteps /\ s.op = "absent"
                    /\ edited = cmd.seen => ~Exists(s.path)
  <1>1. CmdOK(cmd)
    BY Parts DEF SInv
  <1>2. cmd.writing /\ cmd.pc = "plan" /\ cmd.plan # <<>> /\ Head(cmd.plan).op \in {"write", "absent"}
    BY <1>1 DEF Rename, CmdOK
  <1>3. Head(cmd.plan) \in Steps
    BY <1>1, <1>2, PlanGoesOn DEF CmdOK
  <1>4. Head(cmd.plan).path \in Paths
    BY <1>2, <1>3 DEF Steps
  <1>5. Head(cmd.plan).path \in {"config", "env"} => Head(cmd.plan) \in InstallSteps /\ Head(cmd.plan).op = "absent"
    <2>1. Head(cmd.plan).path \in {"config", "env"} => Head(cmd.plan) \in InstallSteps
      BY <1>2, HeadOfAKind
    <2>2. QED
      BY <1>2, <2>1 DEF InstallSteps
  <1>6. Head(cmd.plan).op = "absent" /\ edited = cmd.seen => ~Exists(Head(cmd.plan).path)
    BY <1>2 DEF SInv, CmdInv, StillAbsent
  <1>7. QED
    BY <1>2, <1>4, <1>5, <1>6

LEMMA RenameSteady ==
    ASSUME SInv, Rename
    PROVE  CmdInv' /\ MeetInv' /\ SvcInv'
  <1> DEFINE s == Head(cmd.plan)
  <1>1. CmdOK(cmd) /\ SvcOK(svc) /\ BoundsOK /\ DiskOK
    BY Parts DEF SInv
  <1>2. /\ cmd' = Applied /\ UNCHANGED <<svc, held, shell, edited>>
        /\ files' = [files EXCEPT ![s.path] = [body |-> s.body, mode |-> s.mode]]
    BY DEF Rename, Quiet, units
  <1>3. /\ cmd.pc = "plan" /\ cmd.plan # <<>> /\ s.op \in {"write", "absent"} /\ s.path \in Paths
        /\ s.path \in {"config", "env"} =>
             /\ s \in InstallSteps /\ s.op = "absent"
             /\ edited = cmd.seen => ~Exists(s.path)
    BY RenameFinds
  <1>4. CmdInv' /\ MeetInv'
    <2>1. files'["config"].mode = "shut" => files["config"].mode = "shut"
      <3>1. s.path = "config" => s.mode = "open"
        BY <1>3 DEF InstallSteps
      <3> HIDE DEF s
      <3>2. QED
        BY <1>1, <1>2, <1>3, <3>1 DEF DiskOK, Paths
    <2>2. QED
      BY <1>2, <1>3, <2>1, StepDone
  <1>5. ASSUME edited = svc.since, Exists("config")
        PROVE  SameConfig
    <2>1. edited = cmd.seen
      <3>1. svc.since <= cmd.seen /\ cmd.seen <= edited
        BY <1>3 DEF SInv, CmdInv, LooksBack
      <3>2. edited \in Int /\ cmd.seen \in Int
        BY <1>1 DEF BoundsOK, CmdOK
      <3>3. QED
        BY <1>5, <3>1, <3>2
    <2>2. s.path # "config"
      BY <1>3, <1>5, <2>1
    <2>3. s.path = "env" => s.body = "blank" /\ files["env"].body = "none"
      BY <1>3, <2>1 DEF InstallSteps, Exists, NoFile
    <2> HIDE DEF s
    <2>4. files'["config"] = files["config"]
      BY <1>1, <1>2, <2>2 DEF DiskOK, Paths
    <2>5. EnvFile' = EnvFile
      <3>1. files'["env"].body = "token" <=> files["env"].body = "token"
        BY <1>1, <1>2, <2>3 DEF DiskOK, Paths
      <3>2. QED
        BY <3>1 DEF EnvFile
    <2>6. QED
      BY <1>5, <2>4, <2>5 DEF SameConfig, Exists
  <1>6. NoNewToken
    <2>1. s.path = "env" => s.body = "blank"
      BY <1>3 DEF InstallSteps
    <2> HIDE DEF s
    <2>2. files'["env"].body = "token" => files["env"].body = "token"
      BY <1>1, <1>2, <2>1 DEF DiskOK, Paths
    <2>3. QED
      BY <2>2 DEF NoNewToken, EnvFile, NoEnv
  <1>7. SvcInv'
    BY <1>2, <1>5, <1>6, ServiceStays DEF SInv
  <1>8. QED
    BY <1>4, <1>7

LEMMA ChmodSteady ==
    ASSUME SInv, Chmod
    PROVE  CmdInv' /\ MeetInv' /\ SvcInv'
  <1>1. CmdOK(cmd) /\ DiskOK
    BY Parts DEF SInv
  <1> DEFINE mode == Head(cmd.plan).mode
  <1>2. /\ cmd.pc = "plan" /\ cmd.plan # <<>> /\ Head(cmd.plan).op = "chmod" /\ cmd' = Applied
        /\ UNCHANGED <<svc, held, shell, edited>>
        /\ files' = [files EXCEPT !["config"].mode = mode]
    BY DEF Chmod, Applying, Quiet, units
  <1>3. mode = "open"
    <2>1. Head(cmd.plan) \in StepsOf(cmd.input.kind)
      BY <1>2, HeadOfAKind
    <2>2. QED
      BY <1>2, <2>1 DEF StepsOf, InstallSteps, TunnelSteps, UninstallSteps
  <1> HIDE DEF mode
  <1>4. /\ files'["config"].mode = "open" /\ files'["config"].body = files["config"].body
        /\ files'["env"] = files["env"]
    BY <1>1, <1>2, <1>3 DEF DiskOK, Paths
  <1>5. CmdInv' /\ MeetInv'
    BY <1>2, <1>4, StepDone
  <1>6. SameConfig /\ NoNewToken
    <2>1. EnvFile' = EnvFile
      BY <1>4 DEF EnvFile
    <2>2. NoNewToken
      BY <2>1 DEF NoNewToken
    <2>3. Exists("config")'
      BY <1>4 DEF Exists, NoFile
    <2>4. QED
      BY <1>4, <2>1, <2>2, <2>3 DEF SameConfig
  <1>7. SvcInv'
    BY <1>2, <1>6, ServiceStays DEF SInv
  <1>8. QED
    BY <1>5, <1>7

\* Only an uninstall removes, and it has stopped the service.
LEMMA RemoveSteady ==
    ASSUME SInv, Remove
    PROVE  CmdInv' /\ MeetInv' /\ SvcInv'
  <1>1. /\ cmd.pc = "plan" /\ ~cmd.input.dry /\ cmd.plan # <<>> /\ Head(cmd.plan).op = "remove" /\ cmd' = Applied
        /\ UNCHANGED <<svc, held, shell, edited>>
    BY DEF Remove, Applying, Quiet, units
  <1>2. cmd.input.kind = "uninstall"
    BY <1>1, HeadOfAKind
  <1>3. svc.state = "off"
    BY <1>1, <1>2 DEF SInv, MeetInv, RemovesStopped
  <1>4. CmdInv' /\ MeetInv'
    BY <1>1, <1>2, StepDone
  <1>5. NoNewToken
    <2>1. PICK gone : files' = [p \in Paths |-> IF p \in gone THEN NoFile ELSE files[p]]
      BY DEF Remove
    <2>2. files'["env"].body = "token" => files["env"].body = "token"
      BY <2>1 DEF Paths, NoFile
    <2>3. QED
      BY <2>2 DEF NoNewToken, EnvFile, NoEnv
  <1>6. SvcInv'
    BY <1>1, <1>3, <1>5, ServiceStays DEF SInv
  <1>7. QED
    BY <1>4, <1>6

-----------------------------------------------------------------------------
(* Commands begin, move on and end.                                        *)

LEMMA BeginSteady ==
    ASSUME SInv, NEW i \in Inputs, Begin(i)
    PROVE  CmdInv' /\ MeetInv' /\ SvcInv'
  <1>1. SvcOK(svc) /\ BoundsOK
    BY Parts DEF SInv
  <1>2. UNCHANGED <<files, svc, held, shell, edited>>
    BY DEF Begin, disk, units
  <1>3. SvcInv'
    BY <1>2, FilesStay, ServiceStays DEF SInv
  <1>4. edited \in Nat /\ svc.since <= edited
    BY <1>1 DEF SInv, CmdInv, LooksBack, BoundsOK
  <1>5. CASE Refused(i)
    <2>1. /\ cmd'.pc = "idle" /\ cmd'.plan = <<>> /\ cmd'.writing = FALSE /\ cmd'.result = "refused"
          /\ cmd'.began = 0 /\ cmd'.seen = 0
      BY <1>5 DEF Begin, Idle
    <2>2. <<>> \in Seq(StepsOf(cmd'.input.kind))
      OBVIOUS
    <2>3. KeepsToPlan'
      BY <2>1, <2>2 DEF KeepsToPlan
    <2>4. LooksBack'
      BY <1>2, <1>4, <2>1 DEF LooksBack
    <2>5. StillAbsent' /\ RepairIsDue' /\ InstallRepairs' /\ MeetInv'
      BY <2>1 DEF StillAbsent, RepairIsDue, InstallRepairs, MeetInv, EnablesServable, RemovesStopped, DoctorKnows
    <2>6. QED
      BY <1>3, <2>3, <2>4, <2>5 DEF CmdInv
  <1>6. CASE ~Refused(i)
    <2>1. /\ cmd'.pc = First(i) /\ cmd'.plan = Plan(i) /\ cmd'.writing = FALSE /\ cmd'.result = "none"
          /\ cmd'.began = edited /\ cmd'.seen = edited /\ cmd'.input = i
      BY <1>6 DEF Begin, Idle
    <2>2. /\ First(i) \in {"plan", "disable", "inspect", "mint"}
          /\ First(i) = "disable" => i.kind = "uninstall"
          /\ First(i) = "plan" /\ i.kind = "uninstall" => i.dry
      BY DEF First
    <2>3. KeepsToPlan'
      BY <2>1, <2>2, PlanOfAKind DEF KeepsToPlan
    <2>4. LooksBack'
      BY <1>2, <1>4, <2>1 DEF LooksBack
    <2>5. RepairIsDue'
      <3>1. ASSUME i.kind = "install", files["config"].mode = "shut"
            PROVE  ChmodDue(Plan(i))
        <4>1. Exists("config")
          BY <3>1 DEF Exists, NoFile
        <4>2. EnsureReadable.op = "chmod"
          BY <3>1, <4>1 DEF EnsureReadable, Step
        <4> DEFINE chmod == EnsureReadable
                   a == CopyBinary(i)
                   b == Step("mkdir", "etc", "none", "open")
                   c == Step("absent", "config", Rendered(i.proxy), "open")
                   e == Step("absent", "env", "blank", "shut")
                   f == Step("write", "unit", "unit", "open")
        <4>3. Plan(i) = <<a, b, c, chmod, e, f>>
          BY <3>1 DEF Plan, InstallPlan
        <4> HIDE DEF chmod, a, b, c, e, f
        <4>4. Len(Plan(i)) = 6 /\ Plan(i)[4] = chmod
          BY <4>3
        <4>5. QED
          BY <4>2, <4>4 DEF ChmodDue, chmod
      <3>2. QED
        BY <1>2, <2>1, <2>2, <3>1 DEF RepairIsDue
    <2>6. StillAbsent' /\ InstallRepairs'
      BY <2>1 DEF StillAbsent, InstallRepairs
    <2>7. MeetInv'
      BY <2>1, <2>2 DEF MeetInv, EnablesServable, RemovesStopped, DoctorKnows
    <2>8. QED
      BY <1>3, <2>3, <2>4, <2>5, <2>6, <2>7 DEF CmdInv
  <1>7. QED
    BY <1>5, <1>6

LEMMA EndSteady ==
    ASSUME SInv, DryRun \/ UninstallDone \/ InstallNotStarted \/ InstallVerdict \/ TunnelEnable
                 \/ Cut \/ DoctorHealth \/ AdminToken
    PROVE  CmdInv' /\ MeetInv' /\ SvcInv'
  <1>1. UNCHANGED <<files, svc, edited, shell, held>>
    BY DEF DryRun, UninstallDone, InstallNotStarted, InstallVerdict, TunnelEnable, Cut, DoctorHealth,
           AdminToken, Ends, AllButCmd, Quiet, disk, units
  <1>2. CASE InstallNotStarted
    <2>1. PICK result : cmd' = Over(result)
      BY <1>2 DEF InstallNotStarted, Ends
    <2>2. PlanDone
      BY <1>2 DEF InstallNotStarted
    <2>3. QED
      BY <1>1, <2>1, <2>2, EndsInOrder
  <1>3. CASE InstallVerdict
    <2>1. PICK result, token : cmd' = [Over(result) EXCEPT !.token = token]
      BY <1>3 DEF InstallVerdict
    <2>2. cmd.pc = "verdict"
      BY <1>3 DEF InstallVerdict
    <2>3. QED
      BY <1>1, <2>1, <2>2, EndsInOrder
  <1>4. CASE TunnelEnable
    <2>1. cmd' = Over("running") /\ PlanDone
      BY <1>4 DEF TunnelEnable
    <2>2. QED
      BY <1>1, <2>1, EndsInOrder
  <1>5. CASE DryRun \/ UninstallDone \/ Cut \/ DoctorHealth
    <2>1. PICK result \in {"dry", "removed", "cut", "clean", "faulty"} : cmd' = Over(result)
      BY <1>5 DEF DryRun, UninstallDone, Cut, DoctorHealth, Ends, Verdict
    <2>2. QED
      BY <1>1, <2>1, EndsInOrder
  <1>6. CASE AdminToken
    <2>1. \/ cmd' = Over("error")
          \/ cmd' = [Over("minted") EXCEPT !.token = minted + 1]
      BY <1>6 DEF AdminToken
    <2>2. QED
      BY <1>1, <2>1, EndsInOrder
  <1>7. QED
    BY <1>2, <1>3, <1>4, <1>5, <1>6

LEMMA DisableSteady ==
    ASSUME SInv, Disable
    PROVE  CmdInv' /\ MeetInv' /\ SvcInv'
  <1>1. CmdOK(cmd) /\ SvcOK(svc)
    BY Parts DEF SInv
  <1>2. cmd.input.kind = "uninstall" /\ ~cmd.writing /\ cmd.result = "none"
    BY <1>1 DEF Disable, SInv, CmdInv, KeepsToPlan, CmdOK
  <1>3. /\ cmd'.pc = "plan" /\ cmd'.plan = cmd.plan /\ cmd'.writing = cmd.writing /\ cmd'.result = cmd.result
        /\ cmd'.input = cmd.input /\ cmd'.began = cmd.began /\ cmd'.seen = cmd.seen
    BY <1>1 DEF Disable, CmdOK
  <1>4. svc'.state = "off" /\ svc'.since = svc.since /\ svc'.by = svc.by /\ svc'.why = svc.why
    BY <1>1 DEF Disable, SvcOK
  <1>5. UNCHANGED <<files, edited, shell, held>> /\ cmd.pc = "disable"
    BY DEF Disable, Quiet, disk
  <1>6. KeepsToPlan'
    BY <1>2, <1>3 DEF SInv, CmdInv, KeepsToPlan
  <1>7. LooksBack'
    BY <1>3, <1>4, <1>5 DEF SInv, CmdInv, LooksBack
  <1>8. StillAbsent' /\ RepairIsDue' /\ InstallRepairs'
    BY <1>2, <1>3 DEF StillAbsent, RepairIsDue, InstallRepairs
  <1>9. MeetInv'
    BY <1>3, <1>4 DEF MeetInv, EnablesServable, RemovesStopped, DoctorKnows
  <1>10. SvcInv'
    BY <1>4, <1>5, ShellStays DEF SInv, SvcInv, BootsServable, ServesItsPorts, RefusalIsTheShells
  <1>11. QED
    BY <1>6, <1>7, <1>8, <1>9, <1>10 DEF CmdInv

\* Install has asked startBlocker, of the files as they are.
LEMMA GoesOnSteady ==
    ASSUME SInv, InstallGoesOn
    PROVE  CmdInv' /\ MeetInv' /\ SvcInv'
  <1>1. CmdOK(cmd) /\ SvcOK(svc) /\ BoundsOK
    BY Parts DEF SInv
  <1>2. cmd.pc = "plan" /\ cmd.plan = <<>> /\ ~cmd.writing /\ ~StartBlocker
    BY <1>1 DEF InstallGoesOn, PlanDone, CmdOK
  <1>3. /\ cmd'.pc = "enable" /\ cmd'.plan = <<>> /\ cmd'.writing = FALSE /\ cmd'.result = cmd.result
        /\ cmd'.input = cmd.input /\ cmd'.began = cmd.began /\ cmd'.seen = edited
    BY <1>1, <1>2 DEF InstallGoesOn, CmdOK
  <1>4. UNCHANGED <<files, svc, edited, shell, held>>
    BY DEF InstallGoesOn, AllButCmd, Quiet, disk, units
  <1>5. KeepsToPlan'
    BY <1>2, <1>3 DEF SInv, CmdInv, KeepsToPlan
  <1>6. LooksBack'
    <2>1. edited <= edited
      BY <1>1 DEF BoundsOK
    <2>2. QED
      BY <1>3, <1>4, <2>1 DEF SInv, CmdInv, LooksBack
  <1>7. RepairIsDue'
    <2>1. ~ChmodDue(cmd.plan)
      BY <1>2 DEF ChmodDue
    <2>2. QED
      BY <1>2, <1>3, <1>4, <2>1 DEF SInv, CmdInv, RepairIsDue
  <1>8. StillAbsent' /\ InstallRepairs'
    BY <1>2, <1>3 DEF SInv, CmdInv, KeepsToPlan, StillAbsent, InstallRepairs
  <1>9. MeetInv'
    <2>1. StartBlocker' = StartBlocker
      BY <1>4 DEF StartBlocker, Exists, AppliedEnv, EnvFile
    <2>2. QED
      BY <1>2, <1>3, <2>1 DEF MeetInv, EnablesServable, RemovesStopped, DoctorKnows
  <1>10. SvcInv'
    BY <1>4, FilesStay, ServiceStays DEF SInv
  <1>11. QED
    BY <1>5, <1>6, <1>7, <1>8, <1>9, <1>10 DEF CmdInv

\* The keys that LoadConfig asks about.
ConfigKeys == {"token", "domain", "mode", "from", "to", "dataDir", "provider", "cert", "key", "delay"}

LEMMA AllKeys == ConfigKeys \subseteq DOMAIN DefaultConfig
  BY DEF ConfigKeys, DefaultConfig

\* A config does not ask which token it gets.
LEMMA AnyTokenServes ==
    ASSUME NEW file, NEW e, NEW f, e.domain = f.domain, e.token # "", f.token # "", Servable(file, e)
    PROVE  Servable(file, f)
  <1> DEFINE u == Unmarshal(file)
  <1>1. ConfigKeys \subseteq DOMAIN u
    <2>1. ConfigKeys \subseteq DOMAIN DefaultConfig
      BY AllKeys
    <2>2. DOMAIN u = DOMAIN DefaultConfig
      BY DEF Unmarshal
    <2> HIDE DEF u
    <2>3. QED
      BY <2>1, <2>2
  <1> HIDE DEF u
  <1> DEFINE a == ApplyEnv(u, e)
             b == ApplyEnv(u, f)
  <1>2. /\ a.token # "" /\ b.token # "" /\ DOMAIN a = DOMAIN u /\ DOMAIN b = DOMAIN u
        /\ a.domain = b.domain /\ a.mode = b.mode /\ a.from = b.from /\ a.to = b.to /\ a.dataDir = b.dataDir
        /\ a.provider = b.provider /\ a.cert = b.cert /\ a.key = b.key /\ a.delay = b.delay
    BY <1>1 DEF ApplyEnv, ConfigKeys
  <1>3. WellShaped(a) /\ ValidForServing(Normalize(a))
    BY DEF Servable, Readable, Inspected, u
  <1> HIDE DEF a, b
  <1>4. WellShaped(b)
    BY <1>2, <1>3 DEF WellShaped
  <1>5. ValidForServing(Normalize(b))
    <2> DEFINE m == Normalize(a)
               n == Normalize(b)
    <2>1. /\ m.mode = n.mode /\ m.provider = n.provider /\ m.cert = n.cert /\ m.key = n.key /\ m.delay = n.delay
          /\ n.token # ""
      BY <1>1, <1>2 DEF Normalize, ConfigKeys
    <2>2. ValidForServing(m)
      BY <1>3
    <2> HIDE DEF m, n
    <2>3. ValidForServing(n)
      BY <2>1, <2>2 DEF ValidForServing
    <2>4. QED
      BY <2>3 DEF n
  <1>6. QED
    BY <1>4, <1>5 DEF Servable, Readable, Inspected, u, b

\* What the unit will read is what startBlocker read, where the shell stood in
\* for nothing.
LEMMA SameQuestions ==
    ASSUME ~StartBlocker, ~ShellStandsIn
    PROVE  ConfigServable
  <1>1. AppliedEnv.domain = EnvFile.domain
    BY DEF ShellStandsIn, AppliedEnv
  <1>2. CASE shell.token = ""
    <2>1. AppliedEnv.token = EnvFile.token
      BY <1>2 DEF AppliedEnv
    <2>2. AppliedEnv = EnvFile
      BY <1>1, <2>1 DEF AppliedEnv, EnvFile, NoEnv
    <2>3. QED
      BY <2>2 DEF StartBlocker, ConfigServable
  <1>3. CASE shell.token # ""
    <2>1. AppliedEnv.token # "" /\ EnvFile.token # ""
      BY <1>3 DEF ShellStandsIn, AppliedEnv
    <2>2. QED
      BY <1>1, <2>1, AnyTokenServes DEF StartBlocker, ConfigServable
  <1>4. QED
    BY <1>2, <1>3

LEMMA ExecFields ==
    ASSUME SvcOK(svc), NEW by
    PROVE  /\ Exec(by).state = "boot" /\ Exec(by).why = "none" /\ Exec(by).by = by /\ Exec(by).since = cmd.seen
  BY DEF SvcOK, Exec

LEMMA EnableSteady ==
    ASSUME SInv, InstallEnable
    PROVE  CmdInv' /\ MeetInv' /\ SvcInv'
  <1>1. CmdOK(cmd) /\ SvcOK(svc) /\ BoundsOK /\ DiskOK /\ StoreOK
    BY Parts DEF SInv
  <1>2. cmd.pc = "enable" /\ ~cmd.writing
    BY <1>1 DEF InstallEnable, CmdOK
  <1>3. /\ cmd'.pc = "verdict" /\ cmd'.plan = cmd.plan /\ cmd'.writing = FALSE /\ cmd'.result = cmd.result
        /\ cmd'.input = cmd.input /\ cmd'.began = cmd.began /\ cmd'.seen = cmd.seen
    BY <1>1, <1>2 DEF InstallEnable, CmdOK
  <1>4. UNCHANGED <<files, edited, shell, held>>
    BY DEF InstallEnable, Quiet, disk
  <1>5. CASE Active(svc)
    <2>1. /\ svc'.state = svc.state /\ svc'.by = svc.by /\ svc'.why = svc.why /\ svc'.since = svc.since
          /\ svc'.needs = svc.needs
      BY <1>1, <1>5 DEF InstallEnable, SvcOK
    <2>2. LooksBack'
      BY <1>2, <1>3, <1>4, <2>1 DEF SInv, CmdInv, LooksBack
    <2>3. SvcInv'
      <3>1. EnvFile' = EnvFile /\ (Exists("config") => Exists("config")')
        BY <1>4 DEF EnvFile, Exists
      <3>2. BootsServable'
        BY <1>4, <2>1, <3>1, ShellStays DEF SInv, SvcInv, BootsServable, ConfigServable
      <3>3. QED
        BY <1>4, <2>1, <3>1, <3>2, ShellStays DEF SInv, SvcInv, ServesItsPorts, RefusalIsTheShells
    <2>4. QED
      BY <1>2, <1>3, <1>4, <2>2, <2>3
        DEF SInv, CmdInv, MeetInv, KeepsToPlan, StillAbsent, RepairIsDue, InstallRepairs,
            EnablesServable, RemovesStopped, DoctorKnows
  <1>6. CASE ~Active(svc)
    <2>1. PICK u : u = Exec("install") /\ SvcOK(u) /\ svc' = [u EXCEPT !.enabled = TRUE]
      BY <1>1, <1>6, ExecOK DEF InstallEnable
    <2>2. svc'.state = "boot" /\ svc'.by = "install" /\ svc'.why = "none" /\ svc'.since = cmd.seen
      <3>1. u.state = "boot" /\ u.by = "install" /\ u.why = "none" /\ u.since = cmd.seen
        BY <1>1, <2>1, ExecFields
      <3>2. QED
        BY <2>1, <3>1 DEF SvcOK
    <2>3. LooksBack'
      <3>1. cmd.seen <= cmd.seen
        BY <1>1 DEF CmdOK
      <3>2. QED
        BY <1>2, <1>3, <1>4, <2>2, <3>1 DEF SInv, CmdInv, LooksBack
    <2>4. SvcInv'
      <3>1. EnvFile' = EnvFile /\ (Exists("config") => Exists("config")')
        BY <1>4 DEF EnvFile, Exists
      <3>2. edited = cmd.seen /\ ~ShellStandsIn => ConfigServable
        BY <1>2, SameQuestions DEF SInv, MeetInv, EnablesServable
      <3>3. BootsServable'
        BY <1>4, <2>2, <3>1, <3>2, ShellStays DEF BootsServable, ConfigServable
      <3>4. QED
        BY <2>2, <3>3 DEF SvcInv, ServesItsPorts, RefusalIsTheShells
    <2>5. QED
      BY <1>2, <1>3, <1>4, <2>3, <2>4
        DEF SInv, CmdInv, MeetInv, KeepsToPlan, StillAbsent, RepairIsDue, InstallRepairs,
            EnablesServable, RemovesStopped, DoctorKnows
  <1>7. QED
    BY <1>5, <1>6

\* doctor looks at the config, the service and its ports.
LEMMA DoctorSteady ==
    ASSUME SInv, DoctorInspect \/ DoctorService \/ DoctorListeners
    PROVE  CmdInv' /\ MeetInv' /\ SvcInv'
  <1>1. CmdOK(cmd)
    BY Parts DEF SInv
  <1>2. UNCHANGED <<files, svc, edited, shell, held>>
    BY DEF DoctorInspect, DoctorService, DoctorListeners, AllButCmd, Quiet, disk, units
  <1>3. /\ cmd.pc \in {"inspect", "service", "dial"}
        /\ cmd'.pc \in {"service", "dial", "health"}
        /\ cmd'.plan = cmd.plan /\ cmd'.writing = cmd.writing /\ cmd'.result = cmd.result
        /\ cmd'.input = cmd.input /\ cmd'.began = cmd.began /\ cmd'.seen = cmd.seen
        /\ \/ cmd'.ports = cmd.ports /\ cmd.pc \in {"service", "dial"}
           \/ cmd'.ports = {}
           \/ cmd'.ports = NeededPorts(Inspected(Written(files["config"].body), DoctorEnv))
    <2>1. CASE DoctorInspect
      <3>1. PICK ports, faults :
              /\ cmd' = [cmd EXCEPT !.pc = "service", !.ports = ports, !.faults = faults]
              /\ ports = {} \/ ports = NeededPorts(Inspected(Written(files["config"].body), DoctorEnv))
        BY <2>1 DEF DoctorInspect
      <3>2. cmd.pc = "inspect"
        BY <2>1 DEF DoctorInspect
      <3>3. QED
        BY <1>1, <3>1, <3>2 DEF CmdOK
    <2>2. CASE DoctorService \/ DoctorListeners
      <3>1. PICK faults : \/ cmd' = [cmd EXCEPT !.pc = "dial", !.faults = faults]
                          \/ cmd' = [cmd EXCEPT !.pc = "health", !.faults = faults]
        BY <2>2 DEF DoctorService, DoctorListeners
      <3>2. cmd.pc \in {"service", "dial"}
        BY <2>2 DEF DoctorService, DoctorListeners
      <3>3. QED
        BY <1>1, <3>1, <3>2 DEF CmdOK
    <2>3. QED
      BY <2>1, <2>2
  <1>4. ~cmd.writing
    BY <1>1, <1>3 DEF CmdOK
  <1>5. /\ NeededPorts(Inspected(Written(files["config"].body), DoctorEnv)) = PortsOf(files["config"].body)
        /\ "7224" \in PortsOf(files["config"].body)
    BY PortsOfAnyEnv, ApiPortIsKnown
  <1>6. DoctorKnows'
    <2>1. cmd'.ports # {} =>
            "7224" \in cmd'.ports /\ (edited = cmd.seen => cmd'.ports = PortsOf(files["config"].body))
      BY <1>3, <1>5 DEF SInv, MeetInv, DoctorKnows
    <2>2. QED
      BY <1>2, <1>3, <2>1 DEF DoctorKnows
  <1>7. SvcInv'
    BY <1>2, FilesStay, ServiceStays DEF SInv
  <1>8. QED
    BY <1>2, <1>3, <1>4, <1>6, <1>7
      DEF SInv, CmdInv, MeetInv, KeepsToPlan, LooksBack, StillAbsent, RepairIsDue, InstallRepairs,
          EnablesServable, RemovesStopped

-----------------------------------------------------------------------------
(* The process of the server, and what is done by hand.                    *)

\* The command stays as it is while the service changes.
LEMMA CmdStays ==
    ASSUME SInv, UNCHANGED <<cmd, files, edited, shell>>, svc'.since = svc.since,
           svc.state = "off" => svc'.state = "off"
    PROVE  CmdInv' /\ MeetInv'
  <1>1. KeepsToPlan' /\ LooksBack' /\ RepairIsDue' /\ InstallRepairs'
    BY DEF SInv, CmdInv, KeepsToPlan, LooksBack, RepairIsDue, InstallRepairs
  <1>2. StillAbsent'
    BY DEF SInv, CmdInv, StillAbsent, Exists
  <1>3. EnablesServable'
    <2>1. StartBlocker' = StartBlocker
      BY DEF StartBlocker, Exists, AppliedEnv, EnvFile
    <2>2. QED
      BY <2>1 DEF SInv, MeetInv, EnablesServable
  <1>4. RemovesStopped' /\ DoctorKnows'
    BY DEF SInv, MeetInv, RemovesStopped, DoctorKnows
  <1>5. QED
    BY <1>1, <1>2, <1>3, <1>4 DEF CmdInv, MeetInv

LEMMA SystemSteady ==
    ASSUME SInv, SystemNext
    PROVE  CmdInv' /\ MeetInv' /\ SvcInv'
  <1>1. SvcOK(svc)
    BY Parts DEF SInv
  <1>2. UNCHANGED <<cmd, files, edited, shell, held>> /\ svc.state # "off"
    BY DEF SystemNext, ServeRefuses, ServeBootstraps, ServeListens, Retry, GiveUp, Quiet, disk
  <1>3. EnvFile' = EnvFile /\ (Exists("config") => Exists("config")')
    BY <1>2 DEF EnvFile, Exists
  <1>4. /\ svc'.since = svc.since /\ svc'.by = svc.by
        /\ SvcInv'
    <2>1. CASE ServeRefuses
      <3>1. /\ svc'.state = "loop" /\ svc'.since = svc.since /\ svc'.by = svc.by /\ svc.state = "boot"
            /\ svc'.why = IF ServerReadsConfig THEN "invalid" ELSE "unreadable"
        BY <1>1, <2>1 DEF ServeRefuses, SvcOK
      <3>2. ~(ServerReadsConfig /\ Servable(Written(files["config"].body), EnvFile))
        BY <2>1 DEF ServeRefuses
      <3>3. BootsServable' /\ RefusalIsTheShells'
        BY <1>2, <1>3, <3>1, <3>2, ShellStays DEF SInv, SvcInv, BootsServable, RefusalIsTheShells, ConfigServable
      <3>4. QED
        BY <3>1, <3>3 DEF SvcInv, ServesItsPorts
    <2>2. CASE ServeBootstraps
      <3>1. /\ svc'.state = "minted" /\ svc'.since = svc.since /\ svc'.by = svc.by /\ svc'.why = svc.why
            /\ svc'.needs = NeededPorts(Ran) /\ svc.state = "boot"
        BY <1>1, <2>2 DEF ServeBootstraps, SvcOK
      <3>2. Exists("config") /\ NeededPorts(Ran) = PortsOf(files["config"].body)
        BY <2>2, PortsOfAnyEnv DEF ServeBootstraps, ServerReadsConfig, Ran
      <3>3. BootsServable'
        BY <1>2, <1>3, <3>1, ShellStays DEF SInv, SvcInv, BootsServable, ConfigServable
      <3>4. QED
        BY <1>2, <1>3, <3>1, <3>2, <3>3, ShellStays DEF SInv, SvcInv, ServesItsPorts, RefusalIsTheShells
    <2>3. CASE ServeListens
      <3>1. /\ svc'.since = svc.since /\ svc'.by = svc.by /\ svc'.needs = svc.needs /\ svc.state = "minted"
            /\ svc'.state \in {"loop", "up"} /\ svc'.why \in {"port", "none", "tls"}
            /\ svc'.state = "up" => svc.needs \cap held = {}
        <4>1. PICK r \in RunFails :
                svc' = [svc EXCEPT !.state = IF r = "none" THEN "up" ELSE "loop", !.why = r, !.secret = 0]
          BY <2>3 DEF ServeListens
        <4>2. r \in {"none", "tls", "port"} /\ (r = "none" => svc.needs \cap held = {})
          BY <4>1 DEF RunFails
        <4>3. svc.state = "minted"
          BY <2>3 DEF ServeListens
        <4>4. QED
          BY <1>1, <4>1, <4>2, <4>3 DEF SvcOK
      <3>2. BootsServable'
        BY <1>2, <1>3, <3>1, ShellStays DEF SInv, SvcInv, BootsServable, ConfigServable
      <3>3. QED
        BY <1>2, <1>3, <3>1, <3>2, ShellStays DEF SInv, SvcInv, ServesItsPorts, RefusalIsTheShells
    <2>4. CASE Retry
      <3>1. PICK u : u = Exec(svc.by) /\ SvcOK(u) /\ svc' = [u EXCEPT !.since = svc.since]
        <4>1. DiskOK /\ CmdOK(cmd) /\ StoreOK
          BY Parts DEF SInv
        <4>2. QED
          BY <1>1, <2>4, <4>1, ExecOK DEF Retry, SvcOK
      <3>2. u.state = "boot" /\ u.by = svc.by /\ u.why = "none"
        BY <1>1, <3>1, ExecFields
      <3>3. svc'.state = "boot" /\ svc'.by = svc.by /\ svc'.why = "none" /\ svc'.since = svc.since
        BY <3>1, <3>2 DEF SvcOK
      <3>4. BootsServable'
        BY <1>2, <1>3, <2>4, <3>3, ShellStays DEF Retry, SInv, SvcInv, BootsServable, ConfigServable
      <3>5. QED
        BY <3>3, <3>4 DEF SvcInv, ServesItsPorts, RefusalIsTheShells
    <2>5. CASE GiveUp
      <3>1. svc'.state = "failed" /\ svc'.by = svc.by /\ svc'.why = svc.why /\ svc'.since = svc.since
        BY <1>1, <2>5 DEF GiveUp, SvcOK
      <3>2. QED
        BY <1>2, <3>1, ShellStays DEF SInv, SvcInv, BootsServable, ServesItsPorts, RefusalIsTheShells
    <2>6. QED
      BY <2>1, <2>2, <2>3, <2>4, <2>5 DEF SystemNext
  <1>5. QED
    BY <1>2, <1>4, CmdStays

\* An edit, a restart or a reboot: what was known of the files is a thing of
\* the past.
LEMMA EditedSteady ==
    ASSUME SInv, Reboot \/ \E e \in Edits : Edit(e) \/ ByHand(e)
    PROVE  CmdInv' /\ MeetInv' /\ SvcInv'
  <1>1. CmdOK(cmd) /\ SvcOK(svc) /\ BoundsOK /\ DiskOK /\ StoreOK
    BY Parts DEF SInv
  <1>2. /\ edited \in Nat /\ edited' = edited + 1
        /\ UNCHANGED <<held, shell>>
    BY <1>1 DEF Reboot, Edit, ByHand, BoundsOK
  <1>3. svc'.since \in {svc.since, cmd.seen}
    <2>1. CASE \E e \in Edits : Edit(e)
      BY <2>1 DEF Edit, units
    <2>2. CASE Reboot \/ \E e \in Edits : ByHand(e)
      <3>1. SvcOK([svc EXCEPT !.state = "off"]) /\ [svc EXCEPT !.state = "off"].since = svc.since
        BY <1>1 DEF SvcOK
      <3>2. \A by \in {"hand", "reboot"} : SvcOK(Exec(by)) /\ Exec(by).since = cmd.seen
        BY <1>1, ExecOK, ExecFields
      <3>3. PICK u : SvcOK(u) /\ u.since \in {svc.since, cmd.seen} /\ svc' = [u EXCEPT !.secret = 0]
        BY <2>2, <3>1, <3>2 DEF Reboot, ByHand
      <3>4. QED
        BY <3>3 DEF SvcOK
    <2>3. QED
      BY <2>1, <2>2
  <1>4. cmd.began <= edited /\ cmd.seen <= edited /\ svc.since <= edited
    BY DEF SInv, CmdInv, LooksBack
  <1>5. cmd.began \in Nat /\ cmd.seen \in Nat /\ svc.since \in Nat
    BY <1>1, ServiceAssumption DEF CmdOK, SvcOK
  <1>6. \/ /\ cmd'.pc = "idle" /\ cmd'.plan = <<>> /\ cmd'.writing = FALSE /\ cmd'.result = "cut"
           /\ cmd'.began = cmd.began /\ cmd'.seen = cmd.seen /\ cmd'.input = cmd.input
        \/ UNCHANGED cmd
    <2>1. (\E e \in Edits : Edit(e) \/ ByHand(e)) => UNCHANGED cmd
      BY DEF Edit, ByHand
    <2> DEFINE c == Over("cut")
    <2>2. Reboot => cmd' = c
      BY DEF Reboot
    <2>3. /\ c.pc = "idle" /\ c.plan = <<>> /\ c.writing = FALSE /\ c.result = "cut"
          /\ c.began = cmd.began /\ c.seen = cmd.seen /\ c.input = cmd.input
      BY <1>1, OverFields
    <2> HIDE DEF c
    <2>4. QED
      BY <2>1, <2>2, <2>3
  <1>7. cmd'.began = cmd.began /\ cmd'.seen = cmd.seen /\ cmd'.input = cmd.input
    BY <1>6
  <1>8. edited' # cmd'.began /\ edited' # cmd'.seen /\ edited' # svc'.since
    BY <1>2, <1>3, <1>4, <1>5, <1>7
  <1>9. KeepsToPlan'
    <2>1. <<>> \in Seq(StepsOf(cmd.input.kind))
      OBVIOUS
    <2>2. QED
      BY <1>6, <2>1 DEF SInv, CmdInv, KeepsToPlan
  <1>10. LooksBack'
    <2>1. cmd'.began <= edited' /\ cmd'.seen <= edited' /\ svc'.since <= edited'
      BY <1>2, <1>3, <1>4, <1>5, <1>7
    <2>2. cmd'.pc # "idle" => svc'.since <= cmd'.seen
      BY <1>3, <1>5, <1>6 DEF SInv, CmdInv, LooksBack
    <2>3. QED
      BY <2>1, <2>2 DEF LooksBack
  <1>11. StillAbsent' /\ RepairIsDue' /\ InstallRepairs'
    BY <1>8 DEF StillAbsent, RepairIsDue, InstallRepairs
  <1>12. EnablesServable' /\ DoctorKnows'
    <2>1. EnablesServable'
      BY <1>8 DEF EnablesServable
    <2>2. DoctorKnows'
      <3>1. cmd'.pc = "idle" \/ UNCHANGED cmd
        BY <1>6
      <3>2. QED
        BY <1>8, <3>1 DEF SInv, MeetInv, DoctorKnows
    <2>3. QED
      BY <2>1, <2>2
  <1>13. RemovesStopped'
    <2>1. CASE \E e \in Edits : Edit(e)
      BY <2>1 DEF Edit, units, SInv, MeetInv, RemovesStopped
    <2>2. CASE \E e \in Edits : ByHand(e)
      BY <2>2 DEF ByHand, RemovesStopped
    <2>3. CASE Reboot
      BY <1>1, <2>3, OverFields DEF Reboot, RemovesStopped
    <2>4. QED
      BY <2>1, <2>2, <2>3
  <1>14. SvcInv'
    <2>1. svc'.state = "up" => svc'.needs \cap held' = {}
      <3>1. CASE UNCHANGED svc
        BY <1>2, <3>1 DEF SInv, SvcInv, ServesItsPorts
      <3>2. CASE svc'.state \in {"off", "boot"}
        BY <3>2
      <3>3. Reboot \/ (\E e \in Edits : ByHand(e)) => svc'.state \in {"off", "boot"}
        <4>1. SvcOK([svc EXCEPT !.state = "off"]) /\ [svc EXCEPT !.state = "off"].state = "off"
          BY <1>1 DEF SvcOK
        <4>2. \A by \in {"hand", "reboot"} : SvcOK(Exec(by)) /\ Exec(by).state = "boot"
          BY <1>1, ExecOK, ExecFields
        <4>3. ASSUME Reboot \/ \E e \in Edits : ByHand(e)
              PROVE  svc'.state \in {"off", "boot"}
          <5>1. PICK u : SvcOK(u) /\ u.state \in {"off", "boot"} /\ svc' = [u EXCEPT !.secret = 0]
            BY <4>1, <4>2, <4>3 DEF Reboot, ByHand
          <5>2. QED
            BY <5>1 DEF SvcOK
        <4>4. QED
          BY <4>3
      <3>4. (\E e \in Edits : Edit(e)) => UNCHANGED svc
        BY DEF Edit, units
      <3>5. QED
        BY <3>1, <3>2, <3>3, <3>4
    <2>2. QED
      BY <1>8, <2>1 DEF SvcInv, BootsServable, ServesItsPorts, RefusalIsTheShells
  <1>15. QED
    BY <1>9, <1>10, <1>11, <1>12, <1>13, <1>14 DEF CmdInv, MeetInv

LEMMA InitSteady ==
    ASSUME Init
    PROVE  SInv
  <1>1. IInv
    BY InitHolds
  <1>2. /\ cmd.pc = "idle" /\ cmd.plan = <<>> /\ cmd.writing = FALSE /\ cmd.result = "none"
        /\ cmd.began = 0 /\ cmd.seen = 0 /\ edited = 0
        /\ svc.state = "off" /\ svc.since = 0 /\ svc.why = "none"
    BY DEF Init, Idle
  <1>3. <<>> \in Seq(StepsOf(cmd.input.kind))
    OBVIOUS
  <1>4. CmdInv
    BY <1>2, <1>3 DEF CmdInv, KeepsToPlan, LooksBack, StillAbsent, RepairIsDue, InstallRepairs
  <1>5. MeetInv /\ SvcInv
    BY <1>2 DEF MeetInv, SvcInv, EnablesServable, RemovesStopped, DoctorKnows, BootsServable,
                ServesItsPorts, RefusalIsTheShells
  <1>6. QED
    BY <1>1, <1>4, <1>5 DEF SInv

LEMMA NothingHappens ==
    ASSUME SInv, UNCHANGED vars
    PROVE  CmdInv' /\ MeetInv' /\ SvcInv'
  <1>1. UNCHANGED <<cmd, files, edited, shell, svc, held>>
    BY DEF vars, disk, units
  <1>2. QED
    BY <1>1, CmdStays, FilesStay, ServiceStays DEF SInv

\* What commands and service may count on of each other, in every reachable
\* state: whatever is cut, edited or rebooted, and in whatever order.
THEOREM ServiceSteady == Spec => []SInv
  <1>1. Init => SInv
    BY InitSteady
  <1>2. SInv /\ IInv' /\ [Next]_vars => SInv'
    <2> SUFFICES ASSUME SInv, [Next]_vars PROVE CmdInv' /\ MeetInv' /\ SvcInv'
      BY DEF SInv
    <2>1. CASE PlanNext
      BY <2>1, BeginSteady, DisableSteady, EndSteady, IdleSteps, WriteTmpSteady, RenameSteady, ChmodSteady,
         RemoveSteady DEF PlanNext
    <2>2. CASE CommandNext \/ Cut
      BY <2>1, <2>2, EndSteady, GoesOnSteady, EnableSteady, DoctorSteady DEF CommandNext
    <2>3. QED
      BY <2>1, <2>2, SystemSteady, EditedSteady, NothingHappens DEF Next
  <1>3. QED
    BY <1>1, <1>2, ServiceInvariance, PTL DEF Spec

\* What misleads startBlocker is the shell and nothing else: install and the
\* server it starts read the same files alike.
THEOREM RefusalsAreTheShells == Spec => []RefusalIsTheShells
  <1>1. SInv => RefusalIsTheShells
    BY DEF SInv, SvcInv
  <1>2. QED
    BY <1>1, ServiceSteady, PTL

\* A finished install has opened a config that only root could read.
THEOREM InstallsRepair == Spec => []InstallRepairs
  <1>1. SInv => InstallRepairs
    BY DEF SInv, CmdInv
  <1>2. QED
    BY <1>1, ServiceSteady, PTL

\* The steps that change a file.
LEMMA WhoChangesFiles ==
    ASSUME [Next]_vars
    PROVE  UNCHANGED files \/ Rename \/ Chmod \/ Remove \/ edited' = edited + 1
  <1>1. CASE PlanNext
    BY <1>1 DEF PlanNext, Begin, Disable, DryRun, SkipStep, WriteTmp, Mkdir, Ends, AllButCmd, disk
  <1>2. CASE CommandNext \/ Cut
    BY <1>1, <1>2 DEF CommandNext, UninstallDone, InstallNotStarted, InstallGoesOn, InstallEnable, InstallVerdict,
                      TunnelEnable, DoctorInspect, DoctorService, DoctorListeners, DoctorHealth,
                      AdminToken, Cut, Ends, AllButCmd, disk
  <1>3. CASE SystemNext
    BY <1>3 DEF SystemNext, ServeRefuses, ServeBootstraps, ServeListens, Retry, GiveUp, disk
  <1>4. CASE UNCHANGED vars
    BY <1>4 DEF vars, disk
  <1>5. CASE Reboot \/ \E e \in Edits : Edit(e) \/ ByHand(e)
    BY <1>5 DEF Reboot, Edit, ByHand
  <1>6. QED
    BY <1>1, <1>2, <1>3, <1>4, <1>5 DEF Next

\* Install changes no config and no credential file it finds.
THEOREM UpgradesKeepConfig == Spec => UpgradeKeepsConfig
  <1>1. ASSUME SInv, [Next]_vars, NEW p \in {"config", "env"},
               cmd.input.kind = "install", Exists(p), files'[p].body # files[p].body, edited = cmd.seen
        PROVE  edited' # edited
    <2>1. CmdOK(cmd) /\ DiskOK /\ BoundsOK
      BY <1>1, Parts DEF SInv
    <2>2. ~Rename
      <3>1. SUFFICES ASSUME Rename PROVE FALSE
        OBVIOUS
      <3> DEFINE s == Head(cmd.plan)
      <3>2. s.path # p /\ s.path \in Paths
        BY <1>1, <3>1, RenameFinds
      <3>3. files' = [files EXCEPT ![s.path] = [body |-> s.body, mode |-> s.mode]]
        BY <3>1 DEF Rename
      <3> HIDE DEF s
      <3>4. files'[p] = files[p]
        BY <2>1, <3>2, <3>3 DEF DiskOK, Paths
      <3>5. QED
        BY <1>1, <3>4
    <2>3. ~Chmod
      <3>1. SUFFICES ASSUME Chmod PROVE FALSE
        OBVIOUS
      <3> DEFINE mode == Head(cmd.plan).mode
      <3>2. files' = [files EXCEPT !["config"].mode = mode]
        BY <3>1 DEF Chmod
      <3> HIDE DEF mode
      <3>3. files'[p].body = files[p].body
        BY <2>1, <3>2 DEF DiskOK, Paths
      <3>4. QED
        BY <1>1, <3>3
    <2>4. ~Remove
      <3>1. Remove => cmd.plan # <<>> /\ Head(cmd.plan).op = "remove"
        BY DEF Remove, Applying
      <3>2. QED
        BY <1>1, <3>1, HeadOfAKind
    <2>5. edited' = edited + 1
      BY <1>1, <2>2, <2>3, <2>4, WhoChangesFiles
    <2>6. QED
      BY <2>1, <2>5 DEF BoundsOK
  <1>2. SInv /\ [Next]_vars =>
          [\A p \in {"config", "env"} :
              cmd.input.kind = "install" /\ Exists(p) /\ files'[p].body # files[p].body
                  => edited' # edited \/ edited # cmd.seen]_vars
    BY <1>1
  <1>3. QED
    BY <1>2, ServiceSteady, PTL DEF Spec, UpgradeKeepsConfig

\* Nothing but doctor's last check reports a clean machine.
LEMMA WhoReportsClean ==
    ASSUME SInv, [Next]_vars, cmd'.result = "clean", cmd.result # "clean"
    PROVE  DoctorHealth
  <1>1. CmdOK(cmd)
    BY Parts DEF SInv
  <1>2. \A result : Over(result).result = result
    BY <1>1, OverFields
  <1>3. ASSUME NEW i \in Inputs, Begin(i)
        PROVE  FALSE
    BY <1>3 DEF Begin, Idle
  <1>4. ~(Disable \/ InstallGoesOn \/ InstallEnable \/ DoctorInspect \/ DoctorService \/ DoctorListeners
          \/ WriteTmp)
    BY <1>1 DEF Disable, InstallGoesOn, InstallEnable, DoctorInspect, DoctorService, DoctorListeners,
                WriteTmp, CmdOK
  <1>5. ~(SkipStep \/ Rename \/ Mkdir \/ Chmod \/ Remove)
    BY <1>1, AppliedFields DEF SkipStep, Rename, Mkdir, Chmod, Remove
  <1>6. ~(DryRun \/ UninstallDone \/ InstallNotStarted \/ TunnelEnable \/ Cut \/ Reboot)
    BY <1>2 DEF DryRun, UninstallDone, InstallNotStarted, TunnelEnable, Cut, Reboot, Ends
  <1>7. ASSUME NEW result \in {"running", "failed", "minted"}, NEW token,
               cmd' = [Over(result) EXCEPT !.token = token]
        PROVE  FALSE
    <2> DEFINE c == Over(result)
    <2>1. CmdOK(c) /\ c.result = result
      BY <1>1, <1>2, OverOK
    <2>2. cmd' = [c EXCEPT !.token = token]
      BY <1>7
    <2> HIDE DEF c
    <2>3. cmd'.result = result
      BY <2>1, <2>2 DEF CmdOK
    <2>4. QED
      BY <2>3
  <1>8. ~InstallVerdict
    BY <1>7 DEF InstallVerdict
  <1>9. ~AdminToken
    BY <1>2, <1>7 DEF AdminToken
  <1>10. cmd' # cmd
    OBVIOUS
  <1>11. ~SystemNext /\ ~(\E e \in Edits : Edit(e) \/ ByHand(e)) /\ ~UNCHANGED vars
    BY <1>10 DEF SystemNext, ServeRefuses, ServeBootstraps, ServeListens, Retry, GiveUp, Edit, ByHand, vars
  <1>12. QED
    BY <1>3, <1>4, <1>5, <1>6, <1>8, <1>9, <1>11 DEF Next, CommandNext, PlanNext

\* Where another process has a port of the config, doctor's verdict is clean
\* only if that process has the management door as well.
THEOREM CleanDoctorsSeeNoRival == Spec => CleanDoctorSeesNoRival
  <1>1. ASSUME SInv, [Next]_vars, cmd'.result = "clean", cmd.result # "clean", edited = svc.since,
               cmd.ports \cap held # {}
        PROVE  "7224" \in held
    <2>1. SUFFICES ASSUME "7224" \notin held
                   PROVE  cmd.ports \cap held = {}
      BY <1>1
    <2>2. CmdOK(cmd) /\ BoundsOK
      BY <1>1, Parts DEF SInv
    <2>3. PICK healthy \in HealthAnswers :
            /\ cmd.pc = "health"
            /\ cmd' = Over(Verdict(cmd.faults \cup IF "7224" \in cmd.ports /\ ~healthy THEN {"health"} ELSE {}))
      BY <1>1, WhoReportsClean DEF DoctorHealth, Ends
    <2>4. \A result : Over(result).result = result
      BY <2>2, OverFields
    <2>5. "7224" \in cmd.ports => healthy
      BY <1>1, <2>3, <2>4 DEF Verdict
    <2>6. "7224" \in cmd.ports /\ (edited = cmd.seen => cmd.ports = PortsOf(files["config"].body))
      BY <1>1, <2>3 DEF SInv, MeetInv, DoctorKnows
    <2>7. svc.state = "up"
      BY <2>1, <2>3, <2>5, <2>6 DEF HealthAnswers
    <2>8. edited = cmd.seen
      <3>1. svc.since <= cmd.seen /\ cmd.seen <= edited
        BY <1>1, <2>3 DEF SInv, CmdInv, LooksBack
      <3>2. QED
        BY <1>1, <2>2, <3>1 DEF BoundsOK, CmdOK
    <2>9. svc.needs = PortsOf(files["config"].body) /\ svc.needs \cap held = {}
      BY <1>1, <2>7 DEF SInv, SvcInv, ServesItsPorts
    <2>10. QED
      BY <2>6, <2>8, <2>9
  <1>2. SInv /\ [Next]_vars =>
          [cmd'.result = "clean" /\ cmd.result # "clean" /\ edited = svc.since
             /\ cmd.ports \cap held # {} => "7224" \in held]_vars
    BY <1>1
  <1>3. QED
    BY <1>2, ServiceSteady, PTL DEF Spec, CleanDoctorSeesNoRival

=============================================================================
