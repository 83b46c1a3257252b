---------------------------- MODULE ClientConfig ----------------------------
(***************************************************************************)
(* internal/client/config.go and those who read and write its file: login  *)
(* and logout of internal/clientcli, and the tray widget (tray.go), which  *)
(* keeps a copy, saves it when something is clicked, and rereads the file  *)
(* every five seconds.  Nobody locks the file.                             *)
(*                                                                         *)
(* A command and a click are processes; so is the widget's refresh loop.   *)
(* A process takes one step from one call that others can see to the next: *)
(* a read of the file, an open, a write or a rename of Save, a section     *)
(* under ui.mu, a request to the server.  A profile or a saved tunnel is   *)
(* its name.  What a click does to the runs of tunnels is in TrayManager.  *)
(***************************************************************************)
EXTENDS Integers, FiniteSets

CONSTANTS
    Profiles,    \* names of profiles
    Tunnels,     \* names of saved tunnels
    NoName,
    Empty,       \* contents of a file: truncated,
    Garbled,     \*   or neither this nor that
    Commands,    \* bound: CLI commands ever run
    Clicks,      \* bound: clicks ever made
    Loop,
    Inodes,      \* enough of them: one per command or click and one for the path
    NoFile,
    Nobody,
    Asked,       \* what commands and clicks may be asked: [kind, name, keep]
    Envs,        \* environments: [profile, server, token]
    ProfileFlag, \* zerock-tray --profile
    FirstFiles   \* what may be on disk when all starts

Workers == Clicks \cup {Loop}
Procs == Commands \cup Workers

\* nil: the Tunnels map has not been made, as it never is on disk.
Loaded == [default : Profiles \cup {NoName}, profiles : SUBSET Profiles, tunnels : SUBSET Tunnels,
           nil : BOOLEAN]
Config == {c \in Loaded : ~c.nil}

ASSUME ClientAssumption ==
    /\ NoName \notin Profiles
    /\ Inodes # {} /\ NoFile \notin Inodes /\ Nobody \notin Clicks
    /\ Empty \notin Config /\ Garbled \notin Config /\ Empty # Garbled
    /\ NoFile \notin Config \cup {Empty, Garbled}
    /\ Loop \notin Clicks \cup Commands /\ Clicks \cap Commands = {}
    /\ FirstFiles \subseteq Config \cup {NoFile, Garbled}
    /\ \A c \in FirstFiles \cap Config : c.default \in c.profiles \cup {NoName}
    /\ Asked \subseteq [kind : {"login", "logout", "forget", "new", "select"},
                        name : Profiles \cup Tunnels \cup {NoName}, keep : BOOLEAN]
    /\ \A ask \in Asked :
          /\ ask.kind \in {"login", "select"} => ask.name \in Profiles
          /\ ask.kind \in {"forget", "new"} => ask.name \in Tunnels
    /\ ProfileFlag \in Profiles \cup {NoName}
    /\ Envs \subseteq [profile : Profiles \cup {NoName}, server : BOOLEAN, token : BOOLEAN]

VARIABLES
    env,    \* ZEROCK_PROFILE, ZEROCK_SERVER, ZEROCK_TOKEN
    disk,   \* [path, tmp : inodes or NoFile, data, version : successful renames]
    proc,   \* [Procs -> [pc, ask, mem, base, fd]]
    tray,   \* the ui: [cfg, base, profile, remote, menu, draw, shared, holder, refresh, up]
    seen    \* history: [overlap, misclick, panic]

vars == <<env, disk, proc, tray, seen>>

-----------------------------------------------------------------------------
(* Config.                                                                 *)

NewConfig == [default |-> NoName, profiles |-> {}, tunnels |-> {}, nil |-> FALSE]

OnDisk == IF disk.path = NoFile THEN NoFile ELSE disk.data[disk.path]

Readable == OnDisk \in Config \cup {NoFile}

\* LoadConfig of what can be read: no file, no Tunnels map.
LoadConfig(c) == IF c = NoFile THEN [NewConfig EXCEPT !.nil = TRUE] ELSE c

\* json.Marshal: a nil map and an empty one are left out alike.
Marshal(c) == [c EXCEPT !.nil = FALSE]

\* Config.Resolve: the first name there is, and the environment on top.
ResolveName(c, asked) ==
    CASE asked # NoName -> asked
      [] asked = NoName /\ env.profile # NoName -> env.profile
      [] asked = NoName /\ env.profile = NoName /\ c.default # NoName -> c.default
      [] OTHER -> IF Cardinality(c.profiles) = 1 THEN CHOOSE p \in c.profiles : TRUE ELSE NoName

Resolve(c, asked) ==
    LET name == ResolveName(c, asked)
    IN  [ok |-> /\ env.server \/ name \in c.profiles
                /\ env.token \/ name \in c.profiles,
         name |-> name]   \* the host's, if there is none

NoProfile == [ok |-> FALSE, name |-> NoName]

\* Mutant: login writes down what it knows, and nothing else.
Login_Afresh(c, ask) == [NewConfig EXCEPT !.profiles = {ask.name}, !.default = ask.name]

\* runLogin, once the token is verified; keep is --no-default.
Login(c, ask) ==
    [c EXCEPT !.profiles = @ \cup {ask.name},
              !.default = IF @ = NoName \/ ~ask.keep THEN ask.name ELSE @]

\* runLogout: the profile named, or the default; the only one left takes over.
LogoutName(c, ask) == IF ask.name # NoName THEN ask.name ELSE c.default

\* Mutant: a default that is gone stays the default.
Logout_KeepsDefault(c, ask) == [c EXCEPT !.profiles = @ \ {LogoutName(c, ask)}]

Logout(c, ask) ==
    LET gone == LogoutName(c, ask)
        left == c.profiles \ {gone}
    IN  [c EXCEPT !.profiles = left,
                  !.default = IF @ # gone THEN @
                              ELSE IF Cardinality(left) = 1 THEN CHOOSE p \in left : TRUE ELSE NoName]

-----------------------------------------------------------------------------
Idle == [pc |-> "idle", ask |-> [kind |-> "login", name |-> NoName, keep |-> FALSE],
         mem |-> NewConfig, base |-> 0, fd |-> NoFile]

View(c, profile, remote) ==
    [tunnels |-> c.tunnels, profiles |-> c.profiles,
     profile |-> profile, remote |-> remote]

NoView == View(NewConfig, NoProfile, NoName)

\* onReady: the first reload and render, before anything can be clicked.  A file
\* that does not parse leaves the config of newUI.
Init ==
    /\ env \in Envs
    /\ \E first \in FirstFiles :
          LET i == CHOOSE j \in Inodes : TRUE
              c == IF first = Garbled THEN NewConfig ELSE LoadConfig(first)
              p == IF first = Garbled THEN NoProfile ELSE Resolve(c, ProfileFlag)
              v == IF first = NoFile THEN 0 ELSE 1
          IN  /\ disk = [path |-> IF first = NoFile THEN NoFile ELSE i, tmp |-> NoFile,
                         data |-> [j \in Inodes |-> IF j = i /\ first # NoFile THEN first ELSE Empty],
                         version |-> v]
              /\ tray = [cfg |-> c, base |-> IF first = Garbled THEN -1 ELSE v, profile |-> p,
                         remote |-> NoName, menu |-> View(c, p, NoName),
                         draw |-> NoView, shared |-> FALSE,
                         holder |-> Nobody, refresh |-> FALSE, up |-> TRUE]
    /\ proc = [q \in Procs |-> IF q = Loop THEN [Idle EXCEPT !.pc = "poll"] ELSE Idle]
    /\ seen = [overlap |-> FALSE, misclick |-> FALSE, panic |-> FALSE]

At(q, where) == proc[q].pc = where
Becomes(q, x) == proc' = [proc EXCEPT ![q] = x]
To(q, where) == Becomes(q, [proc[q] EXCEPT !.pc = where])

\* What a call knew is gone when it returns.
Return(q, where) == Becomes(q, [Idle EXCEPT !.pc = where])

-----------------------------------------------------------------------------
(* Commands.                                                               *)

\* runLogin and runLogout read the file first; what does not parse ends them.
Begin(q) ==
    /\ At(q, "idle")
    /\ \E ask \in Asked :
          LET c == IF Readable THEN LoadConfig(OnDisk) ELSE NewConfig
              go(where, mem) ==
                  Becomes(q, [proc[q] EXCEPT !.pc = where, !.ask = ask, !.mem = mem, !.base = disk.version])
          IN  \/ ask.kind \in {"login", "logout"} /\ ~Readable /\ Return(q, "done")
              \/ ask.kind = "login" /\ Readable /\ go("verify", c)
              \/ /\ ask.kind = "logout" /\ Readable
                 /\ IF LogoutName(c, ask) \in c.profiles THEN go("save", Marshal(Logout(c, ask))) ELSE Return(q, "done")
    /\ UNCHANGED <<env, disk, tray, seen>>

\* verifyProfile asks the server, unless --no-verify.
Verify(q) ==
    /\ At(q, "verify")
    /\ \/ Becomes(q, [proc[q] EXCEPT !.pc = "save", !.mem = Marshal(Login(@, proc[q].ask))])
       \/ Return(q, "done")
    /\ UNCHANGED <<env, disk, tray, seen>>

\* A command killed where it is.
Killed(q) ==
    /\ proc[q].pc \notin {"idle", "done"}
    /\ Return(q, "done")
    /\ UNCHANGED <<env, disk, tray, seen>>

-----------------------------------------------------------------------------
(* Save.                                                                   *)

Saving(q) == proc[q].pc \in {"write", "rename"}
Unlocked == tray.holder = Nobody

\* A click's Save is over, and with it the section under ui.mu: forgetSaved and
\* newTunnel (through Manager.Start) ask for a redraw, selectProfile reloads.  A
\* copy that could not be saved is the widget's own.
Saved(q, ok) ==
    LET clicked == q \in Clicks
    IN  /\ Return(q, IF clicked /\ ok /\ proc[q].ask.kind = "select" THEN "load" ELSE "done")
        /\ tray' = IF ~clicked THEN tray
                   ELSE [tray EXCEPT !.holder = Nobody, !.base = IF ok THEN disk.version + 1 ELSE -1,
                                     !.refresh = @ \/ proc[q].ask.kind = "forget" \/ (ok /\ proc[q].ask.kind = "new")]

\* Mutant: the file is opened in place.
Open_InPlace(q) ==
    /\ At(q, "save")
    /\ LET i == IF disk.path # NoFile THEN disk.path ELSE CHOOSE j \in Inodes : TRUE
       IN  /\ disk' = [disk EXCEPT !.tmp = i, !.data = [@ EXCEPT ![i] = Empty]]
           /\ Becomes(q, [proc[q] EXCEPT !.pc = "write", !.fd = i])
    /\ seen' = [seen EXCEPT !.overlap = @ \/ \E r \in Procs \ {q} : Saving(r)]
    /\ UNCHANGED <<env, tray>>

Unused == {i \in Inodes : i # disk.path /\ \A r \in Procs : proc[r].fd # i}

\* os.WriteFile: open path.tmp, made or truncated ...
Open(q) ==
    /\ At(q, "save")
    /\ \E i \in IF disk.tmp # NoFile THEN {disk.tmp} ELSE Unused :
          /\ disk' = [disk EXCEPT !.tmp = i, !.data = [@ EXCEPT ![i] = Empty]]
          /\ Becomes(q, [proc[q] EXCEPT !.pc = "write", !.fd = i])
    /\ seen' = [seen EXCEPT !.overlap = @ \/ \E r \in Procs \ {q} : Saving(r)]
    /\ UNCHANGED <<env, tray>>

\* ... and write from its start, over what somebody else may have written.
Write(q) ==
    /\ At(q, "write")
    /\ \E c \in {proc[q].mem} \cup (IF disk.data[proc[q].fd] = Empty THEN {} ELSE {Garbled}) :
          disk' = [disk EXCEPT !.data = [@ EXCEPT ![proc[q].fd] = c]]
    /\ To(q, "rename")
    /\ UNCHANGED <<env, tray, seen>>

\* The disk is full.
WriteFails(q) ==
    /\ At(q, "write")
    /\ Saved(q, FALSE)
    /\ UNCHANGED <<env, disk, seen>>

\* os.Rename moves what is called path.tmp by now, if anything is.
Rename(q) ==
    /\ At(q, "rename")
    /\ IF disk.tmp = NoFile
       THEN Saved(q, FALSE) /\ UNCHANGED disk
       ELSE /\ Saved(q, TRUE)
            /\ disk' = [path |-> disk.tmp, tmp |-> NoFile, version |-> disk.version + 1,
                        data |-> [i \in Inodes |-> IF i = disk.path /\ \A r \in Procs : proc[r].fd # i
                                                   THEN Empty ELSE disk.data[i]]]
    /\ UNCHANGED <<env, seen>>

Save(q) == Open(q) \/ Write(q) \/ WriteFails(q) \/ Rename(q)

-----------------------------------------------------------------------------
(* Clicks.                                                                 *)

\* uniqueName.
UniqueNames(name, taken) == IF name \notin taken THEN {name} ELSE Tunnels \ taken

\* The user clicks what the menu shows, or fills in the form of newTunnel.
Click(k) ==
    /\ At(k, "idle") /\ tray.up
    /\ \E ask \in Asked :
          /\ \/ ask.kind = "forget" /\ ask.name \in tray.menu.tunnels
             \/ ask.kind = "select" /\ ask.name \in tray.menu.profiles
             \/ ask.kind = "new" /\ ask.name \in Tunnels
          /\ Becomes(k, [proc[k] EXCEPT !.pc = "act", !.ask = ask])
    /\ UNCHANGED <<env, disk, tray, seen>>

\* The copy changes under ui.mu, which Save keeps; so does what is drawn of it.
CopyBecomes(c, k) ==
    tray' = [tray EXCEPT !.cfg = c, !.holder = k,
                         !.draw = [tray.draw EXCEPT !.tunnels = IF tray.shared THEN c.tunnels ELSE @]]

Act(k) ==
    LET ask == proc[k].ask
        c == tray.cfg
        saves(d) ==
            /\ CopyBecomes(d, k)
            /\ Becomes(k, [proc[k] EXCEPT !.pc = "save", !.mem = Marshal(d), !.base = tray.base])
    IN  /\ At(k, "act") /\ Unlocked
        /\ \/ /\ ask.kind = "forget"
              /\ saves([c EXCEPT !.tunnels = @ \ {ask.name}])
              /\ UNCHANGED seen
           \/ /\ ask.kind = "select" /\ saves([c EXCEPT !.default = ask.name])
              /\ seen' = [seen EXCEPT !.misclick = @ \/ ask.name \notin c.profiles]
           \/ /\ ask.kind = "new" /\ ~c.nil
              /\ \E name \in UniqueNames(ask.name, c.tunnels) : saves([c EXCEPT !.tunnels = @ \cup {name}])
              /\ UNCHANGED seen
        /\ UNCHANGED <<env, disk>>

\* The end of the widget and of all it was doing.
Down ==
    /\ tray' = [tray EXCEPT !.up = FALSE, !.cfg = NewConfig, !.profile = NoProfile,
                            !.remote = NoName, !.menu = NoView, !.draw = NoView, !.shared = FALSE,
                            !.holder = Nobody, !.refresh = FALSE]
    /\ proc' = [q \in Procs |-> IF q \in Workers THEN [Idle EXCEPT !.pc = "done"] ELSE proc[q]]

\* A write to a nil map takes the whole widget down.
Panic(k) ==
    /\ At(k, "act") /\ Unlocked
    /\ proc[k].ask.kind = "new" /\ tray.cfg.nil
    /\ Down
    /\ seen' = [seen EXCEPT !.panic = TRUE]
    /\ UNCHANGED <<env, disk>>

\* So may a write to a map that the loop is reading without the lock: the runtime
\* stops at "concurrent map iteration and map write", if it notices.
Torn(k) ==
    /\ At(k, "act") /\ Unlocked
    /\ proc[k].ask.kind \in {"forget", "new"} /\ ~tray.cfg.nil /\ tray.shared
    /\ Down
    /\ UNCHANGED <<env, disk, seen>>

\* quit, or the end of the user's session, whatever the clicks are doing.
Quit ==
    /\ tray.up
    /\ Down
    /\ UNCHANGED <<env, disk, seen>>

-----------------------------------------------------------------------------
(* reload, pollRemote and render.                                          *)

\* reload reads the file without the lock, and keeps its copy if it cannot.
Load(q) ==
    /\ At(q, "load")
    /\ IF Readable
       THEN Becomes(q, [proc[q] EXCEPT !.pc = "assign", !.mem = LoadConfig(OnDisk), !.base = disk.version])
       ELSE To(q, "poll")
    /\ UNCHANGED <<env, disk, tray, seen>>

\* Mutant: the widget follows the profile, and nothing else of the file.
Assign_ProfileOnly(q) ==
    /\ At(q, "assign") /\ Unlocked
    /\ tray' = [tray EXCEPT !.profile = Resolve(proc[q].mem, ProfileFlag)]
    /\ To(q, "poll")
    /\ UNCHANGED <<env, disk, seen>>

Assign(q) ==
    /\ At(q, "assign") /\ Unlocked
    /\ tray' = [tray EXCEPT !.cfg = proc[q].mem, !.base = proc[q].base, !.shared = FALSE,
                            !.profile = Resolve(proc[q].mem, ProfileFlag)]
    /\ Return(q, "poll")
    /\ UNCHANGED <<env, disk, seen>>

\* Whose tunnels to ask for; none without a profile.
Poll(q) ==
    /\ At(q, "poll") /\ Unlocked
    /\ IF tray.profile.ok
       THEN Becomes(q, [proc[q] EXCEPT !.pc = "store", !.ask = [@ EXCEPT !.name = tray.profile.name]]) /\ UNCHANGED tray
       ELSE To(q, "polled") /\ tray' = [tray EXCEPT !.remote = NoName]
    /\ UNCHANGED <<env, disk, seen>>

\* The answer, or an error, up to eight seconds later.
Store(q) ==
    /\ At(q, "store") /\ Unlocked
    /\ tray' \in {[tray EXCEPT !.remote = r] : r \in {proc[q].ask.name, NoName}}
    /\ Return(q, "polled")
    /\ UNCHANGED <<env, disk, seen>>

\* A click asks for a redraw, the loop draws.
Polled(q) ==
    /\ At(q, "polled")
    /\ IF q = Loop THEN To(q, "render") /\ UNCHANGED tray
                   ELSE To(q, "done") /\ tray' = [tray EXCEPT !.refresh = TRUE]
    /\ UNCHANGED <<env, disk, seen>>

\* What render takes under ui.mu: the config is a pointer to the widget's own ...
Render ==
    /\ At(Loop, "render") /\ Unlocked
    /\ tray' = [tray EXCEPT !.draw = View(tray.cfg, tray.profile, tray.remote), !.shared = TRUE]
    /\ To(Loop, "draw")
    /\ UNCHANGED <<env, disk, seen>>

\* ... whose Tunnels map it goes through without the lock ...
DrawTunnels ==
    /\ At(Loop, "draw")
    /\ tray' = [tray EXCEPT !.menu = [tray.draw EXCEPT !.profiles = tray.menu.profiles], !.shared = FALSE]
    /\ To(Loop, "names")
    /\ UNCHANGED <<env, disk, seen>>

\* ... and whose profiles, which no click changes, it lists under ui.mu again.
DrawProfiles ==
    /\ At(Loop, "names") /\ Unlocked
    /\ tray' = [tray EXCEPT !.menu = [tray.menu EXCEPT !.profiles = tray.draw.profiles],
                            !.draw = NoView]
    /\ To(Loop, "wait")
    /\ UNCHANGED <<env, disk, seen>>

\* loop: the ticker, or a redraw somebody asked for.
Tick == At(Loop, "wait") /\ To(Loop, "load") /\ UNCHANGED <<env, disk, tray, seen>>

Redraw ==
    /\ At(Loop, "wait") /\ tray.refresh
    /\ tray' = [tray EXCEPT !.refresh = FALSE]
    /\ To(Loop, "render")
    /\ UNCHANGED <<env, disk, seen>>

Refresh(q) == Load(q) \/ Assign(q) \/ Poll(q) \/ Store(q) \/ Polled(q)

-----------------------------------------------------------------------------
CommandRuns(q) == Verify(q) \/ Save(q)
ClickRuns(k)   == Act(k) \/ Panic(k) \/ Torn(k) \/ Save(k) \/ Refresh(k)
LoopRuns       == Refresh(Loop) \/ Render \/ DrawTunnels \/ DrawProfiles \/ Tick \/ Redraw

Next ==
    \/ \E q \in Commands : Begin(q) \/ CommandRuns(q) \/ Killed(q)
    \/ \E k \in Clicks : Click(k) \/ ClickRuns(k)
    \/ LoopRuns
    \/ Quit

Spec == Init /\ [][Next]_vars

\* What has begun goes on, requests have a timeout, and the ticker ticks; nobody
\* has to click, to run a command, or to quit.
FairSpec ==
    /\ Spec
    /\ \A q \in Commands : WF_vars(CommandRuns(q))
    /\ \A k \in Clicks : WF_vars(ClickRuns(k))
    /\ WF_vars(LoopRuns) /\ WF_vars(Tick)

-----------------------------------------------------------------------------
(* Properties.                                                             *)

PCs == {"idle", "verify", "act", "save", "write", "rename", "load", "assign", "poll", "store",
        "polled", "render", "draw", "names", "wait", "done"}

Process == [pc : PCs,
            ask : [kind : {"login", "logout", "forget", "new", "select"},
                   name : Profiles \cup Tunnels \cup {NoName}, keep : BOOLEAN],
            mem : Loaded, base : Int, fd : Inodes \cup {NoFile}]

Profile == [ok : BOOLEAN, name : Profiles \cup {NoName}]

Menu == [tunnels : SUBSET Tunnels, profiles : SUBSET Profiles, profile : Profile,
         remote : Profiles \cup Tunnels \cup {NoName}]

Disk == [path : Inodes \cup {NoFile}, tmp : Inodes \cup {NoFile},
         data : [Inodes -> Config \cup {Empty, Garbled}], version : Nat]

Tray == [cfg : Loaded, base : Int, profile : Profile, remote : Profiles \cup Tunnels \cup {NoName},
         menu : Menu, draw : Menu, shared : BOOLEAN, holder : Clicks \cup {Nobody}, refresh : BOOLEAN, up : BOOLEAN]

\* The type of every variable; ui.mu is held by the click that saves, a file is
\* held open by who writes it, and only a redraw reads the config unlocked.
TypeOK ==
    /\ env \in Envs
    /\ disk \in Disk
    /\ proc \in [Procs -> Process]
    /\ tray \in Tray
    /\ seen \in [overlap : BOOLEAN, misclick : BOOLEAN, panic : BOOLEAN]
    /\ \A q \in Procs : proc[q].fd # NoFile <=> Saving(q)
    /\ \A k \in Clicks : tray.holder = k <=> At(k, "save") \/ Saving(k)
    /\ tray.shared => At(Loop, "draw")

\* "An interrupted save cannot truncate a good config": nor can a full disk, as
\* long as no two saves run at once.
InterruptedSaveKeepsConfig ==
    ~seen.overlap => \/ Readable
                     \/ OnDisk = Garbled /\ disk.version = 1

\* The default of every config, on disk, in the widget or on its way to disk, is
\* one of its profiles, unless somebody has clicked a profile that an older menu
\* still showed.
Sound(c) == c.default \in c.profiles \cup {NoName}

DefaultExists ==
    ~seen.misclick =>
        /\ \A i \in Inodes : disk.data[i] \in Config => Sound(disk.data[i])
        /\ \A q \in Procs : Sound(proc[q].mem)
        /\ Sound(tray.cfg)

\* LoadConfig returns "an empty config when none exists", and the form of a new
\* tunnel "saves the tunnel and opens it": filling it in never ends the widget at
\* the nil map.
NewTunnelSurvives == ~seen.panic

\* The widget's own copy, what its menu shows or is about to, and what is asked of it, where
\* there has never been a file.
Asks(k, kinds) == At(k, "act") /\ proc[k].ask.kind \in kinds
MenuShows ==
    \E m \in {tray.menu, tray.draw} : m.tunnels # {} \/ m.profiles # {}
ClicksOnMenu == MenuShows \/ \E k \in Clicks : Asks(k, {"forget", "select"})

\* A nil map stands for a file that was never there; and an item of the menu, or
\* a lock held, for a config that was read.
NilMeansNoFile ==
    /\ disk.path = NoFile => disk.version = 0
    /\ tray.cfg.nil => tray.base = 0 /\ tray.cfg.tunnels = {} /\ tray.cfg.profiles = {}
    /\ \A q \in Workers : At(q, "assign") =>
          IF proc[q].mem.nil
          THEN /\ q = Loop /\ proc[q].base = 0 /\ ~ClicksOnMenu
               /\ proc[q].mem.tunnels = {} /\ proc[q].mem.profiles = {}
          ELSE disk.path # NoFile
    /\ \A k \in Clicks : At(k, "load") => disk.path # NoFile
    /\ tray.up => /\ tray.cfg.nil => tray.holder = Nobody /\ ~ClicksOnMenu
                  /\ ~tray.cfg.nil => disk.path # NoFile
    /\ ~tray.up => \A q \in Workers : At(q, "done")

\* What the steps are in order for.
AsksFit ==
    \A q \in Procs :
        /\ At(q, "verify") => proc[q].ask.kind = "login" /\ proc[q].ask.name \in Profiles
        /\ At(q, "act") => proc[q].ask \in Asked
        /\ At(q, "save") \/ Saving(q) => ~proc[q].mem.nil
        /\ q \in Commands => proc[q].pc \in {"idle", "verify", "save", "write", "rename", "done"}
        /\ q = Loop => proc[q].pc \notin {"idle", "verify", "act", "save", "write", "rename"}

IInv == TypeOK /\ AsksFit /\ NilMeansNoFile /\ DefaultExists

\* A save by somebody who had read the file as it is loses nothing of it: what
\* is lost is lost to a copy from before another save.
SaveLosesNothing ==
    [][\A q \in Procs :
          (disk'.version # disk.version /\ At(q, "rename") /\ proc'[q].pc # "rename"
           /\ proc[q].base = disk.version /\ ~seen.overlap /\ OnDisk \in Config)
          => LET new == disk'.data[disk'.path]
                 ask == proc[q].ask
             IN  /\ ask.kind # "logout" => OnDisk.profiles \subseteq new.profiles
                 /\ ask.kind # "forget" => OnDisk.tunnels \subseteq new.tunnels
                 /\ ask.kind \in {"forget", "new"} => new.default = OnDisk.default]_vars

\* When commands and clicks have come to their end, the menu shows the file, the
\* profile that the file and the environment resolve to, and that profile's
\* tunnels or none.
MenuCatchesUp ==
    <>[](tray.up /\ Readable =>
            LET c == LoadConfig(OnDisk)
                p == Resolve(c, ProfileFlag)
            IN  tray.menu \in {View(c, p, r) : r \in IF p.ok THEN {p.name, NoName} ELSE {NoName}})
=============================================================================
