---------------------------- MODULE ClientProofs ----------------------------
(***************************************************************************)
(* The client's config file, for any number of commands and clicks: every  *)
(* config names a default it has, but for a click on a menu that is out of *)
(* date; and a save, cut or not, leaves a whole file in which only what    *)
(* was asked for has changed, as long as no two of them overlap.           *)
(***************************************************************************)
EXTENDS ClientConfig, TLAPS, FiniteSetTheorems

-----------------------------------------------------------------------------
(* Configs.                                                                *)

LEMMA NewConfigs ==
    /\ NewConfig \in Config /\ NewConfig \in Loaded /\ Sound(NewConfig) /\ ~NewConfig.nil
    /\ [NewConfig EXCEPT !.nil = TRUE] \in Loaded /\ Sound([NewConfig EXCEPT !.nil = TRUE])
  BY DEF NewConfig, Config, Loaded, Sound

LEMMA LoadedConfigs ==
    ASSUME NEW c \in Config \cup {NoFile}
    PROVE  LET l == LoadConfig(c)
           IN  /\ l \in Loaded
               /\ l.nil <=> c = NoFile
               /\ l.nil => l.tunnels = {} /\ l.profiles = {}
               /\ c # NoFile => l = c
               /\ c = NoFile \/ Sound(c) => Sound(l)
  BY ClientAssumption DEF LoadConfig, NewConfig, Config, Loaded, Sound

LEMMA MarshalledConfigs ==
    ASSUME NEW c \in Loaded
    PROVE  Marshal(c) \in Config /\ (Sound(c) => Sound(Marshal(c)))
  BY DEF Marshal, Config, Loaded, Sound

LEMMA LoginKeeps ==
    ASSUME NEW c \in Loaded, NEW ask, ask.name \in Profiles
    PROVE  Login(c, ask) \in Loaded /\ (Sound(c) => Sound(Login(c, ask)))
  BY DEF Login, Loaded, Sound

\* The only element of a set that has one.
LEMMA OnlyOne ==
    ASSUME NEW S, Cardinality(S) = 1
    PROVE  (CHOOSE x \in S : TRUE) \in S
  <1>1. S # {}
    BY FS_EmptySet
  <1>2. QED
    BY <1>1

LEMMA LogoutKeeps ==
    ASSUME NEW c \in Loaded, NEW ask
    PROVE  Logout(c, ask) \in Loaded /\ (Sound(c) => Sound(Logout(c, ask)))
  <1> DEFINE gone == LogoutName(c, ask)
             left == c.profiles \ {gone}
             next == IF c.default # gone THEN c.default
                     ELSE IF Cardinality(left) = 1 THEN CHOOSE p \in left : TRUE ELSE NoName
  <1>1. left \subseteq Profiles /\ c.default \in Profiles \cup {NoName}
    BY DEF Loaded
  <1>2. next \in Profiles \cup {NoName}
    BY <1>1, OnlyOne
  <1>3. Sound(c) => next \in left \cup {NoName}
    BY OnlyOne DEF Sound
  <1>4. Logout(c, ask) = [c EXCEPT !.profiles = left, !.default = next]
    BY DEF Logout
  <1> HIDE DEF left, next
  <1>5. QED
    BY <1>1, <1>2, <1>3, <1>4 DEF Loaded, Sound

LEMMA ResolvedProfiles ==
    ASSUME env \in Envs, NEW c \in Loaded
    PROVE  Resolve(c, ProfileFlag) \in Profile
  <1>1. env.profile \in Profiles \cup {NoName} /\ env.server \in BOOLEAN /\ env.token \in BOOLEAN
    BY ClientAssumption
  <1>2. c.default \in Profiles \cup {NoName} /\ c.profiles \subseteq Profiles
    BY DEF Loaded
  <1>3. ResolveName(c, ProfileFlag) \in Profiles \cup {NoName}
    BY <1>1, <1>2, OnlyOne, ClientAssumption DEF ResolveName
  <1>4. QED
    BY <1>1, <1>3 DEF Resolve, Profile

LEMMA Views ==
    ASSUME NEW c \in Loaded, NEW p \in Profile, NEW r \in Profiles \cup Tunnels \cup {NoName}
    PROVE  /\ View(c, p, r) \in Menu
           /\ View(c, p, r).tunnels = c.tunnels /\ View(c, p, r).profiles = c.profiles
  BY DEF View, Menu, Loaded

LEMMA MenuParts ==
    ASSUME NEW m \in Menu
    PROVE  /\ m.tunnels \in SUBSET Tunnels /\ m.profiles \in SUBSET Profiles
           /\ \A ts \in SUBSET Tunnels :
                 LET n == [m EXCEPT !.tunnels = ts]
                 IN  n \in Menu /\ n.tunnels = ts /\ n.profiles = m.profiles
           /\ \A ps \in SUBSET Profiles :
                 LET n == [m EXCEPT !.profiles = ps]
                 IN  n \in Menu /\ n.profiles = ps /\ n.tunnels = m.tunnels
           /\ m = [m EXCEPT !.tunnels = m.tunnels]
  BY DEF Menu

LEMMA IdleIsProcess ==
    /\ Idle \in Process /\ Idle.pc = "idle" /\ Idle.mem = NewConfig /\ Idle.fd = NoFile /\ Idle.base = 0
    /\ \A where \in PCs :
          LET x == [Idle EXCEPT !.pc = where]
          IN  x \in Process /\ x.pc = where /\ x.mem = NewConfig /\ x.fd = NoFile /\ x.base = 0
  <1>1. /\ Idle \in Process /\ Idle.pc = "idle" /\ Idle.mem = NewConfig /\ Idle.fd = NoFile
        /\ Idle.base = 0
    BY NewConfigs DEF Idle, Process, PCs
  <1>2. PICK idle \in Process : idle = Idle
    BY <1>1
  <1>3. ASSUME NEW where \in PCs
        PROVE  LET x == [idle EXCEPT !.pc = where]
               IN  x \in Process /\ x.pc = where /\ x.mem = idle.mem /\ x.fd = idle.fd /\ x.base = idle.base
    BY DEF Process
  <1>4. QED
    BY <1>1, <1>2, <1>3

-----------------------------------------------------------------------------
(* One process moves.                                                      *)

LEMMA Moves ==
    ASSUME TypeOK, NEW q \in Procs, NEW x \in Process, Becomes(q, x)
    PROVE  /\ proc' \in [Procs -> Process]
           /\ proc'[q] = x
           /\ \A r \in Procs \ {q} : proc'[r] = proc[r]
  BY DEF TypeOK, Becomes

\* What is on disk.
LEMMA DiskReads ==
    ASSUME IInv
    PROVE  /\ OnDisk \in Config \cup {Empty, Garbled, NoFile}
           /\ OnDisk = NoFile <=> disk.path = NoFile
           /\ ~seen.misclick /\ OnDisk \in Config => Sound(OnDisk)
  BY ClientAssumption DEF IInv, TypeOK, Disk, OnDisk, DefaultExists

\* What is read, if it can be.
LEMMA DiskLoads ==
    ASSUME IInv, Readable
    PROVE  LET l == LoadConfig(OnDisk)
           IN  /\ l \in Loaded
               /\ l.nil <=> disk.path = NoFile
               /\ l.nil => l.tunnels = {} /\ l.profiles = {}
               /\ ~seen.misclick => Sound(l)
  BY DiskReads, LoadedConfigs DEF Readable

-----------------------------------------------------------------------------
(* Commands.                                                               *)

LEMMA BeginMoves ==
    ASSUME IInv, NEW q \in Commands, Begin(q)
    PROVE  \E x \in Process :
              /\ Becomes(q, x)
              /\ x.pc \in {"done", "verify", "save"} /\ x.fd = NoFile
              /\ x.pc = "verify" => x.ask.kind = "login" /\ x.ask.name \in Profiles
              /\ x.pc = "save" => ~x.mem.nil
              /\ ~seen.misclick => Sound(x.mem)
  <1> USE ClientAssumption DEF Procs
  <1>1. PICK old \in Process : old = proc[q] /\ old.fd = NoFile
    BY DEF IInv, TypeOK, Begin, At, Saving
  <1>2. PICK ask \in Asked :
          LET c == IF Readable THEN LoadConfig(OnDisk) ELSE NewConfig
          IN  \/ Return(q, "done")
              \/ /\ ask.kind = "login" /\ Readable
                 /\ Becomes(q, [old EXCEPT !.pc = "verify", !.ask = ask, !.mem = c, !.base = disk.version])
              \/ /\ Readable
                 /\ Becomes(q, [old EXCEPT !.pc = "save", !.ask = ask, !.mem = Marshal(Logout(c, ask)),
                                           !.base = disk.version])
    BY <1>1 DEF Begin
  <1>3. CASE Return(q, "done")
    <2>1. "done" \in PCs
      BY DEF PCs
    <2>2. QED
      BY <1>3, <2>1, IdleIsProcess, NewConfigs DEF Return
  <1>4. ASSUME Readable, NEW w \in {"verify", "save"}, NEW c \in Loaded,
               w = "verify" => ask.kind = "login", w = "save" => ~c.nil,
               ~seen.misclick => Sound(c),
               Becomes(q, [old EXCEPT !.pc = w, !.ask = ask, !.mem = c, !.base = disk.version])
        PROVE  \E x \in Process :
                  /\ Becomes(q, x)
                  /\ x.pc \in {"done", "verify", "save"} /\ x.fd = NoFile
                  /\ x.pc = "verify" => x.ask.kind = "login" /\ x.ask.name \in Profiles
                  /\ x.pc = "save" => ~x.mem.nil
                  /\ ~seen.misclick => Sound(x.mem)
    <2> DEFINE x == [old EXCEPT !.pc = w, !.ask = ask, !.mem = c, !.base = disk.version]
    <2>1. disk.version \in Int
      BY DEF IInv, TypeOK, Disk
    <2>2. x \in Process /\ x.pc = w /\ x.ask = ask /\ x.mem = c /\ x.fd = old.fd
      BY <2>1 DEF Process, PCs
    <2>3. Becomes(q, x)
      BY <1>4
    <2> HIDE DEF x
    <2>4. QED
      BY <1>1, <1>4, <2>2, <2>3
  <1>5. ASSUME Readable
        PROVE  /\ LoadConfig(OnDisk) \in Loaded /\ (~seen.misclick => Sound(LoadConfig(OnDisk)))
               /\ Marshal(Logout(LoadConfig(OnDisk), ask)) \in Loaded
               /\ ~Marshal(Logout(LoadConfig(OnDisk), ask)).nil
               /\ ~seen.misclick => Sound(Marshal(Logout(LoadConfig(OnDisk), ask)))
    BY <1>5, DiskLoads, LogoutKeeps, MarshalledConfigs DEF Config
  <1>6. QED
    BY <1>2, <1>3, <1>4, <1>5

\* A command that starts.
LEMMA BeginKeeps ==
    ASSUME IInv, NEW q \in Commands, Begin(q)
    PROVE  IInv'
  <1> USE ClientAssumption DEF Procs, Workers
  <1>1. TypeOK /\ At(q, "idle") /\ UNCHANGED <<env, disk, tray, seen>>
    BY DEF IInv, Begin
  <1>2. PICK x \in Process :
          /\ Becomes(q, x)
          /\ x.pc \in {"done", "verify", "save"} /\ x.fd = NoFile
          /\ x.pc = "verify" => x.ask.kind = "login" /\ x.ask.name \in Profiles
          /\ x.pc = "save" => ~x.mem.nil
          /\ ~seen.misclick => Sound(x.mem)
    BY BeginMoves
  <1>3. /\ proc' \in [Procs -> Process]
        /\ proc'[q] = x
        /\ \A r \in Procs \ {q} : proc'[r] = proc[r]
    BY <1>1, <1>2, Moves
  <1>4. TypeOK'
    BY <1>1, <1>2, <1>3 DEF TypeOK, Saving, At
  <1>5. AsksFit'
    BY <1>1, <1>2, <1>3 DEF IInv, AsksFit, At, Saving
  <1>6. NilMeansNoFile'
    BY <1>1, <1>2, <1>3 DEF IInv, NilMeansNoFile, AsksFit, ClicksOnMenu, Asks, MenuShows, At
  <1>7. DefaultExists'
    BY <1>1, <1>2, <1>3 DEF IInv, DefaultExists
  <1>8. QED
    BY <1>1, <1>4, <1>5, <1>6, <1>7 DEF IInv

\* The server answers; or the command is killed.
LEMMA CommandKeeps ==
    ASSUME IInv, NEW q \in Commands, Verify(q) \/ Killed(q)
    PROVE  IInv'
  <1> USE ClientAssumption DEF Procs, Workers
  <1>1. TypeOK /\ UNCHANGED <<env, disk, tray, seen>>
    BY DEF IInv, Verify, Killed
  <1>2. PICK x \in Process :
          /\ Becomes(q, x)
          /\ x.pc \in {"done", "save"} /\ x.fd = NoFile
          /\ x.pc = "save" => ~x.mem.nil
          /\ ~seen.misclick => Sound(x.mem)
    <2>1. CASE Return(q, "done")
      <3>1. "done" \in PCs
        BY DEF PCs
      <3>2. QED
        BY <2>1, <3>1, IdleIsProcess, NewConfigs DEF Return
    <2>2. CASE At(q, "verify") /\ Becomes(q, [proc[q] EXCEPT !.pc = "save", !.mem = Marshal(Login(@, proc[q].ask))])
      <3>1. PICK old \in Process : /\ old = proc[q] /\ old.fd = NoFile /\ old.ask.name \in Profiles
                                   /\ ~seen.misclick => Sound(old.mem)
        BY <2>2 DEF IInv, TypeOK, At, Saving, AsksFit, DefaultExists
      <3>2. PICK c \in Loaded : /\ c = Marshal(Login(old.mem, old.ask)) /\ ~c.nil
                                /\ ~seen.misclick => Sound(c)
        <4>1. old.mem \in Loaded
          BY DEF Process
        <4>2. QED
          BY <3>1, <4>1, LoginKeeps, MarshalledConfigs DEF Config
      <3> DEFINE x == [old EXCEPT !.pc = "save", !.mem = c]
      <3>3. x \in Process /\ x.pc = "save" /\ x.mem = c /\ x.fd = old.fd
        BY DEF Process, PCs
      <3>4. Becomes(q, x)
        BY <2>2, <3>1, <3>2
      <3> HIDE DEF x
      <3>5. QED
        BY <3>1, <3>2, <3>3, <3>4
    <2>3. QED
      BY <2>1, <2>2 DEF Verify, Killed
  <1>3. /\ proc' \in [Procs -> Process]
        /\ proc'[q] = x
        /\ \A r \in Procs \ {q} : proc'[r] = proc[r]
    BY <1>1, <1>2, Moves
  <1>4. TypeOK'
    BY <1>1, <1>2, <1>3 DEF TypeOK, Saving, At
  <1>5. AsksFit'
    BY <1>1, <1>2, <1>3 DEF IInv, AsksFit, At, Saving
  <1>6. NilMeansNoFile'
    BY <1>1, <1>2, <1>3 DEF IInv, NilMeansNoFile, AsksFit, ClicksOnMenu, Asks, MenuShows, At
  <1>7. DefaultExists'
    BY <1>1, <1>2, <1>3 DEF IInv, DefaultExists
  <1>8. QED
    BY <1>1, <1>4, <1>5, <1>6, <1>7 DEF IInv

-----------------------------------------------------------------------------
(* Save.                                                                   *)

\* Open and Write touch the disk, and no more.
LEMMA FileKeeps ==
    ASSUME IInv, NEW q \in Commands \cup Clicks, Open(q) \/ Write(q)
    PROVE  IInv'
  <1> USE ClientAssumption DEF Procs, Workers
  <1>1. TypeOK /\ UNCHANGED <<env, tray>> /\ seen'.misclick = seen.misclick /\ seen'.panic = seen.panic
        /\ seen' \in [overlap : BOOLEAN, misclick : BOOLEAN, panic : BOOLEAN]
    BY DEF IInv, TypeOK, Open, Write
  <1>2. PICK old \in Process : /\ old = proc[q] /\ old.pc \in {"save", "write"} /\ ~old.mem.nil
                               /\ old.pc = "write" => old.fd \in Inodes
                               /\ ~seen.misclick => Sound(old.mem)
    BY DEF IInv, TypeOK, Open, Write, At, Saving, AsksFit, DefaultExists, Process
  <1>3. PICK i \in Inodes, w \in {"write", "rename"}, c \in Config \cup {Empty, Garbled}, t \in Inodes \cup {NoFile} :
          /\ disk' = [disk EXCEPT !.tmp = t, !.data = [@ EXCEPT ![i] = c]]
          /\ Becomes(q, [old EXCEPT !.pc = w, !.fd = i])
          /\ ~seen.misclick /\ c \in Config => Sound(c)
    <2>1. CASE Open(q)
      <3>1. PICK i \in IF disk.tmp # NoFile THEN {disk.tmp} ELSE Unused :
              /\ disk' = [disk EXCEPT !.tmp = i, !.data = [@ EXCEPT ![i] = Empty]]
              /\ Becomes(q, [proc[q] EXCEPT !.pc = "write", !.fd = i])
        BY <2>1 DEF Open
      <3>2. i \in Inodes
        BY <3>1 DEF IInv, TypeOK, Disk, Unused
      <3>3. QED
        BY <1>2, <3>1, <3>2
    <2>2. CASE Write(q)
      <3>1. PICK c \in {old.mem, Garbled} :
              /\ disk' = [disk EXCEPT !.data = [@ EXCEPT ![old.fd] = c]]
              /\ Becomes(q, [old EXCEPT !.pc = "rename"])
        BY <1>2, <2>2 DEF Write, To
      <3>2. c \in Config \cup {Garbled} /\ old.fd \in Inodes
        BY <1>2, <2>2 DEF Write, At, Config, Process
      <3>3. disk' = [disk EXCEPT !.tmp = disk.tmp, !.data = [@ EXCEPT ![old.fd] = c]]
        BY <3>1 DEF IInv, TypeOK, Disk
      <3>4. [old EXCEPT !.pc = "rename"] = [old EXCEPT !.pc = "rename", !.fd = old.fd]
        BY DEF Process
      <3>5. disk.tmp \in Inodes \cup {NoFile}
        BY DEF IInv, TypeOK, Disk
      <3>6. Becomes(q, [old EXCEPT !.pc = "rename", !.fd = old.fd])
        BY <3>1, <3>4
      <3>7. ~seen.misclick /\ c \in Config => Sound(c)
        BY <1>2
      <3>8. c \in Config \cup {Empty, Garbled} /\ "rename" \in {"write", "rename"}
        BY <3>2
      <3>9. QED
        BY <3>2, <3>3, <3>5, <3>6, <3>7, <3>8, Zenon
    <2>3. QED
      BY <2>1, <2>2
  <1> DEFINE x == [old EXCEPT !.pc = w, !.fd = i]
  <1>4. x \in Process /\ x.pc = w /\ x.mem = old.mem /\ x.fd = i
    BY DEF Process, PCs
  <1>5. Becomes(q, x)
    BY <1>3
  <1> HIDE DEF x
  <1>6. /\ proc' \in [Procs -> Process]
        /\ proc'[q] = x
        /\ \A r \in Procs \ {q} : proc'[r] = proc[r]
    BY <1>1, <1>4, <1>5, Moves
  <1>7. /\ disk' \in Disk /\ disk'.path = disk.path /\ disk'.version = disk.version
        /\ disk'.data[i] = c /\ \A j \in Inodes \ {i} : disk'.data[j] = disk.data[j]
    <2>1. disk \in Disk
      BY DEF IInv, TypeOK
    <2>2. QED
      BY <1>3, <2>1 DEF Disk
  <1>8. TypeOK'
    BY <1>1, <1>2, <1>4, <1>6, <1>7 DEF TypeOK, Saving, At
  <1>9. AsksFit'
    BY <1>1, <1>2, <1>4, <1>6 DEF IInv, AsksFit, At, Saving
  <1>10. NilMeansNoFile'
    BY <1>1, <1>2, <1>4, <1>6, <1>7 DEF IInv, NilMeansNoFile, AsksFit, ClicksOnMenu, Asks, MenuShows, At
  <1>11. DefaultExists'
    BY <1>1, <1>2, <1>3, <1>4, <1>6, <1>7 DEF IInv, DefaultExists
  <1>12. QED
    BY <1>1, <1>8, <1>9, <1>10, <1>11 DEF IInv

\* The end of a Save, for the widget.
LEMMA SavedTray ==
    ASSUME IInv, NEW q \in Commands \cup Clicks, Saving(q), NEW ok \in BOOLEAN, Saved(q, ok)
    PROVE  /\ tray' \in Tray
           /\ tray'.cfg = tray.cfg /\ tray'.up = tray.up /\ tray'.menu = tray.menu
           /\ tray'.draw = tray.draw /\ tray'.shared = tray.shared
           /\ tray'.holder = IF q \in Clicks THEN Nobody ELSE tray.holder
           /\ q \in Clicks => tray.holder = q /\ tray.up /\ ~tray.cfg.nil
           /\ q \notin Clicks => tray' = tray
  <1>1. tray \in Tray /\ disk.version \in Nat
    BY DEF IInv, TypeOK, Disk
  <1>2. q \in Clicks => tray.holder = q
    BY DEF IInv, TypeOK, Saving
  <1>3. q \in Clicks => tray.up
    BY DEF IInv, NilMeansNoFile, Saving, At, Workers
  <1>4. q \in Clicks => ~tray.cfg.nil
    BY <1>2, <1>3, ClientAssumption DEF IInv, NilMeansNoFile
  <1>5. PICK b \in Int, r \in BOOLEAN :
          tray' = IF q \notin Clicks THEN tray ELSE [tray EXCEPT !.holder = Nobody, !.base = b, !.refresh = r]
    <2>1. (IF ok THEN disk.version + 1 ELSE -1) \in Int
      BY <1>1
    <2>2. (tray.refresh \/ proc[q].ask.kind = "forget" \/ (ok /\ proc[q].ask.kind = "new")) \in BOOLEAN
      OBVIOUS
    <2>3. tray' = IF q \notin Clicks THEN tray
                  ELSE [tray EXCEPT !.holder = Nobody, !.base = IF ok THEN disk.version + 1 ELSE -1,
                          !.refresh = tray.refresh \/ proc[q].ask.kind = "forget" \/ (ok /\ proc[q].ask.kind = "new")]
      BY <1>1 DEF Saved
    <2>4. QED
      BY <2>1, <2>2, <2>3, Zenon
  <1>6. QED
    BY <1>1, <1>2, <1>3, <1>4, <1>5 DEF Tray

\* The rename, or what has failed.
LEMMA SaveEnds ==
    ASSUME IInv, NEW q \in Commands \cup Clicks, WriteFails(q) \/ Rename(q)
    PROVE  IInv'
  <1> USE ClientAssumption DEF Procs, Workers
  <1>1. TypeOK /\ UNCHANGED <<env, seen>> /\ Saving(q)
    BY DEF IInv, WriteFails, Rename, At, Saving
  <1>2. PICK ok \in BOOLEAN :
          /\ Saved(q, ok)
          /\ \/ ~ok /\ UNCHANGED disk
             \/ /\ ok /\ disk.tmp # NoFile
                /\ disk' = [path |-> disk.tmp, tmp |-> NoFile, version |-> disk.version + 1,
                            data |-> [i \in Inodes |-> IF i = disk.path /\ \A r \in Procs : proc[r].fd # i
                                                       THEN Empty ELSE disk.data[i]]]
    BY DEF WriteFails, Rename
  <1>3. /\ disk' \in Disk
        /\ disk.path # NoFile => disk'.path # NoFile
        /\ disk'.path = NoFile => disk'.version = disk.version /\ disk.path = NoFile
        /\ ok => disk'.path # NoFile
        /\ \A i \in Inodes : disk'.data[i] \in {disk.data[i], Empty}
    <2>1. disk \in Disk
      BY <1>1 DEF TypeOK
    <2>2. QED
      BY <1>2, <2>1 DEF Disk
  <1>4. PICK x \in Process :
          /\ Becomes(q, x) /\ x.pc \in {"load", "done"} /\ x.fd = NoFile /\ x.mem = NewConfig
          /\ x.pc = "load" => ok /\ q \in Clicks
    BY <1>2, IdleIsProcess DEF Saved, Return, PCs
  <1>5. /\ tray' \in Tray
        /\ tray'.cfg = tray.cfg /\ tray'.up = tray.up /\ tray'.menu = tray.menu
        /\ tray'.draw = tray.draw /\ tray'.shared = tray.shared
        /\ tray'.holder = IF q \in Clicks THEN Nobody ELSE tray.holder
        /\ q \in Clicks => tray.holder = q /\ tray.up /\ ~tray.cfg.nil
        /\ q \notin Clicks => tray' = tray
    BY <1>1, <1>2, SavedTray
  <1>6. /\ proc' \in [Procs -> Process]
        /\ proc'[q] = x
        /\ \A r \in Procs \ {q} : proc'[r] = proc[r]
    BY <1>1, <1>4, Moves
  <1>7. TypeOK'
    BY <1>1, <1>3, <1>4, <1>5, <1>6 DEF TypeOK, Saving, At
  <1>8. AsksFit'
    BY <1>1, <1>4, <1>6 DEF IInv, AsksFit, At, Saving
  <1>9. NilMeansNoFile'
    BY <1>1, <1>3, <1>4, <1>5, <1>6 DEF IInv, NilMeansNoFile, AsksFit, ClicksOnMenu, Asks, MenuShows, At
  <1>10. DefaultExists'
    BY <1>1, <1>3, <1>4, <1>5, <1>6, NewConfigs DEF IInv, DefaultExists
  <1>11. QED
    BY <1>1, <1>5, <1>7, <1>8, <1>9, <1>10 DEF IInv

-----------------------------------------------------------------------------
(* Clicks.                                                                 *)

LEMMA ClickKeeps ==
    ASSUME IInv, NEW k \in Clicks, Click(k)
    PROVE  IInv'
  <1> USE ClientAssumption DEF Procs, Workers
  <1>1. TypeOK /\ At(k, "idle") /\ tray.up /\ UNCHANGED <<env, disk, tray, seen>>
    BY DEF IInv, Click
  <1>2. PICK ask \in Asked :
          /\ Becomes(k, [proc[k] EXCEPT !.pc = "act", !.ask = ask])
          /\ ask.kind \in {"forget", "select"} => MenuShows
    BY DEF Click, MenuShows
  <1>3. PICK old \in Process : /\ old = proc[k] /\ old.fd = NoFile
                               /\ ~seen.misclick => Sound(old.mem)
    BY <1>1 DEF IInv, TypeOK, At, Saving, DefaultExists
  <1> DEFINE x == [old EXCEPT !.pc = "act", !.ask = ask]
  <1>4. x \in Process /\ x.pc = "act" /\ x.ask = ask /\ x.fd = old.fd /\ x.mem = old.mem
    BY DEF Process, PCs
  <1>5. Becomes(k, x)
    BY <1>2, <1>3
  <1> HIDE DEF x
  <1>6. /\ proc' \in [Procs -> Process]
        /\ proc'[k] = x
        /\ \A r \in Procs \ {k} : proc'[r] = proc[r]
    BY <1>1, <1>4, <1>5, Moves
  <1>7. TypeOK'
    BY <1>1, <1>3, <1>4, <1>6 DEF TypeOK, Saving, At
  <1>8. AsksFit'
    BY <1>1, <1>4, <1>6 DEF IInv, AsksFit, At, Saving
  <1>9. NilMeansNoFile'
    <2>1. ClicksOnMenu' => ClicksOnMenu
      BY <1>1, <1>2, <1>4, <1>6 DEF ClicksOnMenu, Asks, MenuShows, At
    <2>2. QED
      BY <1>1, <1>4, <1>6, <2>1 DEF IInv, NilMeansNoFile, At
  <1>10. DefaultExists'
    BY <1>1, <1>3, <1>4, <1>6 DEF IInv, DefaultExists
  <1>11. QED
    BY <1>1, <1>7, <1>8, <1>9, <1>10 DEF IInv

LEMMA ActKeeps ==
    ASSUME IInv, NEW k \in Clicks, Act(k)
    PROVE  IInv'
  <1> USE ClientAssumption DEF Procs, Workers
  <1> DEFINE ask == proc[k].ask
             c == tray.cfg
  <1>1. /\ TypeOK /\ At(k, "act") /\ Unlocked /\ UNCHANGED <<env, disk>> /\ tray \in Tray
        /\ ask \in Asked /\ c \in Loaded
    BY DEF IInv, TypeOK, Act, AsksFit, Tray
  <1>2. tray.up
    BY <1>1 DEF IInv, NilMeansNoFile, At
  <1>3. ask.kind \in {"forget", "select"} => ~c.nil
    BY <1>1, <1>2 DEF IInv, NilMeansNoFile, ClicksOnMenu, Asks
  <1>4. PICK d \in Loaded :
          /\ CopyBecomes(d, k)
          /\ Becomes(k, [proc[k] EXCEPT !.pc = "save", !.mem = Marshal(d), !.base = tray.base])
          /\ ~c.nil /\ ~d.nil
          /\ seen' \in [overlap : BOOLEAN, misclick : BOOLEAN, panic : BOOLEAN] /\ seen'.panic = seen.panic
          /\ ~seen'.misclick => ~seen.misclick /\ (Sound(c) => Sound(d))
    <2>1. CASE /\ ask.kind = "forget" /\ UNCHANGED seen
               /\ CopyBecomes([c EXCEPT !.tunnels = @ \ {ask.name}], k)
               /\ Becomes(k, [proc[k] EXCEPT !.pc = "save", !.mem = Marshal([c EXCEPT !.tunnels = @ \ {ask.name}]),
                                             !.base = tray.base])
      <3> DEFINE d == [c EXCEPT !.tunnels = @ \ {ask.name}]
      <3>1. d \in Loaded /\ d.nil = c.nil /\ (Sound(c) => Sound(d))
        BY <1>1 DEF Loaded, Sound
      <3>2. /\ CopyBecomes(d, k)
            /\ Becomes(k, [proc[k] EXCEPT !.pc = "save", !.mem = Marshal(d), !.base = tray.base])
        BY <2>1
      <3> HIDE DEF d
      <3>3. QED
        BY <1>1, <1>3, <2>1, <3>1, <3>2 DEF TypeOK
    <2>2. CASE /\ ask.kind = "select" /\ seen' = [seen EXCEPT !.misclick = @ \/ ask.name \notin c.profiles]
               /\ CopyBecomes([c EXCEPT !.default = ask.name], k)
               /\ Becomes(k, [proc[k] EXCEPT !.pc = "save", !.mem = Marshal([c EXCEPT !.default = ask.name]),
                                             !.base = tray.base])
      <3> DEFINE d == [c EXCEPT !.default = ask.name]
      <3>1. ask.name \in Profiles
        BY <1>1, <2>2
      <3>2. d \in Loaded /\ d.nil = c.nil /\ (ask.name \in c.profiles => Sound(d))
        BY <1>1, <3>1 DEF Loaded, Sound
      <3>3. /\ CopyBecomes(d, k)
            /\ Becomes(k, [proc[k] EXCEPT !.pc = "save", !.mem = Marshal(d), !.base = tray.base])
        BY <2>2
      <3>4. /\ seen' \in [overlap : BOOLEAN, misclick : BOOLEAN, panic : BOOLEAN] /\ seen'.panic = seen.panic
            /\ seen'.misclick <=> seen.misclick \/ ask.name \notin c.profiles
        <4>1. PICK b \in BOOLEAN : b = (seen.misclick \/ ask.name \notin c.profiles)
          OBVIOUS
        <4>2. seen' = [seen EXCEPT !.misclick = b]
          BY <1>1, <2>2, <4>1 DEF TypeOK
        <4>3. QED
          BY <1>1, <4>1, <4>2 DEF TypeOK
      <3> HIDE DEF d
      <3>5. QED
        BY <1>1, <1>3, <2>2, <3>2, <3>3, <3>4
    <2>3. ASSUME ask.kind = "new", ~c.nil, UNCHANGED seen, NEW name \in UniqueNames(ask.name, c.tunnels),
                 CopyBecomes([c EXCEPT !.tunnels = @ \cup {name}], k),
                 Becomes(k, [proc[k] EXCEPT !.pc = "save", !.mem = Marshal([c EXCEPT !.tunnels = @ \cup {name}]),
                                            !.base = tray.base])
          PROVE  \E d \in Loaded :
                    /\ CopyBecomes(d, k)
                    /\ Becomes(k, [proc[k] EXCEPT !.pc = "save", !.mem = Marshal(d), !.base = tray.base])
                    /\ ~c.nil /\ ~d.nil
                    /\ seen' \in [overlap : BOOLEAN, misclick : BOOLEAN, panic : BOOLEAN] /\ seen'.panic = seen.panic
                    /\ ~seen'.misclick => ~seen.misclick /\ (Sound(c) => Sound(d))
      <3> DEFINE d == [c EXCEPT !.tunnels = @ \cup {name}]
      <3>1. name \in Tunnels
        BY <1>1, <2>3 DEF UniqueNames
      <3>2. d \in Loaded /\ d.nil = c.nil /\ (Sound(c) => Sound(d))
        BY <1>1, <3>1 DEF Loaded, Sound
      <3>3. /\ CopyBecomes(d, k)
            /\ Becomes(k, [proc[k] EXCEPT !.pc = "save", !.mem = Marshal(d), !.base = tray.base])
        BY <2>3
      <3> HIDE DEF d
      <3>4. QED
        BY <1>1, <2>3, <3>2, <3>3 DEF TypeOK
    <2>4. QED
      BY <2>1, <2>2, <2>3 DEF Act
  <1>5. PICK old \in Process : old = proc[k]
    BY <1>1 DEF TypeOK
  <1>6. PICK m \in Config : m = Marshal(d) /\ ~m.nil /\ (Sound(d) => Sound(m))
    BY MarshalledConfigs DEF Config
  <1> DEFINE x == [old EXCEPT !.pc = "save", !.mem = m, !.base = tray.base]
  <1>7. x \in Process /\ x.pc = "save" /\ x.mem = m /\ x.fd = old.fd
    <2>1. tray.base \in Int /\ m \in Loaded
      BY <1>1 DEF Tray, Config
    <2>2. QED
      BY <2>1 DEF Process, PCs
  <1>8. Becomes(k, x)
    BY <1>4, <1>5, <1>6
  <1> HIDE DEF x
  <1>9. /\ proc' \in [Procs -> Process]
        /\ proc'[k] = x
        /\ \A r \in Procs \ {k} : proc'[r] = proc[r]
    BY <1>1, <1>7, <1>8, Moves
  <1>10. /\ tray' \in Tray /\ tray'.cfg = d /\ tray'.holder = k /\ tray'.up = tray.up
         /\ tray'.menu = tray.menu /\ tray'.base = tray.base /\ tray'.shared = tray.shared
         /\ ~tray.shared => tray'.draw = tray.draw
    <2>1. d.tunnels \in SUBSET Tunnels /\ tray.draw \in Menu
      BY <1>1 DEF Tray, Loaded
    <2>a. PICK m0 \in Menu : m0 = tray.draw
      BY <2>1
    <2>b. PICK ts \in SUBSET Tunnels : ts = IF tray.shared THEN d.tunnels ELSE m0.tunnels
      BY <2>1, MenuParts
    <2>2. PICK m1 \in Menu : m1 = [m0 EXCEPT !.tunnels = ts] /\ (~tray.shared => m1 = m0)
      BY <2>b, MenuParts
    <2>c. [tray.draw EXCEPT !.tunnels = IF tray.shared THEN d.tunnels ELSE @] = m1
      <3> DEFINE With(mn, t) == [mn EXCEPT !.tunnels = t]
      <3>1. m1 = With(m0, ts)
        BY <2>2
      <3>2. (IF tray.shared THEN d.tunnels ELSE tray.draw.tunnels) = ts
        BY <2>a, <2>b
      <3> HIDE DEF With
      <3>3. With(tray.draw, IF tray.shared THEN d.tunnels ELSE tray.draw.tunnels) = m1
        BY <2>a, <3>1, <3>2, Zenon
      <3>4. QED
        BY <3>3, Zenon DEF With
    <2>3. tray' = [tray EXCEPT !.cfg = d, !.holder = k, !.draw = m1]
      BY <1>4, <2>c DEF CopyBecomes
    <2>4. QED
      BY <1>1, <2>a, <2>2, <2>3 DEF Tray
  <1>11. tray.holder = Nobody
    BY <1>1 DEF Unlocked
  <1> HIDE DEF ask, c
  <1>12. TypeOK'
    BY <1>1, <1>4, <1>5, <1>7, <1>9, <1>10, <1>11 DEF TypeOK, Saving, At
  <1>13. AsksFit'
    BY <1>1, <1>6, <1>7, <1>9 DEF IInv, AsksFit, At, Saving
  <1>14. NilMeansNoFile'
    <2>1. disk.path # NoFile
      BY <1>2, <1>4 DEF IInv, NilMeansNoFile, c
    <2>2. At(Loop, "assign") => (ClicksOnMenu' => ClicksOnMenu)
      <3>1. At(Loop, "assign") => ~tray.shared
        BY <1>1 DEF TypeOK, At
      <3>2. QED
        BY <1>7, <1>9, <1>10, <3>1 DEF ClicksOnMenu, Asks, MenuShows, At
    <2>3. QED
      BY <1>1, <1>2, <1>4, <1>7, <1>9, <1>10, <2>1, <2>2 DEF IInv, NilMeansNoFile, At
  <1>15. DefaultExists'
    BY <1>1, <1>4, <1>6, <1>7, <1>9, <1>10 DEF IInv, DefaultExists, c
  <1>16. QED
    BY <1>1, <1>2, <1>4, <1>10, <1>12, <1>13, <1>14, <1>15 DEF IInv

\* The widget is gone, and all it was doing.
LEMMA DownKeeps ==
    ASSUME IInv, Quit \/ \E k \in Clicks : Panic(k) \/ Torn(k)
    PROVE  IInv'
  <1> USE ClientAssumption DEF Procs, Workers
  <1>1. /\ TypeOK /\ tray \in Tray /\ Down /\ UNCHANGED <<env, disk>>
        /\ seen' \in [overlap : BOOLEAN, misclick : BOOLEAN, panic : BOOLEAN] /\ seen'.misclick = seen.misclick
    BY DEF IInv, TypeOK, Quit, Panic, Torn
  <1>2. PICK x \in Process : /\ x = [Idle EXCEPT !.pc = "done"]
                             /\ x.pc = "done" /\ x.fd = NoFile /\ x.mem = NewConfig
    BY IdleIsProcess DEF PCs
  <1>3. /\ proc' \in [Procs -> Process]
        /\ \A q \in Workers : proc'[q] = x
        /\ \A q \in Procs \ Workers : proc'[q] = proc[q]
    BY <1>1, <1>2 DEF Down, TypeOK
  <1>4. NoProfile \in Profile
    BY DEF NoProfile, Profile
  <1>5. PICK menu \in Menu : menu = NoView
    BY <1>4, Views, NewConfigs DEF NoView
  <1>6. tray' = [tray EXCEPT !.up = FALSE, !.cfg = NewConfig, !.profile = NoProfile, !.remote = NoName,
                             !.menu = menu, !.draw = menu, !.shared = FALSE,
                             !.holder = Nobody, !.refresh = FALSE]
    BY <1>1, <1>5 DEF Down
  <1>7. /\ tray' \in Tray /\ ~tray'.up /\ tray'.cfg = NewConfig /\ tray'.holder = Nobody
        /\ tray'.base = tray.base /\ ~tray'.shared
    BY <1>1, <1>4, <1>6, NewConfigs DEF Tray
  <1>8. TypeOK'
    <2>1. env' \in Envs /\ disk' \in Disk
      BY <1>1 DEF TypeOK
    <2>a. \A q \in Workers : proc'[q].fd # NoFile <=> Saving(q)'
      BY <1>2, <1>3 DEF Saving
    <2>b. \A q \in Procs \ Workers : proc'[q].fd # NoFile <=> Saving(q)'
      BY <1>1, <1>3 DEF TypeOK, Saving
    <2>2. \A q \in Procs : proc'[q].fd # NoFile <=> Saving(q)'
      BY <2>a, <2>b
    <2>3. \A k \in Clicks : tray'.holder = k <=> At(k, "save")' \/ Saving(k)'
      BY <1>2, <1>3, <1>7 DEF Saving, At
    <2>4. QED
      BY <1>1, <1>3, <1>7, <2>1, <2>2, <2>3 DEF TypeOK
  <1>9. AsksFit'
    BY <1>1, <1>2, <1>3 DEF IInv, AsksFit, At, Saving
  <1>10. NilMeansNoFile'
    BY <1>1, <1>2, <1>3, <1>7, NewConfigs DEF IInv, NilMeansNoFile, At
  <1>11. DefaultExists'
    BY <1>1, <1>2, <1>3, <1>7, NewConfigs DEF IInv, DefaultExists
  <1>12. QED
    BY <1>1, <1>7, <1>8, <1>9, <1>10, <1>11 DEF IInv

-----------------------------------------------------------------------------
(* The widget catches up.                                                  *)

\* A reread comes to nothing, or is ready to be taken over.
LEMMA LoadKeeps ==
    ASSUME IInv, NEW q \in Workers, Load(q)
    PROVE  IInv'
  <1> USE ClientAssumption DEF Procs, Workers
  <1>1. TypeOK /\ At(q, "load") /\ UNCHANGED <<env, disk, tray, seen>> /\ tray.up
    BY DEF IInv, Load, NilMeansNoFile, At
  <1>2. PICK old \in Process : /\ old = proc[q] /\ old.fd = NoFile
                               /\ ~seen.misclick => Sound(old.mem)
    BY <1>1 DEF IInv, TypeOK, At, Saving, DefaultExists
  <1>3. PICK x \in Process :
          /\ Becomes(q, x) /\ x.fd = NoFile
          /\ ~seen.misclick => Sound(x.mem)
          /\ \/ x.pc = "poll"
             \/ /\ x.pc = "assign"
                /\ x.mem.nil <=> disk.path = NoFile
                /\ x.mem.nil => x.base = 0 /\ x.mem.tunnels = {} /\ x.mem.profiles = {}
    <2>1. CASE Readable
      <3>1. PICK c \in Loaded : /\ c = LoadConfig(OnDisk)
                                /\ c.nil <=> disk.path = NoFile
                                /\ c.nil => c.tunnels = {} /\ c.profiles = {}
                                /\ ~seen.misclick => Sound(c)
        BY <2>1, DiskLoads
      <3> DEFINE x == [old EXCEPT !.pc = "assign", !.mem = c, !.base = disk.version]
      <3>2. disk.version \in Int /\ (disk.path = NoFile => disk.version = 0)
        BY DEF IInv, TypeOK, Disk, NilMeansNoFile
      <3>3. x \in Process /\ x.pc = "assign" /\ x.mem = c /\ x.base = disk.version /\ x.fd = old.fd
        BY <3>2 DEF Process, PCs
      <3>4. Becomes(q, x)
        BY <1>2, <2>1, <3>1 DEF Load
      <3> HIDE DEF x
      <3>5. QED
        BY <1>2, <3>1, <3>2, <3>3, <3>4
    <2>2. CASE ~Readable
      <3> DEFINE x == [old EXCEPT !.pc = "poll"]
      <3>1. x \in Process /\ x.pc = "poll" /\ x.mem = old.mem /\ x.fd = old.fd
        BY DEF Process, PCs
      <3>2. Becomes(q, x)
        BY <1>2, <2>2 DEF Load, To
      <3> HIDE DEF x
      <3>3. QED
        BY <1>2, <3>1, <3>2
    <2>3. QED
      BY <2>1, <2>2
  <1>4. /\ proc' \in [Procs -> Process]
        /\ proc'[q] = x
        /\ \A r \in Procs \ {q} : proc'[r] = proc[r]
    BY <1>1, <1>3, Moves
  <1>5. TypeOK'
    BY <1>1, <1>3, <1>4 DEF TypeOK, Saving, At
  <1>6. AsksFit'
    BY <1>1, <1>3, <1>4 DEF IInv, AsksFit, At, Saving
  <1>7. NilMeansNoFile'
    <2>1. ClicksOnMenu' => ClicksOnMenu
      BY <1>1, <1>3, <1>4 DEF ClicksOnMenu, Asks, MenuShows, At
    <2>2. disk.path = NoFile => q = Loop /\ ~ClicksOnMenu
      BY <1>1 DEF IInv, NilMeansNoFile
    <2>3. QED
      BY <1>1, <1>3, <1>4, <2>1, <2>2 DEF IInv, NilMeansNoFile, At
  <1>8. DefaultExists'
    BY <1>1, <1>3, <1>4 DEF IInv, DefaultExists
  <1>9. QED
    BY <1>1, <1>5, <1>6, <1>7, <1>8 DEF IInv

LEMMA AssignKeeps ==
    ASSUME IInv, NEW q \in Workers, Assign(q)
    PROVE  IInv'
  <1> USE ClientAssumption DEF Procs, Workers
  <1>1. /\ TypeOK /\ At(q, "assign") /\ UNCHANGED <<env, disk, seen>> /\ tray.up
        /\ tray \in Tray /\ tray.holder = Nobody
    BY DEF IInv, TypeOK, Assign, NilMeansNoFile, At, Unlocked
  <1>2. PICK old \in Process : /\ old = proc[q]
                               /\ ~seen.misclick => Sound(old.mem)
    BY <1>1 DEF IInv, TypeOK, DefaultExists
  <1>3. PICK x \in Process : Becomes(q, x) /\ x.pc = "poll" /\ x.fd = NoFile /\ x.mem = NewConfig
    BY IdleIsProcess DEF Assign, Return, PCs
  <1>4. old.mem \in Loaded /\ old.base \in Int
    BY DEF Process
  <1>5. Resolve(old.mem, ProfileFlag) \in Profile
    BY <1>1, <1>4, ResolvedProfiles DEF TypeOK
  <1>6. tray' = [tray EXCEPT !.cfg = old.mem, !.base = old.base, !.shared = FALSE,
                             !.profile = Resolve(old.mem, ProfileFlag)]
    BY <1>2 DEF Assign
  <1>7. /\ tray' \in Tray /\ tray'.cfg = old.mem /\ tray'.base = old.base
        /\ tray'.up = tray.up /\ tray'.menu = tray.menu /\ tray'.holder = tray.holder
        /\ tray'.draw = tray.draw /\ ~tray'.shared
    BY <1>1, <1>4, <1>5, <1>6 DEF Tray
  <1>8. /\ proc' \in [Procs -> Process]
        /\ proc'[q] = x
        /\ \A r \in Procs \ {q} : proc'[r] = proc[r]
    BY <1>1, <1>3, Moves
  <1>9. TypeOK'
    BY <1>1, <1>3, <1>7, <1>8 DEF TypeOK, Saving, At
  <1>10. AsksFit'
    BY <1>1, <1>3, <1>8 DEF IInv, AsksFit, At, Saving
  <1>11. NilMeansNoFile'
    <2>1. ClicksOnMenu' => ClicksOnMenu
      BY <1>1, <1>3, <1>7, <1>8 DEF ClicksOnMenu, Asks, MenuShows, At
    <2>2. IF old.mem.nil THEN /\ old.base = 0 /\ ~ClicksOnMenu
                              /\ old.mem.tunnels = {} /\ old.mem.profiles = {}
                         ELSE disk.path # NoFile
      BY <1>1, <1>2 DEF IInv, NilMeansNoFile
    <2>3. QED
      BY <1>1, <1>3, <1>7, <1>8, <2>1, <2>2 DEF IInv, NilMeansNoFile, At
  <1>12. DefaultExists'
    BY <1>1, <1>2, <1>3, <1>7, <1>8, NewConfigs DEF IInv, DefaultExists
  <1>13. QED
    BY <1>1, <1>7, <1>9, <1>10, <1>11, <1>12 DEF IInv

\* What changes neither the widget's copy nor the disk: the list of tunnels, and
\* the menu drawn from the copy.
LoopDraws == Render \/ DrawTunnels \/ DrawProfiles \/ Tick \/ Redraw

LEMMA RefreshKeeps ==
    ASSUME IInv, NEW q \in Workers,
           Poll(q) \/ Store(q) \/ Polled(q) \/ (q = Loop /\ LoopDraws)
    PROVE  IInv'
  <1> USE ClientAssumption DEF Procs, Workers
  <1>1. /\ TypeOK /\ UNCHANGED <<env, disk, seen>> /\ tray.up /\ tray \in Tray
        /\ proc[q].pc \in {"poll", "store", "polled", "render", "draw", "names", "wait"}
    BY DEF IInv, TypeOK, Poll, Store, Polled, LoopDraws, Render, DrawTunnels, DrawProfiles, Tick, Redraw, NilMeansNoFile, At
  <1>2. PICK old \in Process : /\ old = proc[q] /\ old.fd = NoFile
                               /\ ~seen.misclick => Sound(old.mem)
    BY <1>1 DEF IInv, TypeOK, At, Saving, DefaultExists
  <1>3. PICK x \in Process :
          /\ Becomes(q, x) /\ x.fd = NoFile
          /\ x.pc \in {"store", "polled", "render", "draw", "names", "done", "wait", "load"}
          /\ x.pc = "load" => q = Loop
          /\ ~seen.misclick => Sound(x.mem)
    <2>1. ASSUME NEW w \in {"store", "polled", "render", "draw", "names", "done", "wait", "load"}, w = "load" => q = Loop,
                 To(q, w)
          PROVE  \E x \in Process :
                    /\ Becomes(q, x) /\ x.fd = NoFile
                    /\ x.pc \in {"store", "polled", "render", "draw", "names", "done", "wait", "load"}
                    /\ x.pc = "load" => q = Loop
                    /\ ~seen.misclick => Sound(x.mem)
      <3> DEFINE x == [old EXCEPT !.pc = w]
      <3>1. x \in Process /\ x.pc = w /\ x.mem = old.mem /\ x.fd = old.fd
        BY DEF Process, PCs
      <3>2. Becomes(q, x)
        BY <1>2, <2>1 DEF To
      <3> HIDE DEF x
      <3>3. QED
        BY <1>2, <2>1, <3>1, <3>2
    <2>2. CASE Store(q)
      BY <2>2, IdleIsProcess, NewConfigs DEF Store, Return, PCs
    <2>3. CASE Poll(q) /\ tray.profile.ok
      <3>1. tray.profile.name \in Profiles \cup {NoName}
        BY <1>1 DEF Tray, Profile
      <3> DEFINE x == [old EXCEPT !.pc = "store", !.ask = [@ EXCEPT !.name = tray.profile.name]]
      <3>2. x \in Process /\ x.pc = "store" /\ x.mem = old.mem /\ x.fd = old.fd
        BY <3>1 DEF Process, PCs
      <3>3. Becomes(q, x)
        BY <1>2, <2>3 DEF Poll
      <3> HIDE DEF x
      <3>4. QED
        BY <1>2, <3>2, <3>3
    <2>4. CASE Poll(q) /\ ~tray.profile.ok
      BY <2>1, <2>4 DEF Poll
    <2>5. CASE Polled(q)
      BY <2>1, <2>5 DEF Polled
    <2>6. CASE q = Loop /\ LoopDraws
      BY <2>1, <2>6 DEF LoopDraws, Render, DrawTunnels, DrawProfiles, Tick, Redraw
    <2>7. QED
      BY <2>2, <2>3, <2>4, <2>5, <2>6
  <1>4. /\ proc' \in [Procs -> Process]
        /\ proc'[q] = x
        /\ \A r \in Procs \ {q} : proc'[r] = proc[r]
    BY <1>1, <1>3, Moves
  <1>5. /\ tray' \in Tray /\ tray'.cfg = tray.cfg /\ tray'.base = tray.base
        /\ tray'.up = tray.up /\ tray'.holder = tray.holder
        /\ \/ ~tray'.shared
           \/ q = Loop /\ x.pc = "draw"
           \/ q # Loop /\ tray.shared
        /\ MenuShows' => MenuShows \/ (q = Loop /\ (tray.cfg.tunnels # {} \/ tray.cfg.profiles # {}))
    <2>0. q = Loop /\ old.pc # "draw" => ~tray.shared
      BY <1>1, <1>2 DEF TypeOK, At
    <2>a. ASSUME NEW r \in Profiles \cup Tunnels \cup {NoName}, NEW f \in BOOLEAN,
                 old.pc # "draw", tray' = [tray EXCEPT !.remote = r, !.refresh = f]
          PROVE  /\ tray' \in Tray /\ tray'.cfg = tray.cfg /\ tray'.base = tray.base
                 /\ tray'.up = tray.up /\ tray'.holder = tray.holder
                 /\ ~tray'.shared \/ (q # Loop /\ tray.shared)
                 /\ MenuShows' => MenuShows
      BY <1>1, <2>0, <2>a DEF Tray, MenuShows
    <2>b. /\ tray.remote \in Profiles \cup Tunnels \cup {NoName}
          /\ tray = [tray EXCEPT !.remote = tray.remote, !.refresh = tray.refresh]
          /\ tray.refresh \in BOOLEAN
      BY <1>1 DEF Tray
    <2>c. ASSUME old.pc # "draw", tray' = tray
          PROVE  /\ tray' \in Tray /\ tray'.cfg = tray.cfg /\ tray'.base = tray.base
                 /\ tray'.up = tray.up /\ tray'.holder = tray.holder
                 /\ ~tray'.shared \/ (q # Loop /\ tray.shared)
                 /\ MenuShows' => MenuShows
      BY <1>1, <2>0, <2>c DEF MenuShows
    <2>1. CASE Render /\ q = Loop
      <3>1. PICK menu \in Menu : /\ menu = View(tray.cfg, tray.profile, tray.remote)
                                 /\ menu.tunnels = tray.cfg.tunnels /\ menu.profiles = tray.cfg.profiles
        BY <1>1, Views DEF Tray
      <3>2. tray' = [tray EXCEPT !.draw = menu, !.shared = TRUE]
        BY <2>1, <3>1 DEF Render
      <3>3. x.pc = "draw"
        BY <1>2, <1>4, <2>1 DEF Render, To, Becomes, Process
      <3>4. QED
        BY <1>1, <2>1, <3>1, <3>2, <3>3 DEF Tray, MenuShows
    <2>d. PICK menu0 \in Menu, draw0 \in Menu : menu0 = tray.menu /\ draw0 = tray.draw
      BY <1>1 DEF Tray
    <2>g. /\ menu0.profiles \in SUBSET Profiles /\ draw0.profiles \in SUBSET Profiles
          /\ \A ps \in SUBSET Profiles :
                /\ LET n == [draw0 EXCEPT !.profiles = ps]
                   IN  n \in Menu /\ n.profiles = ps /\ n.tunnels = draw0.tunnels
                /\ LET n == [menu0 EXCEPT !.profiles = ps]
                   IN  n \in Menu /\ n.profiles = ps /\ n.tunnels = menu0.tunnels
      BY MenuParts
    <2>e. CASE DrawTunnels /\ q = Loop
      <3>a. PICK menu \in Menu : /\ menu = [draw0 EXCEPT !.profiles = menu0.profiles]
                                 /\ menu.tunnels = draw0.tunnels /\ menu.profiles = menu0.profiles
        BY <2>g
      <3>1. /\ menu = [tray.draw EXCEPT !.profiles = tray.menu.profiles]
            /\ menu.tunnels = tray.draw.tunnels /\ menu.profiles = tray.menu.profiles
        BY <2>d, <3>a, Zenon
      <3>2. tray' = [tray EXCEPT !.menu = menu, !.shared = FALSE]
        BY <2>e, <3>1 DEF DrawTunnels
      <3>3. QED
        BY <1>1, <2>e, <3>1, <3>2 DEF Tray, MenuShows
    <2>f. CASE DrawProfiles /\ q = Loop
      <3>a. PICK menu \in Menu : /\ menu = [menu0 EXCEPT !.profiles = draw0.profiles]
                                 /\ menu.tunnels = menu0.tunnels /\ menu.profiles = draw0.profiles
        BY <2>g
      <3>1. /\ menu = [tray.menu EXCEPT !.profiles = tray.draw.profiles]
            /\ menu.tunnels = tray.menu.tunnels /\ menu.profiles = tray.draw.profiles
        BY <2>d, <3>a, Zenon
      <3>2. PICK new \in Menu : new = NoView /\ new.tunnels = {} /\ new.profiles = {}
        BY Views, NewConfigs DEF NoView, NoProfile, Profile, NewConfig
      <3>3. tray' = [tray EXCEPT !.menu = menu, !.draw = new]
        <4>1. tray' = [tray EXCEPT !.menu = [tray.menu EXCEPT !.profiles = tray.draw.profiles], !.draw = NoView]
          BY <2>f DEF DrawProfiles
        <4>2. QED
          BY <1>1, <3>1, <3>2, <4>1 DEF Tray
      <3>4. ~tray.shared
        BY <1>1, <2>f DEF TypeOK, DrawProfiles, At
      <3>5. QED
        BY <1>1, <2>f, <3>1, <3>2, <3>3, <3>4 DEF Tray, MenuShows
    <2>2. CASE Poll(q)
      <3>1. old.pc # "draw"
        BY <1>2, <2>2 DEF Poll, At
      <3>2. tray' = tray \/ tray' = [tray EXCEPT !.remote = NoName, !.refresh = tray.refresh]
        BY <1>1, <2>2 DEF Poll, Tray
      <3>3. QED
        BY <2>a, <2>b, <2>c, <3>1, <3>2
    <2>3. CASE Store(q)
      <3>1. old.ask.name \in Profiles \cup Tunnels \cup {NoName} /\ old.pc # "draw"
        BY <1>2, <2>3 DEF Process, Store, At
      <3>a. PICK r \in Profiles \cup Tunnels \cup {NoName} : tray' = [tray EXCEPT !.remote = r]
        BY <1>2, <2>3, <3>1 DEF Store
      <3>2. tray' = [tray EXCEPT !.remote = r, !.refresh = tray.refresh]
        BY <1>1, <3>a DEF Tray
      <3>3. QED
        BY <2>a, <2>b, <3>1, <3>2
    <2>4. CASE Polled(q)
      <3>1. old.pc # "draw"
        BY <1>2, <2>4 DEF Polled, At
      <3>2. tray' = tray \/ tray' = [tray EXCEPT !.remote = tray.remote, !.refresh = TRUE]
        BY <1>1, <2>4 DEF Polled, Tray
      <3>3. QED
        BY <2>a, <2>b, <2>c, <3>1, <3>2
    <2>5. CASE q = Loop /\ (Tick \/ Redraw)
      <3>1. old.pc # "draw"
        BY <1>2, <2>5 DEF Tick, Redraw, At
      <3>2. tray' = tray \/ tray' = [tray EXCEPT !.remote = tray.remote, !.refresh = FALSE]
        BY <1>1, <2>5 DEF Tick, Redraw, Tray
      <3>3. QED
        BY <2>a, <2>b, <2>c, <3>1, <3>2
    <2>6. QED
      BY <2>1, <2>2, <2>3, <2>4, <2>5, <2>e, <2>f DEF LoopDraws
  <1>6. TypeOK'
    BY <1>1, <1>3, <1>4, <1>5 DEF TypeOK, Saving, At
  <1>7. AsksFit'
    BY <1>1, <1>3, <1>4 DEF IInv, AsksFit, At, Saving
  <1>8. NilMeansNoFile'
    <2>1. ClicksOnMenu' => ClicksOnMenu \/ (q = Loop /\ (tray.cfg.tunnels # {} \/ tray.cfg.profiles # {}))
      BY <1>1, <1>3, <1>4, <1>5 DEF ClicksOnMenu, Asks, At
    <2>2. QED
      BY <1>1, <1>3, <1>4, <1>5, <2>1 DEF IInv, NilMeansNoFile, At
  <1>9. DefaultExists'
    BY <1>1, <1>3, <1>4, <1>5 DEF IInv, DefaultExists
  <1>10. QED
    BY <1>1, <1>5, <1>6, <1>7, <1>8, <1>9 DEF IInv

-----------------------------------------------------------------------------
LEMMA InitHolds == Init => IInv
  <1> USE ClientAssumption DEF Procs, Workers
  <1> SUFFICES ASSUME Init PROVE IInv
    OBVIOUS
  <1> DEFINE i == CHOOSE j \in Inodes : TRUE
  <1>1. i \in Inodes /\ env \in Envs
    BY DEF Init
  <1> DEFINE C(first) == IF first = Garbled THEN NewConfig ELSE LoadConfig(first)
             P(first) == IF first = Garbled THEN NoProfile ELSE Resolve(C(first), ProfileFlag)
             V(first) == IF first = NoFile THEN 0 ELSE 1
  <1>a. PICK first \in FirstFiles :
          /\ disk = [path |-> IF first = NoFile THEN NoFile ELSE i, tmp |-> NoFile,
                     data |-> [j \in Inodes |-> IF j = i /\ first # NoFile THEN first ELSE Empty],
                     version |-> V(first)]
          /\ tray = [cfg |-> C(first), base |-> IF first = Garbled THEN -1 ELSE V(first),
                     profile |-> P(first), remote |-> NoName, menu |-> View(C(first), P(first), NoName),
                     draw |-> NoView, shared |-> FALSE,
                     holder |-> Nobody, refresh |-> FALSE, up |-> TRUE]
    BY DEF Init
  <1> DEFINE c == C(first)
             p == P(first)
             v == V(first)
  <1>2. /\ v \in {0, 1}
        /\ c = IF first = Garbled THEN NewConfig ELSE LoadConfig(first)
        /\ p = IF first = Garbled THEN NoProfile ELSE Resolve(c, ProfileFlag)
        /\ v = IF first = NoFile THEN 0 ELSE 1
        /\ disk = [path |-> IF first = NoFile THEN NoFile ELSE i, tmp |-> NoFile,
                   data |-> [j \in Inodes |-> IF j = i /\ first # NoFile THEN first ELSE Empty],
                   version |-> v]
        /\ tray = [cfg |-> c, base |-> IF first = Garbled THEN -1 ELSE v, profile |-> p,
                   remote |-> NoName, menu |-> View(c, p, NoName),
                   draw |-> NoView, shared |-> FALSE,
                   holder |-> Nobody, refresh |-> FALSE, up |-> TRUE]
    BY <1>a
  <1> HIDE DEF c, p, v
  <1> HIDE DEF i
  <1>3. /\ c \in Loaded /\ (c.nil <=> first = NoFile)
        /\ c.nil => c.tunnels = {} /\ c.profiles = {}
        /\ first \notin {NoFile, Garbled} => c = first /\ first \in Config
    BY <1>2, NewConfigs, LoadedConfigs
  <1>b. Sound(c)
    BY <1>2, NewConfigs, LoadedConfigs DEF Sound
  <1>4. p \in Profile
    BY <1>1, <1>2, <1>3, ResolvedProfiles DEF NoProfile, Profile
  <1>5. PICK menu \in Menu : menu = View(c, p, NoName) /\ menu.tunnels = c.tunnels /\ menu.profiles = c.profiles
    BY <1>3, <1>4, Views
  <1>6. /\ disk \in Disk /\ (disk.path = NoFile <=> first = NoFile)
        /\ disk.path = NoFile => disk.version = 0
        /\ \A j \in Inodes : disk.data[j] \in {first, Empty}
        /\ \A j \in Inodes : disk.data[j] \in Config => disk.data[j] = c
    BY <1>1, <1>2, <1>3 DEF Disk
  <1>c. PICK none \in Menu : none = NoView /\ none.tunnels = {} /\ none.profiles = {}
    BY Views, NewConfigs DEF NoView, NoProfile, Profile, NewConfig
  <1>7. /\ tray \in Tray /\ tray.cfg = c /\ tray.menu = menu /\ tray.holder = Nobody /\ tray.up
        /\ tray.draw = none /\ ~tray.shared
        /\ tray.cfg.nil => tray.base = 0
    BY <1>2, <1>3, <1>4, <1>5, <1>c DEF Tray
  <1>8. PICK poll \in Process : poll = [Idle EXCEPT !.pc = "poll"] /\ poll.pc = "poll" /\ poll.fd = NoFile /\ poll.mem = NewConfig
    BY IdleIsProcess DEF PCs
  <1>9. /\ proc \in [Procs -> Process]
        /\ proc[Loop] = poll /\ \A q \in Procs \ {Loop} : proc[q] = Idle
    BY <1>8, IdleIsProcess DEF Init
  <1>10. /\ seen \in [overlap : BOOLEAN, misclick : BOOLEAN, panic : BOOLEAN]
         /\ ~seen.panic
    BY DEF Init
  <1>11. Idle.pc = "idle" /\ Idle.fd = NoFile /\ Idle.mem = NewConfig
    BY IdleIsProcess
  <1>12. \A q \in Procs : /\ proc[q].pc \in {"idle", "poll"} /\ proc[q].fd = NoFile /\ proc[q].mem = NewConfig
                          /\ proc[q].pc = "poll" <=> q = Loop
    BY <1>8, <1>9, <1>11
  <1>13. TypeOK
    BY <1>1, <1>6, <1>7, <1>9, <1>10, <1>12 DEF TypeOK, Saving, At
  <1>14. AsksFit
    BY <1>12 DEF AsksFit, At, Saving
  <1>15. NilMeansNoFile
    BY <1>3, <1>5, <1>6, <1>7, <1>12, <1>c DEF NilMeansNoFile, ClicksOnMenu, Asks, MenuShows, At
  <1>16. DefaultExists
    <2>1. \A q \in Procs : Sound(proc[q].mem)
      BY <1>12, NewConfigs
    <2>2. QED
      BY <1>6, <1>7, <1>b, <2>1 DEF DefaultExists
  <1>17. QED
    BY <1>10, <1>13, <1>14, <1>15, <1>16 DEF IInv

\* The config file and its copies in commands and widget keep a default that
\* exists, stale clicks apart, and a nil map only where there was no file, in every reachable state.
THEOREM ClientInvariance == Spec => []IInv
  <1>1. Init => IInv
    BY InitHolds
  <1>2. IInv /\ [Next]_vars => IInv'
    <2> SUFFICES ASSUME IInv, [Next]_vars PROVE IInv'
      OBVIOUS
    <2>1. ASSUME NEW q \in Commands, Begin(q) \/ CommandRuns(q) \/ Killed(q)
          PROVE  IInv'
      BY <2>1, BeginKeeps, CommandKeeps, FileKeeps, SaveEnds DEF CommandRuns, Save
    <2>2. ASSUME NEW k \in Clicks, Click(k) \/ ClickRuns(k)
          PROVE  IInv'
      BY <2>2, ClickKeeps, ActKeeps, DownKeeps, FileKeeps, SaveEnds, LoadKeeps, AssignKeeps, RefreshKeeps
        DEF ClickRuns, Save, Refresh, Workers
    <2>3. CASE LoopRuns
      BY <2>3, LoadKeeps, AssignKeeps, RefreshKeeps DEF LoopRuns, LoopDraws, Refresh, Workers
    <2>4. CASE UNCHANGED vars
      BY <2>4 DEF vars, IInv, TypeOK, AsksFit, NilMeansNoFile, DefaultExists,
          ClicksOnMenu, Asks, MenuShows, At, Saving
    <2>5. QED
      BY <2>1, <2>2, <2>3, <2>4, DownKeeps DEF Next
  <1>3. QED
    BY <1>1, <1>2, PTL DEF Spec

\* As long as nobody clicks a profile that an older menu still showed, no config,
\* on disk or on its way there, has a default that it lacks, however many commands
\* and clicks read and write the file at once.
THEOREM DefaultsExist == Spec => []DefaultExists
  <1>1. IInv => DefaultExists
    BY DEF IInv
  <1>2. QED
    BY <1>1, ClientInvariance, PTL

-----------------------------------------------------------------------------
(* Saves.  As long as no two of them run at once, path.tmp belongs to the  *)
(* one that runs; and a copy of the file is the file, or older.            *)

\* What a save made from c leaves in it, of what nobody asked it to change.
SaveKeeps(c, d, ask) ==
    /\ ask.kind # "logout" => c.profiles \subseteq d.profiles
    /\ ask.kind # "forget" => c.tunnels \subseteq d.tunnels
    /\ ask.kind \in {"forget", "new"} => d.default = c.default

Current(base) == base = disk.version /\ OnDisk \in Config

\* No copy is ahead of the file.
Bases == tray.base <= disk.version /\ \A q \in Procs : proc[q].base <= disk.version

\* The one that saves has path.tmp for itself, and it is not the file.
OneSave ==
    /\ \A q, r \in Procs : Saving(q) /\ Saving(r) => q = r
    /\ \A q \in Procs : Saving(q) =>
          /\ proc[q].fd = disk.tmp
          /\ disk.data[disk.tmp] = IF At(q, "write") THEN Empty ELSE proc[q].mem
    /\ disk.tmp # NoFile => disk.tmp # disk.path

GoodFile == Readable \/ (OnDisk = Garbled /\ disk.version = 1)

\* What is copied, or made of a copy, and not out of date.
ProcCopies(q) ==
    Current(proc[q].base) =>
        /\ proc[q].pc \in {"verify", "assign"} => proc[q].mem = OnDisk
        /\ proc[q].pc \in {"save", "write", "rename"} => SaveKeeps(OnDisk, proc[q].mem, proc[q].ask)

TrayCopies ==
    /\ tray.up /\ tray.holder = Nobody /\ Current(tray.base) => tray.cfg = OnDisk
    /\ \A k \in Clicks : tray.holder = k => tray.cfg = proc[k].mem

SaveInv ==
    /\ Bases
    /\ ~seen.overlap => OneSave /\ GoodFile /\ TrayCopies /\ \A q \in Procs : ProcCopies(q)
\* A step of one process that leaves the file alone and does not save: what it
\* must know of its own copy, and of the widget's.
LEMMA QuietSaves ==
    ASSUME IInv, SaveInv, NEW q \in Procs, NEW x \in Process, Becomes(q, x), UNCHANGED disk,
           seen'.overlap = seen.overlap,
           x.pc \notin {"write", "rename"}, x.base <= disk.version, tray'.base <= disk.version,
           ~seen.overlap /\ Current(x.base) =>
              /\ x.pc \in {"verify", "assign"} => x.mem = OnDisk
              /\ x.pc = "save" => SaveKeeps(OnDisk, x.mem, x.ask),
           ~seen.overlap =>
              /\ tray'.up /\ tray'.holder = Nobody /\ Current(tray'.base) => tray'.cfg = OnDisk
              /\ \A k \in Clicks :
                    tray'.holder = k => tray'.cfg = IF k = q THEN x.mem ELSE proc[k].mem
    PROVE  SaveInv'
  <1>1. TypeOK
    BY DEF IInv
  <1>2. /\ proc'[q] = x
        /\ \A r \in Procs \ {q} : proc'[r] = proc[r]
    BY <1>1, Moves
  <1>3. Bases'
    BY <1>2 DEF SaveInv, Bases
  <1>4. OnDisk' = OnDisk /\ disk' = disk /\ (Readable' <=> Readable)
    BY DEF OnDisk, Readable
  <1>5. ASSUME ~seen.overlap PROVE OneSave'
    <2>1. OneSave
      BY <1>5 DEF SaveInv
    <2>2. \A r \in Procs : Saving(r)' => r # q /\ Saving(r) /\ proc'[r] = proc[r]
      BY <1>2 DEF Saving
    <2>3. QED
      BY <2>1, <2>2 DEF OneSave, At
  <1>6. ASSUME ~seen.overlap PROVE GoodFile'
    <2>1. GoodFile
      BY <1>6 DEF SaveInv
    <2>2. QED
      BY <1>4, <2>1 DEF GoodFile
  <1>7. ASSUME ~seen.overlap PROVE TrayCopies'
    BY <1>2, <1>4, <1>7 DEF TrayCopies, Procs, Workers, Current
  <1>8. ASSUME ~seen.overlap, NEW r \in Procs PROVE ProcCopies(r)'
    <2>1. ProcCopies(r)
      BY <1>8 DEF SaveInv
    <2>2. CASE r = q
      BY <1>2, <1>4, <1>8, <2>2 DEF ProcCopies, Current
    <2>3. CASE r # q
      BY <1>2, <1>4, <2>1, <2>3 DEF ProcCopies, Current
    <2>4. QED
      BY <2>2, <2>3
  <1>9. QED
    BY <1>3, <1>5, <1>6, <1>7, <1>8 DEF SaveInv

\* The same, of a process that does not hold ui.mu and leaves the copy alone.
LEMMA QuietTray ==
    ASSUME IInv, SaveInv, NEW q \in Procs, NEW x \in Process, Becomes(q, x), UNCHANGED disk,
           seen'.overlap = seen.overlap,
           x.pc \notin {"write", "rename"}, x.base <= disk.version,
           ~seen.overlap /\ Current(x.base) =>
              /\ x.pc \in {"verify", "assign"} => x.mem = OnDisk
              /\ x.pc = "save" => SaveKeeps(OnDisk, x.mem, x.ask),
           tray'.base = tray.base, tray'.cfg = tray.cfg, tray'.up = tray.up,
           tray'.holder = tray.holder,
           q \in Clicks => proc[q].pc \notin {"save", "write", "rename"}
    PROVE  SaveInv'
  <1>1. q \in Clicks => tray.holder # q
    BY DEF IInv, TypeOK, At, Saving
  <1>2. tray.base <= disk.version
    BY DEF SaveInv, Bases
  <1>3. ASSUME ~seen.overlap PROVE TrayCopies
    BY <1>3 DEF SaveInv
  <1>4. Current(tray'.base) <=> Current(tray.base)
    OBVIOUS
  <1>5. ASSUME ~seen.overlap
        PROVE  /\ tray'.up /\ tray'.holder = Nobody /\ Current(tray'.base) => tray'.cfg = OnDisk
               /\ \A k \in Clicks :
                     tray'.holder = k => tray'.cfg = IF k = q THEN x.mem ELSE proc[k].mem
    BY <1>1, <1>3, <1>4, <1>5 DEF TrayCopies
  <1>6. tray'.base <= disk.version
    BY <1>2
  <1>7. QED
    BY <1>5, <1>6, QuietSaves

LEMMA VersionIsNat ==
    ASSUME IInv
    PROVE  disk.version \in Nat /\ 0 <= disk.version /\ -1 <= disk.version
  BY DEF IInv, TypeOK, Disk

\* Return leaves a process nothing to save.
LEMMA ReturnSaves ==
    ASSUME IInv, SaveInv, NEW q \in Procs, NEW where \in {"done", "polled", "poll", "load"},
           Return(q, where), UNCHANGED disk, seen'.overlap = seen.overlap,
           tray'.base = tray.base, tray'.cfg = tray.cfg, tray'.up = tray.up,
           tray'.holder = tray.holder,
           q \in Clicks => proc[q].pc \notin {"save", "write", "rename"}
    PROVE  SaveInv'
  <1>1. PICK x \in Process : Becomes(q, x) /\ x.pc = where /\ x.base = 0
    BY IdleIsProcess DEF Return, PCs
  <1>2. QED
    BY <1>1, VersionIsNat, QuietTray

\* To leaves a process its copy, which matters only where one is kept.
LEMMA ToSaves ==
    ASSUME IInv, SaveInv, NEW q \in Procs, NEW where \in PCs \ {"verify", "assign", "save", "write", "rename"},
           To(q, where), UNCHANGED disk, seen'.overlap = seen.overlap,
           tray'.base = tray.base, tray'.cfg = tray.cfg, tray'.up = tray.up,
           tray'.holder = tray.holder,
           q \in Clicks => proc[q].pc \notin {"save", "write", "rename"}
    PROVE  SaveInv'
  <1>1. PICK old \in Process : old = proc[q]
    BY DEF IInv, TypeOK
  <1> DEFINE x == [old EXCEPT !.pc = where]
  <1>2. x \in Process /\ x.pc = where /\ x.base = old.base
    BY DEF Process
  <1>3. Becomes(q, x)
    BY <1>1 DEF To
  <1> HIDE DEF x
  <1>4. x.base <= disk.version
    BY <1>1, <1>2 DEF SaveInv, Bases
  <1>5. QED
    BY <1>2, <1>3, <1>4, QuietTray

\* A command.
LEMMA CommandSaves ==
    ASSUME IInv, SaveInv, NEW q \in Commands, Begin(q) \/ Verify(q) \/ Killed(q)
    PROVE  SaveInv'
  <1> USE ClientAssumption DEF Procs, Workers
  <1>1. UNCHANGED <<disk, tray, seen>> /\ q \notin Clicks
    BY DEF Begin, Verify, Killed
  <1>2. CASE Return(q, "done")
    BY <1>1, <1>2, ReturnSaves
  <1>3. PICK old \in Process : old = proc[q]
    BY DEF IInv, TypeOK
  <1>4. disk.version \in Int
    BY VersionIsNat
  <1>5. OnDisk \in Config /\ Readable => LoadConfig(OnDisk) = OnDisk
    BY LoadedConfigs
  <1>6. ASSUME Readable, NEW ask \in Asked, ask.kind = "login",
               Becomes(q, [old EXCEPT !.pc = "verify", !.ask = ask, !.mem = LoadConfig(OnDisk),
                                      !.base = disk.version])
        PROVE  SaveInv'
    <2>1. PICK c \in Loaded : c = LoadConfig(OnDisk)
      BY <1>6, DiskLoads
    <2> DEFINE x == [old EXCEPT !.pc = "verify", !.ask = ask, !.mem = c, !.base = disk.version]
    <2>2. x \in Process /\ x.pc = "verify" /\ x.ask = ask /\ x.mem = c /\ x.base = disk.version
      BY <1>4 DEF Process, PCs
    <2>3. Becomes(q, x)
      BY <1>6, <2>1
    <2> HIDE DEF x
    <2>4. QED
      BY <1>1, <1>4, <1>5, <1>6, <2>1, <2>2, <2>3, QuietTray DEF Current
  <1>7. ASSUME Readable, NEW ask \in Asked, ask.kind = "logout",
               Becomes(q, [old EXCEPT !.pc = "save", !.ask = ask,
                                      !.mem = Marshal(Logout(LoadConfig(OnDisk), ask)),
                                      !.base = disk.version])
        PROVE  SaveInv'
    <2>1. PICK c \in Loaded : c = LoadConfig(OnDisk)
      BY <1>7, DiskLoads
    <2>2. PICK d \in Loaded : d = Marshal(Logout(c, ask)) /\ d.tunnels = c.tunnels
      <3>1. Marshal(Logout(c, ask)) \in Loaded
        BY LogoutKeeps, MarshalledConfigs DEF Config
      <3>2. Marshal(Logout(c, ask)).tunnels = c.tunnels
        BY DEF Marshal, Logout, Loaded
      <3>3. QED
        BY <3>1, <3>2
    <2> DEFINE x == [old EXCEPT !.pc = "save", !.ask = ask, !.mem = d, !.base = disk.version]
    <2>3. x \in Process /\ x.pc = "save" /\ x.ask = ask /\ x.mem = d /\ x.base = disk.version
      BY <1>4 DEF Process, PCs
    <2>4. Becomes(q, x)
      BY <1>7, <2>1, <2>2
    <2> HIDE DEF x
    <2>5. OnDisk \in Config => SaveKeeps(OnDisk, d, ask)
      BY <1>5, <1>7, <2>1, <2>2 DEF SaveKeeps
    <2>6. QED
      BY <1>1, <1>4, <2>3, <2>4, <2>5, QuietTray DEF Current
  <1>8. CASE At(q, "verify") /\ Becomes(q, [proc[q] EXCEPT !.pc = "save", !.mem = Marshal(Login(@, proc[q].ask))])
    <2>1. old.mem \in Loaded /\ old.ask.name \in Profiles /\ old.ask.kind = "login"
          /\ old.base <= disk.version
      BY <1>3, <1>8 DEF IInv, AsksFit, Process, SaveInv, Bases
    <2>2. PICK d \in Loaded : /\ d = Marshal(Login(old.mem, old.ask))
                              /\ d.tunnels = old.mem.tunnels
                              /\ old.mem.profiles \subseteq d.profiles
      <3>1. Marshal(Login(old.mem, old.ask)) \in Loaded
        BY <2>1, LoginKeeps, MarshalledConfigs DEF Config
      <3>2. /\ Marshal(Login(old.mem, old.ask)).tunnels = old.mem.tunnels
            /\ old.mem.profiles \subseteq Marshal(Login(old.mem, old.ask)).profiles
        BY <2>1 DEF Marshal, Login, Loaded
      <3>3. QED
        BY <3>1, <3>2
    <2> DEFINE x == [old EXCEPT !.pc = "save", !.mem = d]
    <2>3. x \in Process /\ x.pc = "save" /\ x.ask = old.ask /\ x.mem = d /\ x.base = old.base
      BY DEF Process, PCs
    <2>4. Becomes(q, x)
      BY <1>3, <1>8, <2>2
    <2> HIDE DEF x
    <2>5. ~seen.overlap /\ Current(old.base) => SaveKeeps(OnDisk, d, old.ask)
      BY <1>3, <1>8, <2>1, <2>2 DEF SaveInv, ProcCopies, At, SaveKeeps
    <2>6. QED
      BY <1>1, <2>1, <2>3, <2>4, <2>5, QuietTray DEF Current
  <1>9. QED
    BY <1>2, <1>3, <1>6, <1>7, <1>8 DEF Begin, Verify, Killed

\* The file is what it was when another inode changes.
LEMMA FileSame ==
    ASSUME IInv, NEW i \in Inodes, i # disk.path, NEW c, NEW t,
           disk' = [disk EXCEPT !.tmp = t, !.data = [@ EXCEPT ![i] = c]]
    PROVE  /\ disk'.path = disk.path /\ disk'.version = disk.version /\ disk'.tmp = t
           /\ disk'.data[i] = c
           /\ OnDisk' = OnDisk /\ (Readable' <=> Readable)
  <1>1. disk \in Disk
    BY DEF IInv, TypeOK
  <1>2. /\ disk'.path = disk.path /\ disk'.version = disk.version /\ disk'.tmp = t
        /\ disk'.data[i] = c
        /\ disk.path \in Inodes => disk'.data[disk.path] = disk.data[disk.path]
    BY <1>1 DEF Disk
  <1>3. OnDisk' = OnDisk
    BY <1>1, <1>2 DEF OnDisk, Disk
  <1>4. QED
    BY <1>2, <1>3 DEF Readable

\* Open and Write, by the one that saves.
LEMMA FileSaves ==
    ASSUME IInv, SaveInv, NEW q \in Commands \cup Clicks, Open(q) \/ Write(q)
    PROVE  SaveInv'
  <1> USE ClientAssumption DEF Procs, Workers
  <1>1. TypeOK /\ disk \in Disk /\ UNCHANGED tray /\ (~seen'.overlap => ~seen.overlap)
    BY DEF IInv, TypeOK, Open, Write
  <1>2. PICK old \in Process : old = proc[q]
    BY <1>1 DEF TypeOK
  <1>3. PICK i \in Inodes, w \in {"write", "rename"}, c \in Config \cup {Empty, Garbled},
             t \in Inodes \cup {NoFile} :
          /\ disk' = [disk EXCEPT !.tmp = t, !.data = [@ EXCEPT ![i] = c]]
          /\ Becomes(q, [old EXCEPT !.pc = w, !.fd = i])
          /\ ~seen'.overlap =>
                /\ \A r \in Procs \ {q} : ~Saving(r)
                /\ i # disk.path /\ t = i
                /\ c = IF w = "write" THEN Empty ELSE old.mem
    <2>1. CASE Open(q)
      <3>1. PICK i \in IF disk.tmp # NoFile THEN {disk.tmp} ELSE Unused :
              /\ disk' = [disk EXCEPT !.tmp = i, !.data = [@ EXCEPT ![i] = Empty]]
              /\ Becomes(q, [proc[q] EXCEPT !.pc = "write", !.fd = i])
        BY <2>1 DEF Open
      <3>2. i \in Inodes
        BY <1>1, <3>1 DEF Disk, Unused
      <3>3. ~seen'.overlap => i # disk.path
        BY <1>1, <3>1 DEF SaveInv, OneSave, Unused
      <3>4. ~seen'.overlap => \A r \in Procs \ {q} : ~Saving(r)
        BY <1>1, <2>1 DEF Open, TypeOK
      <3>5. QED
        BY <1>2, <3>1, <3>2, <3>3, <3>4
    <2>2. CASE Write(q)
      <3>1. PICK c \in {old.mem} \cup (IF disk.data[old.fd] = Empty THEN {} ELSE {Garbled}) :
              /\ disk' = [disk EXCEPT !.data = [@ EXCEPT ![old.fd] = c]]
              /\ Becomes(q, [old EXCEPT !.pc = "rename"])
        BY <1>2, <2>2 DEF Write, To
      <3>2. old.fd \in Inodes /\ Saving(q) /\ old.pc = "write"
        BY <1>1, <1>2, <2>2 DEF Write, At, TypeOK, Saving, Process
      <3>3. ~seen'.overlap =>
               /\ \A r \in Procs \ {q} : ~Saving(r)
               /\ old.fd # disk.path /\ disk.tmp = old.fd
               /\ c = old.mem
        BY <1>1, <1>2, <3>1, <3>2 DEF SaveInv, OneSave, At
      <3>4. disk' = [disk EXCEPT !.tmp = disk.tmp, !.data = [@ EXCEPT ![old.fd] = c]]
        BY <1>1, <3>1 DEF Disk
      <3>5. [old EXCEPT !.pc = "rename"] = [old EXCEPT !.pc = "rename", !.fd = old.fd]
        BY DEF Process
      <3>6. Becomes(q, [old EXCEPT !.pc = "rename", !.fd = old.fd])
        BY <3>1, <3>5
      <3>7. /\ disk.tmp \in Inodes \cup {NoFile} /\ c \in Config \cup {Empty, Garbled}
            /\ "rename" \in {"write", "rename"} /\ "rename" # "write"
        BY <1>1, <1>2, <2>2, <3>1, <3>2 DEF Disk, IInv, AsksFit, Config, Process
      <3>8. QED
        BY <3>2, <3>3, <3>4, <3>6, <3>7, Zenon
    <2>3. QED
      BY <2>1, <2>2
  <1> DEFINE x == [old EXCEPT !.pc = w, !.fd = i]
  <1>4. x \in Process /\ x.pc = w /\ x.mem = old.mem /\ x.fd = i /\ x.base = old.base /\ x.ask = old.ask
    BY DEF Process, PCs
  <1>5. Becomes(q, x)
    BY <1>3
  <1> HIDE DEF x
  <1>6. proc'[q] = x /\ \A r \in Procs \ {q} : proc'[r] = proc[r]
    BY <1>1, <1>4, <1>5, Moves
  <1>7. old.pc \in {"save", "write"}
    BY <1>2 DEF Open, Write, At
  <1>8. Bases'
    <2>1. disk'.version = disk.version
      BY <1>1, <1>3 DEF Disk
    <2>2. QED
      BY <1>1, <1>2, <1>4, <1>6, <2>1 DEF SaveInv, Bases
  <1>9. ASSUME ~seen'.overlap
        PROVE  OneSave' /\ GoodFile' /\ TrayCopies' /\ \A r \in Procs : ProcCopies(r)'
    <2>1. /\ OneSave /\ GoodFile /\ TrayCopies /\ \A r \in Procs : ProcCopies(r)
      BY <1>1, <1>9 DEF SaveInv
    <2>2. /\ disk'.path = disk.path /\ disk'.version = disk.version /\ disk'.tmp = i
          /\ disk'.data[i] = c
          /\ OnDisk' = OnDisk /\ (Readable' <=> Readable)
      BY <1>3, <1>9, FileSame
    <2>3. \A r \in Procs \ {q} : ~Saving(r) /\ ~Saving(r)'
      BY <1>3, <1>6, <1>9 DEF Saving
    <2>4. OneSave'
      BY <1>3, <1>4, <1>6, <1>9, <2>2, <2>3 DEF OneSave, At
    <2>5. GoodFile'
      BY <2>1, <2>2 DEF GoodFile
    <2>6. TrayCopies'
      BY <1>1, <1>2, <1>4, <1>6, <2>1, <2>2 DEF TrayCopies, Current
    <2>7. ASSUME NEW r \in Procs PROVE ProcCopies(r)'
      <3>1. ProcCopies(r)
        BY <2>1
      <3>2. CASE r = q
        BY <1>2, <1>4, <1>6, <1>7, <2>2, <3>1, <3>2 DEF ProcCopies, Current
      <3>3. CASE r # q
        BY <1>6, <2>2, <3>1, <3>3 DEF ProcCopies, Current
      <3>4. QED
        BY <3>2, <3>3
    <2>8. QED
      BY <2>4, <2>5, <2>6, <2>7
  <1>10. QED
    BY <1>8, <1>9 DEF SaveInv

\* A rename puts in place what the one that saves had in mind.
LEMMA RenameFacts ==
    ASSUME IInv, NEW q \in Commands \cup Clicks, Rename(q), disk.tmp # NoFile
    PROVE  /\ disk'.path = disk.tmp /\ disk'.tmp = NoFile /\ disk'.version = disk.version + 1
           /\ OnDisk' = disk'.data[disk.tmp]
           /\ SaveInv /\ ~seen.overlap => OnDisk' = proc[q].mem /\ proc[q].mem \in Config
  <1> USE ClientAssumption DEF Procs, Workers
  <1>1. TypeOK /\ disk \in Disk /\ At(q, "rename") /\ Saving(q)
    BY DEF IInv, TypeOK, Rename, At, Saving
  <1>2. disk' = [path |-> disk.tmp, tmp |-> NoFile, version |-> disk.version + 1,
                 data |-> [i \in Inodes |-> IF i = disk.path /\ \A r \in Procs : proc[r].fd # i
                                            THEN Empty ELSE disk.data[i]]]
    BY DEF Rename
  <1>3. disk.tmp \in Inodes
    BY <1>1 DEF Disk
  <1>4. OnDisk' = disk'.data[disk.tmp]
    BY <1>2 DEF OnDisk
  <1>5. SaveInv /\ ~seen.overlap => OnDisk' = proc[q].mem
    <2>1. SaveInv /\ ~seen.overlap => /\ proc[q].fd = disk.tmp
                                      /\ disk.data[disk.tmp] = proc[q].mem
      BY <1>1 DEF SaveInv, OneSave, At
    <2>2. proc[q].fd = disk.tmp => disk'.data[disk.tmp] = disk.data[disk.tmp]
      BY <1>2, <1>3
    <2>3. QED
      BY <1>4, <2>1, <2>2
  <1>6. proc[q].mem \in Config
    BY <1>1 DEF IInv, TypeOK, AsksFit, Process, Config
  <1>7. QED
    BY <1>2, <1>4, <1>5, <1>6

\* A Save that fails leaves the file, and a copy of the widget that is its own.
LEMMA FailureSaves ==
    ASSUME IInv, SaveInv, NEW q \in Commands \cup Clicks, Saving(q), Saved(q, FALSE), UNCHANGED <<disk, seen>>
    PROVE  SaveInv'
  <1> USE ClientAssumption DEF Procs, Workers
  <1>1. PICK x \in Process : Becomes(q, x) /\ x.pc = "done" /\ x.base = 0
    BY IdleIsProcess DEF Saved, Return, PCs
  <1>2. CASE q \notin Clicks
    BY <1>1, <1>2, VersionIsNat, QuietTray DEF Saved
  <1>3. CASE q \in Clicks
    <2>1. tray.holder = q /\ tray \in Tray
      BY <1>3 DEF IInv, TypeOK
    <2>2. tray' = [tray EXCEPT !.holder = Nobody, !.base = -1,
                               !.refresh = tray.refresh \/ proc[q].ask.kind = "forget"]
      BY <1>3, <2>1 DEF Saved, Tray
    <2>3. tray'.holder = Nobody /\ tray'.base = -1
      BY <2>1, <2>2 DEF Tray
    <2>4. ~Current(tray'.base) /\ tray'.base <= disk.version
      BY <2>3, VersionIsNat DEF Current
    <2>5. \A k \in Clicks : tray'.holder # k
      BY <2>3
    <2>6. QED
      BY <1>1, <2>4, <2>5, VersionIsNat, QuietSaves
  <1>4. QED
    BY <1>2, <1>3

\* A rename makes all the other copies out of date.
LEMMA RenameSaves ==
    ASSUME IInv, SaveInv, NEW q \in Commands \cup Clicks, Rename(q), disk.tmp # NoFile
    PROVE  SaveInv'
  <1> USE ClientAssumption DEF Procs, Workers
  <1>1. TypeOK /\ Saving(q) /\ Saved(q, TRUE) /\ UNCHANGED seen /\ disk.version \in Nat
        /\ tray \in Tray
    BY DEF IInv, TypeOK, Rename, At, Saving, Disk
  <1>2. /\ disk'.tmp = NoFile /\ disk'.version = disk.version + 1
        /\ ~seen.overlap => OnDisk' = proc[q].mem /\ proc[q].mem \in Config
    BY RenameFacts
  <1>3. PICK x \in Process : Becomes(q, x) /\ x.pc \in {"load", "done"} /\ x.base = 0
    BY <1>1, IdleIsProcess DEF Saved, Return, PCs
  <1>4. proc' \in [Procs -> Process] /\ proc'[q] = x /\ \A r \in Procs \ {q} : proc'[r] = proc[r]
    BY <1>1, <1>3, Moves
  <1>5. /\ q \notin Clicks => tray' = tray
        /\ q \in Clicks => /\ tray'.holder = Nobody /\ tray'.base = disk.version + 1
                           /\ tray'.cfg = tray.cfg /\ tray.holder = q
    <2>1. CASE q \notin Clicks
      BY <1>1, <2>1 DEF Saved
    <2>2. CASE q \in Clicks
      <3>1. tray' = [tray EXCEPT !.holder = Nobody, !.base = disk.version + 1,
                                 !.refresh = tray.refresh \/ proc[q].ask.kind = "forget"
                                                          \/ (TRUE /\ proc[q].ask.kind = "new")]
        BY <1>1, <2>2 DEF Saved
      <3>2. tray.holder = q
        BY <1>1, <2>2 DEF TypeOK
      <3>3. QED
        BY <1>1, <2>2, <3>1, <3>2 DEF Tray
    <2>3. QED
      BY <2>1, <2>2
  <1>6. \A r \in Procs : proc'[r].base \in Int /\ proc[r].base \in Int /\ proc[r].base <= disk.version
    BY <1>1, <1>4 DEF TypeOK, Process, SaveInv, Bases
  <1>7. \A r \in Procs : proc'[r].base < disk'.version
    BY <1>1, <1>2, <1>3, <1>4, <1>6
  <1>8. tray.base \in Int /\ tray.base <= disk.version
    BY <1>1 DEF SaveInv, Bases, Tray
  <1>9. Bases'
    BY <1>1, <1>2, <1>5, <1>6, <1>7, <1>8 DEF Bases
  <1>10. ASSUME ~seen.overlap
         PROVE  OneSave' /\ GoodFile' /\ TrayCopies' /\ \A r \in Procs : ProcCopies(r)'
    <2>1. OneSave /\ TrayCopies
      BY <1>10 DEF SaveInv
    <2>2. \A r \in Procs : ~Saving(r)'
      BY <1>1, <1>3, <1>4, <2>1 DEF OneSave, Saving
    <2>3. OneSave'
      BY <1>2, <2>2 DEF OneSave
    <2>4. GoodFile'
      <3>1. OnDisk' \in Config
        BY <1>2, <1>10
      <3>2. QED
        BY <3>1 DEF GoodFile, Readable
    <2>5. TrayCopies'
      <3>1. CASE q \in Clicks
        <4>1. tray'.cfg = OnDisk'
          BY <1>2, <1>5, <1>10, <2>1, <3>1 DEF TrayCopies
        <4>2. QED
          BY <1>5, <3>1, <4>1 DEF TrayCopies
      <3>2. CASE q \notin Clicks
        <4>1. tray' = tray /\ tray.base # disk'.version
          BY <1>1, <1>2, <1>5, <1>8, <3>2
        <4>2. \A k \in Clicks : proc'[k] = proc[k]
          BY <1>4, <3>2
        <4>3. QED
          BY <2>1, <4>1, <4>2 DEF TrayCopies, Current
      <3>3. QED
        BY <3>1, <3>2
    <2>6. ASSUME NEW r \in Procs PROVE ProcCopies(r)'
      <3>1. proc'[r].base # disk'.version
        BY <1>1, <1>2, <1>6, <1>7
      <3>2. QED
        BY <3>1 DEF ProcCopies, Current
    <2>7. QED
      BY <2>3, <2>4, <2>5, <2>6
  <1>11. QED
    BY <1>1, <1>9, <1>10 DEF SaveInv

LEMMA SaveEndsSaves ==
    ASSUME IInv, SaveInv, NEW q \in Commands \cup Clicks, WriteFails(q) \/ Rename(q)
    PROVE  SaveInv'
  <1>1. CASE WriteFails(q)
    BY <1>1, FailureSaves DEF WriteFails, At, Saving
  <1>2. CASE Rename(q) /\ disk.tmp = NoFile
    BY <1>2, FailureSaves DEF Rename, At, Saving
  <1>3. CASE Rename(q) /\ disk.tmp # NoFile
    BY <1>3, RenameSaves
  <1>4. QED
    BY <1>1, <1>2, <1>3

LEMMA ClickSaves ==
    ASSUME IInv, SaveInv, NEW k \in Clicks, Click(k)
    PROVE  SaveInv'
  <1> USE ClientAssumption DEF Procs, Workers
  <1>1. PICK old \in Process : old = proc[k]
    BY DEF IInv, TypeOK
  <1>2. PICK ask \in Asked : Becomes(k, [old EXCEPT !.pc = "act", !.ask = ask])
    BY <1>1 DEF Click
  <1> DEFINE x == [old EXCEPT !.pc = "act", !.ask = ask]
  <1>3. x \in Process /\ x.pc = "act" /\ x.base = old.base
    BY DEF Process, PCs
  <1>4. Becomes(k, x)
    BY <1>2
  <1> HIDE DEF x
  <1>5. x.base <= disk.version
    BY <1>1, <1>3 DEF SaveInv, Bases
  <1>6. UNCHANGED <<disk, tray, seen>> /\ proc[k].pc = "idle"
    BY DEF Click, At
  <1>7. QED
    BY <1>3, <1>4, <1>5, <1>6, QuietTray

\* What a click does to the widget's copy is what it will save.
LEMMA ActSaves ==
    ASSUME IInv, SaveInv, NEW k \in Clicks, Act(k)
    PROVE  SaveInv'
  <1> USE ClientAssumption DEF Procs, Workers
  <1>1. /\ TypeOK /\ At(k, "act") /\ tray.holder = Nobody /\ UNCHANGED disk /\ tray \in Tray
        /\ proc[k].ask \in Asked /\ tray.cfg \in Loaded /\ tray.up
        /\ tray.base \in Int /\ tray.base <= disk.version
    BY DEF IInv, TypeOK, Act, AsksFit, Tray, Unlocked, NilMeansNoFile, At, SaveInv, Bases
  <1>2. PICK old \in Process : old = proc[k]
    BY <1>1 DEF TypeOK
  <1>3. PICK c \in Loaded : c = tray.cfg
    BY <1>1
  <1>4. old.ask.kind \in {"forget", "select"} => ~c.nil
    BY <1>1, <1>2, <1>3 DEF IInv, NilMeansNoFile, ClicksOnMenu, Asks
  <1>5. seen'.overlap = seen.overlap
    <2>1. UNCHANGED seen => seen'.overlap = seen.overlap
      OBVIOUS
    <2>2. \A b : seen' = [seen EXCEPT !.misclick = b] => seen'.overlap = seen.overlap
      BY <1>1 DEF TypeOK
    <2>3. QED
      BY <2>1, <2>2 DEF Act
  <1>6. PICK d \in Loaded :
          /\ CopyBecomes(d, k)
          /\ Becomes(k, [old EXCEPT !.pc = "save", !.mem = Marshal(d), !.base = tray.base])
          /\ Marshal(d) = d
          /\ SaveKeeps(c, d, old.ask)
    <2>a. ASSUME NEW d \in Loaded, ~d.nil PROVE Marshal(d) = d
      BY <2>a DEF Marshal, Loaded
    <2>1. ASSUME old.ask.kind = "forget",
                 CopyBecomes([c EXCEPT !.tunnels = @ \ {old.ask.name}], k),
                 Becomes(k, [old EXCEPT !.pc = "save", !.mem = Marshal([c EXCEPT !.tunnels = @ \ {old.ask.name}]),
                                        !.base = tray.base])
          PROVE  \E d \in Loaded :
                    /\ CopyBecomes(d, k)
                    /\ Becomes(k, [old EXCEPT !.pc = "save", !.mem = Marshal(d), !.base = tray.base])
                    /\ Marshal(d) = d
                    /\ SaveKeeps(c, d, old.ask)
      <3> DEFINE d == [c EXCEPT !.tunnels = @ \ {old.ask.name}]
      <3>1. d \in Loaded /\ ~d.nil /\ SaveKeeps(c, d, old.ask)
        BY <1>4, <2>1 DEF Loaded, SaveKeeps
      <3>2. Marshal(d) = d
        BY <2>a, <3>1
      <3>3. QED
        BY <2>1, <3>1, <3>2
    <2>2. ASSUME old.ask.kind = "select",
                 CopyBecomes([c EXCEPT !.default = old.ask.name], k),
                 Becomes(k, [old EXCEPT !.pc = "save", !.mem = Marshal([c EXCEPT !.default = old.ask.name]),
                                        !.base = tray.base])
          PROVE  \E d \in Loaded :
                    /\ CopyBecomes(d, k)
                    /\ Becomes(k, [old EXCEPT !.pc = "save", !.mem = Marshal(d), !.base = tray.base])
                    /\ Marshal(d) = d
                    /\ SaveKeeps(c, d, old.ask)
      <3> DEFINE d == [c EXCEPT !.default = old.ask.name]
      <3>1. old.ask.name \in Profiles
        BY <1>1, <1>2, <2>2
      <3>2. d \in Loaded /\ ~d.nil /\ SaveKeeps(c, d, old.ask)
        BY <1>4, <2>2, <3>1 DEF Loaded, SaveKeeps
      <3>3. Marshal(d) = d
        BY <2>a, <3>2
      <3>4. QED
        BY <2>2, <3>2, <3>3
    <2>3. ASSUME old.ask.kind = "new", ~c.nil, NEW name \in UniqueNames(old.ask.name, c.tunnels),
                 CopyBecomes([c EXCEPT !.tunnels = @ \cup {name}], k),
                 Becomes(k, [old EXCEPT !.pc = "save", !.mem = Marshal([c EXCEPT !.tunnels = @ \cup {name}]),
                                        !.base = tray.base])
          PROVE  \E d \in Loaded :
                    /\ CopyBecomes(d, k)
                    /\ Becomes(k, [old EXCEPT !.pc = "save", !.mem = Marshal(d), !.base = tray.base])
                    /\ Marshal(d) = d
                    /\ SaveKeeps(c, d, old.ask)
      <3> DEFINE d == [c EXCEPT !.tunnels = @ \cup {name}]
      <3>1. name \in Tunnels
        BY <1>1, <1>2, <2>3 DEF UniqueNames
      <3>2. d \in Loaded /\ ~d.nil /\ SaveKeeps(c, d, old.ask)
        BY <2>3, <3>1 DEF Loaded, SaveKeeps
      <3>3. Marshal(d) = d
        BY <2>a, <3>2
      <3>4. QED
        BY <2>3, <3>2, <3>3
    <2>4. QED
      BY <1>2, <1>3, <2>1, <2>2, <2>3 DEF Act
  <1> DEFINE x == [old EXCEPT !.pc = "save", !.mem = d, !.base = tray.base]
  <1>7. x \in Process /\ x.pc = "save" /\ x.mem = d /\ x.ask = old.ask /\ x.base = tray.base
    BY <1>1 DEF Process, PCs
  <1>8. Becomes(k, x)
    BY <1>6
  <1> HIDE DEF x
  <1>9. tray'.cfg = d /\ tray'.holder = k /\ tray'.base = tray.base
    BY <1>1, <1>6 DEF Tray, CopyBecomes
  <1>10. ~seen.overlap /\ Current(x.base) => SaveKeeps(OnDisk, x.mem, x.ask)
    BY <1>1, <1>3, <1>6, <1>7 DEF SaveInv, TrayCopies
  <1>11. QED
    BY <1>1, <1>5, <1>7, <1>8, <1>9, <1>10, QuietSaves

\* The widget takes its saves with it.
LEMMA DownSaves ==
    ASSUME IInv, SaveInv, Quit \/ \E k \in Clicks : Panic(k) \/ Torn(k)
    PROVE  SaveInv'
  <1> USE ClientAssumption DEF Procs, Workers
  <1>1. TypeOK /\ tray \in Tray /\ Down /\ UNCHANGED disk /\ seen'.overlap = seen.overlap
    BY DEF IInv, TypeOK, Quit, Panic, Torn
  <1>2. PICK x \in Process : x = [Idle EXCEPT !.pc = "done"] /\ x.pc = "done" /\ x.base = 0
    BY IdleIsProcess DEF PCs
  <1>3. /\ \A q \in Workers : proc'[q] = x
        /\ \A q \in Procs \ Workers : proc'[q] = proc[q]
    BY <1>1, <1>2 DEF Down
  <1>4. ~tray'.up /\ tray'.holder = Nobody /\ tray'.base = tray.base
    BY <1>1 DEF Down, Tray
  <1>5. Bases'
    BY <1>1, <1>2, <1>3, <1>4, VersionIsNat DEF SaveInv, Bases
  <1>6. OnDisk' = OnDisk /\ disk' = disk /\ (Readable' <=> Readable)
    BY <1>1 DEF OnDisk, Readable
  <1>7. \A q \in Procs : Saving(q)' => Saving(q) /\ proc'[q] = proc[q]
    BY <1>2, <1>3 DEF Saving
  <1>8. ASSUME ~seen.overlap
        PROVE  OneSave' /\ GoodFile' /\ TrayCopies' /\ \A q \in Procs : ProcCopies(q)'
    <2>1. OneSave'
      BY <1>6, <1>7, <1>8 DEF SaveInv, OneSave, At
    <2>2. GoodFile'
      BY <1>6, <1>8 DEF SaveInv, GoodFile
    <2>3. TrayCopies'
      BY <1>4 DEF TrayCopies
    <2>4. ASSUME NEW q \in Procs PROVE ProcCopies(q)'
      <3>1. CASE q \in Workers
        BY <1>2, <1>3, <3>1 DEF ProcCopies
      <3>2. CASE q \notin Workers
        BY <1>3, <1>6, <1>8, <3>2 DEF SaveInv, ProcCopies, Current
      <3>3. QED
        BY <3>1, <3>2
    <2>5. QED
      BY <2>1, <2>2, <2>3, <2>4
  <1>9. QED
    BY <1>1, <1>5, <1>8 DEF SaveInv

LEMMA LoadSaves ==
    ASSUME IInv, SaveInv, NEW q \in Workers, Load(q)
    PROVE  SaveInv'
  <1> USE ClientAssumption DEF Procs, Workers
  <1>1. UNCHANGED <<disk, tray, seen>> /\ proc[q].pc = "load"
    BY DEF Load, At
  <1>2. CASE Readable
    <2>1. PICK old \in Process : old = proc[q]
      BY DEF IInv, TypeOK
    <2>2. PICK c \in Loaded : c = LoadConfig(OnDisk)
      BY <1>2, DiskLoads
    <2>3. OnDisk \in Config => c = OnDisk
      BY <2>2, LoadedConfigs
    <2> DEFINE x == [old EXCEPT !.pc = "assign", !.mem = c, !.base = disk.version]
    <2>4. disk.version \in Int
      BY VersionIsNat
    <2>5. x \in Process /\ x.pc = "assign" /\ x.mem = c /\ x.base = disk.version
      BY <2>4 DEF Process, PCs
    <2>6. Becomes(q, x)
      BY <1>2, <2>1, <2>2 DEF Load
    <2> HIDE DEF x
    <2>7. QED
      BY <1>1, <2>3, <2>4, <2>5, <2>6, QuietTray DEF Current
  <1>3. CASE ~Readable
    BY <1>1, <1>3, ToSaves DEF Load, PCs
  <1>4. QED
    BY <1>2, <1>3

LEMMA AssignSaves ==
    ASSUME IInv, SaveInv, NEW q \in Workers, Assign(q)
    PROVE  SaveInv'
  <1> USE ClientAssumption DEF Procs, Workers
  <1>1. /\ UNCHANGED <<disk, seen>> /\ proc[q].pc = "assign" /\ tray.holder = Nobody /\ tray \in Tray
        /\ proc[q].base <= disk.version
    BY DEF IInv, TypeOK, Assign, At, Unlocked, SaveInv, Bases
  <1>2. PICK x \in Process : Becomes(q, x) /\ x.pc = "poll" /\ x.base = 0
    BY IdleIsProcess DEF Assign, Return, PCs
  <1>3. tray'.cfg = proc[q].mem /\ tray'.base = proc[q].base /\ tray'.holder = Nobody
    BY <1>1 DEF Assign, Tray
  <1>4. ~seen.overlap /\ Current(tray'.base) => tray'.cfg = OnDisk
    BY <1>1, <1>3 DEF SaveInv, ProcCopies
  <1>5. \A k \in Clicks : tray'.holder # k
    BY <1>3
  <1>6. QED
    BY <1>1, <1>2, <1>3, <1>4, <1>5, VersionIsNat, QuietSaves

LEMMA RefreshSaves ==
    ASSUME IInv, SaveInv, NEW q \in Workers,
           Poll(q) \/ Store(q) \/ Polled(q) \/ (q = Loop /\ LoopDraws)
    PROVE  SaveInv'
  <1> USE ClientAssumption DEF Procs, Workers
  <1>1. /\ UNCHANGED <<disk, seen>> /\ tray \in Tray
        /\ proc[q].pc \in {"poll", "store", "polled", "render", "draw", "names", "wait"}
    BY DEF IInv, TypeOK, Poll, Store, Polled, LoopDraws, Render, DrawTunnels, DrawProfiles, Tick, Redraw, At
  <1>2. /\ tray'.base = tray.base /\ tray'.cfg = tray.cfg /\ tray'.up = tray.up
        /\ tray'.holder = tray.holder
    <2>1. CASE Poll(q) \/ Polled(q) \/ Tick \/ Redraw \/ Render
      BY <1>1, <2>1 DEF Poll, Polled, Tick, Redraw, Render, Tray
    <2>2. CASE Store(q)
      <3>1. PICK r : tray' = [tray EXCEPT !.remote = r]
        BY <2>2 DEF Store
      <3>2. QED
        BY <1>1, <3>1 DEF Tray
    <2>3. CASE DrawTunnels
      BY <1>1, <2>3 DEF DrawTunnels, Tray
    <2>4. CASE DrawProfiles
      <3>1. PICK m : tray' = [tray EXCEPT !.menu = m, !.draw = NoView]
        BY <2>4 DEF DrawProfiles
      <3>2. QED
        BY <1>1, <3>1 DEF Tray
    <2>5. QED
      BY <2>1, <2>2, <2>3, <2>4 DEF LoopDraws
  <1>3. ASSUME NEW w \in {"polled", "render", "draw", "names", "done", "wait", "load"}, To(q, w)
        PROVE  SaveInv'
    BY <1>1, <1>2, <1>3, ToSaves DEF PCs
  <1>4. CASE Store(q)
    BY <1>1, <1>2, <1>4, ReturnSaves DEF Store
  <1>5. CASE Poll(q) /\ tray.profile.ok
    <2>1. PICK old \in Process : old = proc[q]
      BY DEF IInv, TypeOK
    <2>2. tray.profile.name \in Profiles \cup {NoName}
      BY <1>1 DEF Tray, Profile
    <2> DEFINE x == [old EXCEPT !.pc = "store", !.ask = [@ EXCEPT !.name = tray.profile.name]]
    <2>3. x \in Process /\ x.pc = "store" /\ x.base = old.base
      BY <2>2 DEF Process, PCs
    <2>4. Becomes(q, x)
      BY <1>5, <2>1 DEF Poll
    <2> HIDE DEF x
    <2>5. x.base <= disk.version
      BY <2>1, <2>3 DEF SaveInv, Bases
    <2>6. QED
      BY <1>1, <1>2, <2>3, <2>4, <2>5, QuietTray
  <1>6. CASE Poll(q) /\ ~tray.profile.ok
    BY <1>3, <1>6 DEF Poll
  <1>7. CASE Polled(q)
    BY <1>3, <1>7 DEF Polled
  <1>8. CASE q = Loop /\ LoopDraws
    BY <1>3, <1>8 DEF LoopDraws, Render, DrawTunnels, DrawProfiles, Tick, Redraw
  <1>9. QED
    BY <1>4, <1>5, <1>6, <1>7, <1>8

LEMMA InitSaves == Init => SaveInv
  <1> USE ClientAssumption DEF Procs, Workers
  <1> SUFFICES ASSUME Init PROVE SaveInv
    OBVIOUS
  <1>1. IInv /\ disk \in Disk
    BY InitHolds DEF IInv, TypeOK
  <1>2. PICK poll \in Process : /\ poll = [Idle EXCEPT !.pc = "poll"]
                                /\ poll.pc = "poll" /\ poll.base = 0
    BY IdleIsProcess DEF PCs
  <1>3. \A q \in Procs : proc[q].pc \in {"idle", "poll"} /\ proc[q].base = 0
    BY <1>2, IdleIsProcess DEF Init
  <1>4. PICK i \in Inodes, first \in FirstFiles, v \in {0, 1} :
          /\ v = IF first = NoFile THEN 0 ELSE 1
          /\ disk = [path |-> IF first = NoFile THEN NoFile ELSE i, tmp |-> NoFile,
                     data |-> [j \in Inodes |-> IF j = i /\ first # NoFile THEN first ELSE Empty],
                     version |-> v]
          /\ tray.cfg = IF first = Garbled THEN NewConfig ELSE LoadConfig(first)
          /\ tray.base = IF first = Garbled THEN -1 ELSE v
          /\ tray.holder = Nobody
    <2> DEFINE i == CHOOSE j \in Inodes : TRUE
    <2>1. i \in Inodes
      OBVIOUS
    <2> DEFINE C(first) == IF first = Garbled THEN NewConfig ELSE LoadConfig(first)
               P(first) == IF first = Garbled THEN NoProfile ELSE Resolve(C(first), ProfileFlag)
               V(first) == IF first = NoFile THEN 0 ELSE 1
    <2>2. PICK first \in FirstFiles :
            /\ disk = [path |-> IF first = NoFile THEN NoFile ELSE i, tmp |-> NoFile,
                       data |-> [j \in Inodes |-> IF j = i /\ first # NoFile THEN first ELSE Empty],
                       version |-> V(first)]
            /\ tray = [cfg |-> C(first), base |-> IF first = Garbled THEN -1 ELSE V(first),
                       profile |-> P(first), remote |-> NoName, menu |-> View(C(first), P(first), NoName),
                       draw |-> NoView, shared |-> FALSE,
                       holder |-> Nobody, refresh |-> FALSE, up |-> TRUE]
      BY DEF Init
    <2>3. V(first) \in {0, 1}
      OBVIOUS
    <2>4. /\ tray.cfg = C(first) /\ tray.holder = Nobody
          /\ tray.base = IF first = Garbled THEN -1 ELSE V(first)
      BY <2>2
    <2> HIDE DEF i
    <2>5. QED
      BY <2>1, <2>2, <2>3, <2>4
  <1>5. disk.version = v /\ disk.tmp = NoFile /\ OnDisk = first
    BY <1>4 DEF OnDisk
  <1>6. tray.base <= v
    BY <1>4
  <1>7. Bases
    BY <1>3, <1>5, <1>6 DEF Bases
  <1>8. \A q \in Procs : ~Saving(q)
    BY <1>3 DEF Saving
  <1>9. OneSave
    BY <1>5, <1>8 DEF OneSave
  <1>10. GoodFile
    BY <1>4, <1>5 DEF GoodFile, Readable
  <1>11. TrayCopies
    <2>1. first \in Config => tray.cfg = first
      BY <1>4, LoadedConfigs
    <2>2. QED
      BY <1>4, <1>5, <2>1 DEF TrayCopies, Current
  <1>12. \A q \in Procs : ProcCopies(q)
    BY <1>3 DEF ProcCopies
  <1>13. QED
    BY <1>7, <1>9, <1>10, <1>11, <1>12 DEF SaveInv

\* Copies of the config and the files that carry it stay in step, as long as
\* no two saves run at once.
THEOREM SavesStayInStep == Spec => []SaveInv
  <1>1. IInv /\ SaveInv /\ [Next]_vars => SaveInv'
    <2> SUFFICES ASSUME IInv, SaveInv, [Next]_vars PROVE SaveInv'
      OBVIOUS
    <2>1. ASSUME NEW q \in Commands, Begin(q) \/ CommandRuns(q) \/ Killed(q)
          PROVE  SaveInv'
      BY <2>1, CommandSaves, FileSaves, SaveEndsSaves DEF CommandRuns, Save
    <2>2. ASSUME NEW k \in Clicks, Click(k) \/ ClickRuns(k)
          PROVE  SaveInv'
      BY <2>2, ClickSaves, ActSaves, DownSaves, FileSaves, SaveEndsSaves, LoadSaves, AssignSaves, RefreshSaves
        DEF ClickRuns, Save, Refresh, Workers
    <2>3. CASE LoopRuns
      BY <2>3, LoadSaves, AssignSaves, RefreshSaves DEF LoopRuns, LoopDraws, Refresh, Workers
    <2>4. CASE UNCHANGED vars
      BY <2>4 DEF vars, SaveInv, Bases, OneSave, GoodFile, Readable, TrayCopies, ProcCopies, Current,
          OnDisk, Saving, At
    <2>5. QED
      BY <2>1, <2>2, <2>3, <2>4, DownSaves DEF Next
  <1>2. QED
    BY <1>1, InitSaves, ClientInvariance, PTL DEF Spec

\* Config.Save (config.go): a save that is interrupted, or finds the disk full,
\* leaves a config that loads, unless another save was under way.
THEOREM InterruptedSavesKeep == Spec => []InterruptedSaveKeepsConfig
  <1>1. SaveInv => InterruptedSaveKeepsConfig
    BY DEF SaveInv, GoodFile, InterruptedSaveKeepsConfig
  <1>2. QED
    BY <1>1, SavesStayInStep, PTL

\* A login, logout or click made from the file as it is changes in it what it
\* was asked to, and loses nothing else.
THEOREM SavesLoseNothing == Spec => SaveLosesNothing
  <1> DEFINE Loses ==
        ~ \A q \in Procs :
            (disk'.version # disk.version /\ At(q, "rename") /\ proc'[q].pc # "rename"
             /\ proc[q].base = disk.version /\ ~seen.overlap /\ OnDisk \in Config)
            => LET new == disk'.data[disk'.path]
                   ask == proc[q].ask
               IN  /\ ask.kind # "logout" => OnDisk.profiles \subseteq new.profiles
                   /\ ask.kind # "forget" => OnDisk.tunnels \subseteq new.tunnels
                   /\ ask.kind \in {"forget", "new"} => new.default = OnDisk.default
  <1>1. IInv /\ SaveInv /\ Next => ~Loses
    <2> SUFFICES ASSUME IInv, SaveInv, Next, NEW q \in Procs,
                        disk'.version # disk.version, At(q, "rename"), proc'[q].pc # "rename",
                        proc[q].base = disk.version, ~seen.overlap, OnDisk \in Config
                 PROVE  SaveKeeps(OnDisk, disk'.data[disk'.path], proc[q].ask)
      BY DEF SaveKeeps
    <2>1. PICK r \in Commands \cup Clicks : Rename(r) /\ disk.tmp # NoFile
      <3>1. ASSUME NEW r \in Commands \cup Clicks, Open(r) \/ Write(r) \/ WriteFails(r)
            PROVE  disk'.version = disk.version
        BY <3>1 DEF Open, Write, WriteFails, IInv, TypeOK, Disk
      <3>2. ASSUME NEW r \in Procs,
                   \/ Begin(r) \/ Verify(r) \/ Killed(r) \/ Click(r) \/ Act(r) \/ Panic(r) \/ Torn(r)
                   \/ Refresh(r) \/ LoopDraws \/ Quit
            PROVE  disk' = disk
        BY <3>2 DEF Begin, Verify, Killed, Click, Act, Panic, Torn, Refresh, Load, Assign, Poll, Store,
                    Polled, LoopDraws, Render, DrawTunnels, DrawProfiles, Tick, Redraw, Quit
      <3>3. ASSUME NEW r \in Commands \cup Clicks, Rename(r), disk.tmp = NoFile
            PROVE  disk' = disk
        BY <3>3 DEF Rename
      <3>4. QED
        BY <3>1, <3>2, <3>3
           DEF Next, CommandRuns, ClickRuns, LoopRuns, LoopDraws, Save, Procs, Workers
    <2>2. r = q
      <3>1. Saving(q) /\ Saving(r) /\ r \in Procs
        BY <2>1 DEF Rename, At, Saving, Procs, Workers
      <3>2. QED
        BY <3>1 DEF SaveInv, OneSave
    <2>3. disk'.data[disk'.path] = proc[q].mem
      BY <2>1, <2>2, RenameFacts
    <2>4. ProcCopies(q) /\ proc[q].pc = "rename"
      BY DEF SaveInv, At
    <2>5. QED
      BY <2>3, <2>4 DEF ProcCopies, Current
  <1>2. UNCHANGED vars => ~Loses
    BY DEF vars
  <1>3. IInv /\ SaveInv /\ [Next]_vars => [~Loses]_vars
    BY <1>1, <1>2
  <1>4. QED
    BY <1>3, ClientInvariance, SavesStayInStep, PTL DEF Spec, SaveLosesNothing

=============================================================================
