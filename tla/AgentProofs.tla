---------------------------- MODULE AgentProofs ----------------------------
(***************************************************************************)
(* Agent for any number of commands, control planes, profiles, keys and    *)
(* sessions. The inductive invariant has two parts. Basic holds however    *)
(* commands overlap: every copy of the state, on disk or in a process, is  *)
(* one of a single control plane. Alone holds while no two commands have   *)
(* run at once: what a command has done so far, and what it still relies   *)
(* on, at each of its steps (Going). The second part is about SplitDns.    *)
(***************************************************************************)
EXTENDS Agent, SplitDns, WellFoundedInduction, TLAPS

AtHome(st) ==
  /\ st.token \in {None, st.url}
  /\ st.device # None => st.device.url = st.url
  /\ st.session # None => st.session.url = st.url /\ st.token # None

\* A state of one control plane, that knows the first n sessions.
StateOK(st, n) ==
  /\ st \in State /\ AtHome(st)
  /\ st.session # None => st.session.id \in 1 .. n

\* Which command is at which step.
AtItsStep(x) ==
  /\ x.pc = "auth" \/ (x.pc = "save" /\ x.then = "device") => x.cmd.name = "login"
  /\ x.pc \in {"device", "register"} => x.cmd.name \in {"login", "connect"}
  /\ \/ x.pc \in {"session", "render", "copy", "up"}
     \/ x.pc = "save" /\ x.then \in {"session", "render", "copy"}
     => x.cmd.name = "connect"
  /\ x.pc \in {"down", "release"} => x.cmd.name = "disconnect"
  /\ x.pc = "import" => x.cmd.name = "import" /\ x.cmd.profile \in Profiles
  /\ x.pc = "remove" => x.cmd.name = "remove"

ProcOK(x, n) ==
  x.pc # "idle" =>
    /\ x.cmd \in Command /\ StateOK(x.mem, n) /\ AtItsStep(x)
    /\ x.pc = "register" => x.own # 0
    /\ x.pc = "render" \/ (x.pc = "save" /\ x.then = "render") => x.mem.session # None

Basic ==
  /\ TypeOK
  /\ disk # Torn => StateOK(disk, sessions)
  /\ \A p \in Procs : ProcOK(proc[p], sessions)
  /\ released \subseteq 1 .. sessions

-----------------------------------------------------------------------------
KeyOK(st) == st.device # None => key = st.device.key

ProfilesOK(st) ==
  /\ st.profile # None => st.profile \in st.profiles
  /\ st.profiles \subseteq files

\* A removal has deleted the file and has not saved the state yet.
Removing == \E p \in Procs : At(p, "save") /\ Cmd(p).name = "remove"

\* What the interface is to run.
Target(st) ==
  IF st.profile # None THEN [profile |-> st.profile]
  ELSE [id |-> st.session.id, key |-> st.device.key]

Going(x) ==
  /\ x.pc # "save" => x.mem = disk
  /\ KeyOK(x.mem)
  /\ ~cut => ProfilesOK(x.mem)
  /\ x.pc = "register" => x.mem.device = None /\ x.own = key
  /\ x.pc \in {"device", "register"} /\ x.cmd.name = "connect" => x.mem.profile = None
  /\ \/ x.pc \in {"session", "render"}
     \/ x.pc = "save" /\ x.then \in {"session", "render"}
     => x.mem.profile = None /\ x.mem.device # None
  /\ x.pc = "render" \/ (x.pc = "save" /\ x.then = "render") => x.mem.session.id \notin released
  /\ x.pc = "up" => /\ conf = Target(x.mem)
                    /\ x.mem.profile = None =>
                         x.mem.session # None /\ x.mem.session.id \notin released
  /\ x.pc = "release" /\ x.cmd.tunnel => ~Seen
  /\ x.pc = "save" /\ x.then = "idle" /\ x.cmd.name = "disconnect" =>
       x.mem.session = None /\ (x.cmd.tunnel => ~Seen)

Alone ==
  ~overlap =>
    /\ \A p, q \in Procs : ~At(p, "idle") /\ ~At(q, "idle") => p = q
    /\ last # "none" => Quiet
    /\ disk # Torn => KeyOK(disk)
    /\ disk # Torn /\ ~cut /\ ~Removing => ProfilesOK(disk)
    /\ \A p \in Procs : ~At(p, "idle") => Going(proc[p])
    /\ ReportsAreTrue /\ NoTunnelOnReleased

Inv == Basic /\ Alone

-----------------------------------------------------------------------------
(* States, and what commands make of them.                                 *)

LEMMA StateGrows ==
  ASSUME NEW n \in Nat, NEW m \in Nat, n <= m, NEW st, StateOK(st, n)
  PROVE  StateOK(st, m)
  BY DEF StateOK

LEMMA BlankOK ==
  ASSUME NEW u \in Urls
  PROVE  /\ StateOK(Blank(u), 0)
         /\ Blank(u).device = None /\ Blank(u).profile = None /\ Blank(u).profiles = {}
  BY DEF Blank, StateOK, State, AtHome

LEMMA LoggedOutOK ==
  ASSUME NEW n, NEW st, StateOK(st, n)
  PROVE  /\ StateOK(LoggedOut(st), n)
         /\ LoggedOut(st).device = st.device
         /\ LoggedOut(st).profile = st.profile /\ LoggedOut(st).profiles = st.profiles
  BY DEF LoggedOut, StateOK, State, AtHome

LEMMA AtUrlOK ==
  ASSUME NEW n, NEW st, StateOK(st, n), NEW u \in Urls
  PROVE  /\ StateOK(AtUrl(st, u), n)
         /\ AtUrl(st, u).device \in {None, st.device}
         /\ AtUrl(st, u).profile = st.profile /\ AtUrl(st, u).profiles = st.profiles
  BY DEF AtUrl, StateOK, State, AtHome

LEMMA SetTokenOK ==
  ASSUME NEW n, NEW st, StateOK(st, n)
  PROVE  LET r == [st EXCEPT !.token = st.url]
         IN  /\ StateOK(r, n) /\ r.device = st.device
             /\ r.profile = st.profile /\ r.profiles = st.profiles
  BY AgentAssumption DEF StateOK, State, AtHome

LEMMA SetDeviceOK ==
  ASSUME NEW n, NEW st, StateOK(st, n), NEW k \in 1 .. MaxKeys
  PROVE  LET r == [st EXCEPT !.device = [url |-> st.url, key |-> k]]
         IN  /\ StateOK(r, n) /\ r.device = [url |-> st.url, key |-> k]
             /\ r.profile = st.profile /\ r.profiles = st.profiles
  BY DEF StateOK, State, AtHome

LEMMA SetSessionOK ==
  ASSUME NEW n \in Nat, NEW st, StateOK(st, n), st.token # None, n + 1 <= MaxSessions
  PROVE  LET r == [st EXCEPT !.session = [url |-> st.url, id |-> n + 1]]
         IN  /\ StateOK(r, n + 1) /\ r.session = [url |-> st.url, id |-> n + 1]
             /\ r.device = st.device /\ r.profile = st.profile /\ r.profiles = st.profiles
  <1> DEFINE s == [url |-> st.url, id |-> n + 1]
             r == [st EXCEPT !.session = s]
  <1>1. st \in State /\ n + 1 \in 1 .. MaxSessions BY AgentAssumption DEF StateOK
  <1>2. s \in [url : Urls, id : 1 .. MaxSessions] /\ s.url = st.url /\ s.id = n + 1
    BY <1>1 DEF State
  <1> HIDE DEF s
  <1>3. /\ r \in State /\ r.session = s /\ r.token = st.token /\ r.url = st.url
        /\ r.device = st.device /\ r.profile = st.profile /\ r.profiles = st.profiles
    BY <1>1, <1>2 DEF State
  <1> HIDE DEF r
  <1>4. StateOK(r, n + 1) BY <1>2, <1>3 DEF StateOK, AtHome
  <1> QED BY <1>3, <1>4 DEF r, s

LEMMA ForgetSessionOK ==
  ASSUME NEW n, NEW st, StateOK(st, n)
  PROVE  LET r == [st EXCEPT !.session = None]
         IN  /\ StateOK(r, n) /\ r.session = None /\ r.device = st.device
             /\ r.profile = st.profile /\ r.profiles = st.profiles
  BY DEF StateOK, State, AtHome

LEMMA UseProfileOK ==
  ASSUME NEW n, NEW st, StateOK(st, n), NEW x \in Profiles \cup {None}
  PROVE  LET r == [st EXCEPT !.profile = x]
         IN  /\ StateOK(r, n) /\ r.device = st.device
             /\ r.profile = x /\ r.profiles = st.profiles
  BY DEF StateOK, State, AtHome

LEMMA ListProfilesOK ==
  ASSUME NEW n, NEW st, StateOK(st, n), NEW xs \in SUBSET Profiles
  PROVE  LET r == [st EXCEPT !.profiles = xs]
         IN  /\ StateOK(r, n) /\ r.device = st.device
             /\ r.profile = st.profile /\ r.profiles = xs
  BY DEF StateOK, State, AtHome

LEMMA UnlistedOK ==
  ASSUME NEW n, NEW st, StateOK(st, n), NEW x, NEW r \in Unlisted(st, x)
  PROVE  /\ StateOK(r, n) /\ r.device = st.device
         /\ r.profiles = st.profiles \ {x}
         /\ \/ r.profile = st.profile /\ st.profile # x
            \/ r.profile = None
            \/ r.profile \in r.profiles
  <1> DEFINE left == [st EXCEPT !.profiles = st.profiles \ {x}]
  <1>1. st.profiles \ {x} \in SUBSET Profiles BY DEF StateOK, State
  <1>2. /\ StateOK(left, n) /\ left.device = st.device
        /\ left.profile = st.profile /\ left.profiles = st.profiles \ {x}
    BY <1>1, ListProfilesOK
  <1> HIDE DEF left
  <1>3. CASE st.profile # x BY <1>2, <1>3 DEF Unlisted, left
  <1>4. CASE st.profile = x /\ left.profiles = {}
    <2>1. r = [left EXCEPT !.profile = None] BY <1>4 DEF Unlisted, left
    <2> QED BY <1>2, <2>1, UseProfileOK
  <1>5. CASE st.profile = x /\ left.profiles # {}
    <2>1. PICK y \in left.profiles : r = [left EXCEPT !.profile = y] BY <1>5 DEF Unlisted, left
    <2>2. y \in Profiles BY <1>1, <1>2
    <2> QED BY <1>2, <2>1, <2>2, UseProfileOK
  <1> QED BY <1>3, <1>4, <1>5

-----------------------------------------------------------------------------
(* How a command goes on.                                                  *)

LEMMA IdleOK == Idle \in Proc /\ Idle.pc = "idle"
  BY AgentAssumption DEF Idle, Proc

LEMMA GoFields ==
  ASSUME TypeOK, NEW p \in Procs,
         NEW pc \in {"device", "session", "render", "copy", "up", "release"}, Go(p, pc)
  PROVE  \E x \in Proc :
           /\ proc' = [proc EXCEPT ![p] = x]
           /\ x.pc = pc /\ x.cmd = Cmd(p) /\ x.mem = Mem(p) /\ x.own = proc[p].own
  <1> DEFINE x == [proc[p] EXCEPT !.pc = pc]
  <1>1. proc[p] \in Proc BY DEF TypeOK
  <1>2. /\ x \in Proc
        /\ x.pc = pc /\ x.cmd = Cmd(p) /\ x.mem = Mem(p) /\ x.own = proc[p].own
    BY <1>1 DEF Proc, Cmd, Mem
  <1>3. proc' = [proc EXCEPT ![p] = x] BY DEF Go
  <1> HIDE DEF x
  <1> QED BY <1>2, <1>3

LEMMA SaveFields ==
  ASSUME TypeOK, NEW p \in Procs, NEW mem \in State,
         NEW then \in {"idle", "device", "session", "render", "copy"}, SaveThen(p, mem, then)
  PROVE  \E x \in Proc :
           /\ proc' = [proc EXCEPT ![p] = x]
           /\ x.pc = "save" /\ x.cmd = Cmd(p) /\ x.mem = mem /\ x.then = then
  <1> DEFINE x == [proc[p] EXCEPT !.pc = "save", !.mem = mem, !.then = then]
  <1>1. proc[p] \in Proc BY DEF TypeOK
  <1>2. /\ x \in Proc
        /\ x.pc = "save" /\ x.cmd = Cmd(p) /\ x.mem = mem /\ x.then = then
    BY <1>1 DEF Proc, Cmd
  <1>3. proc' = [proc EXCEPT ![p] = x] BY DEF SaveThen
  <1> HIDE DEF x
  <1> QED BY <1>2, <1>3

LEMMA StoreKeyFields ==
  ASSUME TypeOK, NEW p \in Procs, StoreKey(p)
  PROVE  \E x \in Proc :
           /\ proc' = [proc EXCEPT ![p] = x]
           /\ x.pc = "register" /\ x.cmd = Cmd(p) /\ x.mem = Mem(p) /\ x.own = keys + 1
           /\ key' = keys + 1 /\ keys' = keys + 1 /\ keys + 1 \in 1 .. MaxKeys
  <1> DEFINE k == keys + 1
             x == [proc[p] EXCEPT !.pc = "register", !.own = k]
  <1>0. k \in 1 .. MaxKeys /\ k \in 0 .. MaxKeys BY AgentAssumption DEF TypeOK, StoreKey
  <1>1. proc[p] \in Proc BY DEF TypeOK
  <1> HIDE DEF k
  <1>2. /\ x \in Proc
        /\ x.pc = "register" /\ x.cmd = Cmd(p) /\ x.mem = Mem(p) /\ x.own = k
    BY <1>0, <1>1 DEF Proc, Cmd, Mem
  <1>3. proc' = [proc EXCEPT ![p] = x] /\ key' = k /\ keys' = k BY DEF StoreKey, k
  <1> HIDE DEF x
  <1> QED BY <1>0, <1>2, <1>3 DEF k

\* A new command, with a copy mem of the state.
LEMMA BeginFields ==
  ASSUME TypeOK, NEW p \in Procs, NEW c \in Command, NEW mem \in State,
         NEW pc \in {"save", "auth", "device", "copy", "down", "release", "import", "remove"},
         NEW then \in {"idle", "session", "copy"}, Begin(p, c, pc, mem, then)
  PROVE  \E x \in Proc :
           /\ proc' = [proc EXCEPT ![p] = x]
           /\ x.pc = pc /\ x.cmd = c /\ x.mem = mem /\ x.then = then
  <1> DEFINE x == [pc |-> pc, cmd |-> c, mem |-> mem, own |-> 0, then |-> then]
  <1>1. x \in Proc /\ x.pc = pc /\ x.cmd = c /\ x.mem = mem /\ x.then = then
    BY AgentAssumption DEF Proc
  <1>2. proc' = [proc EXCEPT ![p] = x] BY DEF Begin
  <1> HIDE DEF x
  <1> QED BY <1>1, <1>2

LEMMA Running ==
  ASSUME Basic, NEW p \in Procs, ~At(p, "idle")
  PROVE  /\ proc[p] \in Proc /\ Cmd(p) \in Command
         /\ StateOK(Mem(p), sessions) /\ Mem(p) \in State /\ AtItsStep(proc[p])
         /\ At(p, "register") => proc[p].own \in 1 .. MaxKeys
         /\ At(p, "render") => Mem(p).session # None
         /\ At(p, "save") /\ proc[p].then = "render" => Mem(p).session # None
  <1>1. proc[p] \in Proc BY DEF Basic, TypeOK
  <1>2. ProcOK(proc[p], sessions) BY DEF Basic
  <1>3. proc[p].own \in 0 .. MaxKeys BY <1>1 DEF Proc
  <1>4. At(p, "register") => proc[p].own \in 1 .. MaxKeys
    BY <1>2, <1>3, AgentAssumption DEF ProcOK, At
  <1> QED BY <1>1, <1>2, <1>4 DEF ProcOK, At, Cmd, Mem, StateOK

-----------------------------------------------------------------------------
(* However commands overlap.                                               *)

\* The rest of TypeOK.
Typed ==
  /\ files \subseteq Profiles
  /\ conf \in Conf \cup {None}
  /\ tunnel \in Conf \cup {None}
  /\ key \in 0 .. MaxKeys /\ keys \in 0 .. MaxKeys
  /\ commands \in 0 .. MaxCommands
  /\ overlap \in BOOLEAN /\ cut \in BOOLEAN /\ named \in BOOLEAN

LEMMA BasicMoves ==
  ASSUME Basic, Typed', NEW p \in Procs, NEW x \in Proc, proc' = [proc EXCEPT ![p] = x],
         sessions' \in sessions .. MaxSessions, ProcOK(x, sessions'),
         disk' # Torn => StateOK(disk', sessions'), released' \subseteq 1 .. sessions'
  PROVE  Basic'
  <1>1. proc'[p] = x /\ \A q \in Procs \ {p} : proc'[q] = proc[q] BY DEF Basic, TypeOK
  <1>2. sessions \in Nat /\ sessions' \in Nat /\ sessions <= sessions'
        /\ sessions' \in 0 .. MaxSessions
    BY AgentAssumption DEF Basic, TypeOK
  <1>3. \A q \in Procs \ {p} : ProcOK(proc[q], sessions')
    <2>1. \A q \in Procs \ {p} : ProcOK(proc[q], sessions) BY DEF Basic
    <2>2. \A st : StateOK(st, sessions) => StateOK(st, sessions') BY <1>2, StateGrows
    <2> QED BY <2>1, <2>2 DEF ProcOK
  <1>4. \A q \in Procs : ProcOK(proc'[q], sessions') BY <1>1, <1>3
  <1>5. proc' \in [Procs -> Proc] BY DEF Basic, TypeOK
  <1>6. \A q \in Procs : proc'[q].pc = "idle"
                         \/ (proc'[q].cmd \in Command /\ proc'[q].mem \in State)
    BY <1>4 DEF ProcOK, StateOK
  <1>7. disk' \in State \cup {Torn} BY DEF StateOK
  <1>8. released' \subseteq 1 .. MaxSessions BY <1>2, AgentAssumption
  <1>9. TypeOK' BY <1>2, <1>5, <1>6, <1>7, <1>8 DEF TypeOK, Typed, At, Cmd, Mem
  <1> QED BY <1>4, <1>9 DEF Basic

\* The state file, the sessions and what was released are left alone.
LEMMA BasicStays ==
  ASSUME Basic, Typed', NEW p \in Procs, NEW x \in Proc, proc' = [proc EXCEPT ![p] = x],
         UNCHANGED <<disk, sessions, released>>, ProcOK(x, sessions)
  PROVE  Basic'
  <1>1. sessions' \in sessions .. MaxSessions BY AgentAssumption DEF Basic, TypeOK
  <1>2. /\ ProcOK(x, sessions') /\ released' \subseteq 1 .. sessions'
        /\ disk' # Torn => StateOK(disk', sessions')
    BY DEF Basic
  <1> QED BY <1>1, <1>2, BasicMoves

LEMMA BasicEnd ==
  ASSUME Basic, Typed', NEW p \in Procs, NEW how, End(p, how),
         UNCHANGED <<disk, sessions, released>>
  PROVE  Basic'
  <1>1. ProcOK(Idle, sessions) BY IdleOK DEF ProcOK
  <1> QED BY <1>1, IdleOK, BasicStays DEF End

LEMMA TypedStays ==
  ASSUME Basic, UNCHANGED <<files, conf, tunnel, key, keys, commands, overlap, cut, named>>
  PROVE  Typed'
  BY DEF Basic, TypeOK, Typed

LEMMA BasicBegin ==
  ASSUME Basic, NEW p \in Procs, NEW c \in Command, NEW mem, StateOK(mem, sessions),
         NEW pc \in {"save", "auth", "device", "copy", "down", "release", "import", "remove"},
         NEW then \in {"idle", "session", "copy"},
         Begin(p, c, pc, mem, then),
         pc = "auth" => c.name = "login",
         pc \in {"device", "copy"} \/ (pc = "save" /\ then # "idle") => c.name = "connect",
         pc \in {"down", "release"} => c.name = "disconnect",
         pc = "import" => c.name = "import" /\ c.profile \in Profiles,
         pc = "remove" => c.name = "remove"
  PROVE  Basic'
  <1>1. mem \in State BY DEF StateOK
  <1>2. PICK x \in Proc :
          /\ proc' = [proc EXCEPT ![p] = x]
          /\ x.pc = pc /\ x.cmd = c /\ x.mem = mem /\ x.then = then
    BY <1>1, BeginFields DEF Basic
  <1>3. ProcOK(x, sessions) BY <1>2 DEF ProcOK, AtItsStep
  <1>4. Typed'
    <2>1. commands' \in 0 .. MaxCommands BY AgentAssumption DEF Begin, Basic, TypeOK
    <2>2. overlap' \in BOOLEAN BY DEF Begin
    <2> QED BY <2>1, <2>2 DEF Begin, Basic, TypeOK, Typed
  <1> QED BY <1>2, <1>3, <1>4, BasicStays DEF Begin

\* A command's step that ends in a state to be saved.
LEMMA BasicSaveThen ==
  ASSUME Basic, Typed', NEW p \in Procs, ~At(p, "idle"), NEW mem,
         NEW then \in {"idle", "device", "session", "render"}, SaveThen(p, mem, then),
         UNCHANGED disk, sessions' \in sessions .. MaxSessions, StateOK(mem, sessions'),
         released' \subseteq 1 .. sessions',
         then = "device" => Cmd(p).name = "login",
         then \in {"session", "render"} => Cmd(p).name = "connect",
         then = "render" => mem.session # None
  PROVE  Basic'
  <1>1. mem \in State BY DEF StateOK
  <1>2. PICK x \in Proc :
          /\ proc' = [proc EXCEPT ![p] = x]
          /\ x.pc = "save" /\ x.cmd = Cmd(p) /\ x.mem = mem /\ x.then = then
    BY <1>1, SaveFields DEF Basic
  <1>3. Cmd(p) \in Command BY Running
  <1>4. ProcOK(x, sessions') BY <1>2, <1>3 DEF ProcOK, AtItsStep
  <1>5. disk' # Torn => StateOK(disk', sessions')
    <2>1. sessions \in Nat /\ sessions' \in Nat /\ sessions <= sessions'
      BY AgentAssumption DEF Basic, TypeOK
    <2> QED BY <2>1, StateGrows DEF Basic
  <1> QED BY <1>2, <1>4, <1>5, BasicMoves

\* A new command and the copy of the state it begins with. What holds of every
\* command that begins is shown once, from this.
LEMMA ProfileBegins ==
  ASSUME Basic, NEW p \in Procs, NEW c \in ProfileCommand, StartProfile(p, c)
  PROVE  /\ c \in Command /\ disk # Torn
         /\ c.name \in {"import", "use", "remove", "useNone", "list"}
         /\ c.name \in {"import", "use", "remove"} => c.profile \in Profiles
         /\ \/ c.name \in {"import", "remove"} /\ Begin(p, c, c.name, disk, "idle")
            \/ c.name = "list" /\ Begin(p, c, "save", disk, "idle")
            \/ c.name = "useNone" /\ Begin(p, c, "save", [disk EXCEPT !.profile = None], "idle")
            \/ /\ c.name = "use" /\ c.profile \in disk.profiles
               /\ Begin(p, c, "save", [disk EXCEPT !.profile = c.profile], "idle")
  <1>1. /\ c.name \in {"import", "use", "remove", "useNone", "list"}
        /\ c.name \in {"import", "use", "remove"} => c.profile \in Profiles
    BY DEF ProfileCommand
  <1>2. \/ c.name \in {"import", "remove"} /\ Begin(p, c, c.name, disk, "idle")
        \/ c.name = "list" /\ Begin(p, c, "save", disk, "idle")
        \/ c.name = "useNone" /\ Begin(p, c, "save", [disk EXCEPT !.profile = None], "idle")
        \/ /\ c.name = "use" /\ c.profile \in disk.profiles
           /\ Begin(p, c, "save", [disk EXCEPT !.profile = c.profile], "idle")
    BY <1>1 DEF StartProfile
  <1>3. disk # Torn BY <1>2 DEF Begin
  <1>4. c \in Command BY DEF Command
  <1> QED BY <1>1, <1>2, <1>3, <1>4

LEMMA BasicProfile ==
  ASSUME Basic, NEW p \in Procs, NEW c \in ProfileCommand, StartProfile(p, c)
  PROVE  Basic'
  <1>1. c \in Command /\ disk # Torn /\ StateOK(disk, sessions)
    BY ProfileBegins DEF Basic
  <1>2. CASE c.name \in {"import", "remove"} /\ Begin(p, c, c.name, disk, "idle")
    BY <1>1, <1>2, ProfileBegins, BasicBegin
  <1>3. CASE c.name = "list" /\ Begin(p, c, "save", disk, "idle")
    BY <1>1, <1>3, BasicBegin
  <1>4. ASSUME NEW y \in Profiles \cup {None},
               Begin(p, c, "save", [disk EXCEPT !.profile = y], "idle")
        PROVE  Basic'
    <2>1. StateOK([disk EXCEPT !.profile = y], sessions) BY <1>1, UseProfileOK
    <2> QED BY <1>1, <1>4, <2>1, BasicBegin
  <1> QED BY <1>2, <1>3, <1>4, ProfileBegins

LEMMA BasicStart ==
  ASSUME Basic, NEW p \in Procs,
         \/ StartLogin(p) \/ StartLogout(p) \/ (\E u \in Urls : StartUrl(p, u))
         \/ \E c \in ProfileCommand : StartProfile(p, c)
         \/ \E c \in Connect : StartConnect(p, c)
         \/ \E c \in Disconnect : StartDisconnect(p, c)
  PROVE  Basic'
  <1>0. disk # Torn => StateOK(disk, sessions) BY DEF Basic
  <1>1. CASE StartLogin(p)
    <2>1. [name |-> "login"] \in Command BY DEF Command
    <2>2. disk # Torn BY <1>1 DEF StartLogin, Begin
    <2> QED BY <1>0, <1>1, <2>1, <2>2, BasicBegin DEF StartLogin
  <1>2. CASE StartLogout(p)
    <2>1. [name |-> "logout"] \in Command BY DEF Command
    <2>2. disk # Torn BY <1>2 DEF StartLogout, Begin
    <2>3. StateOK(LoggedOut(disk), sessions) BY <1>0, <2>2, LoggedOutOK
    <2> QED BY <1>2, <2>1, <2>3, BasicBegin DEF StartLogout
  <1>3. ASSUME NEW u \in Urls, StartUrl(p, u) PROVE Basic'
    <2>1. [name |-> "url", url |-> u] \in Command BY DEF Command
    <2>2. disk # Torn BY <1>3 DEF StartUrl, Begin
    <2>3. StateOK(AtUrl(disk, u), sessions) BY <1>0, <2>2, AtUrlOK
    <2> QED BY <1>3, <2>1, <2>3, BasicBegin DEF StartUrl
  <1>4. ASSUME NEW c \in Connect, StartConnect(p, c) PROVE Basic'
    <2>1. c \in Command /\ c.name = "connect" /\ c.profile \in Profiles \cup {None}
      BY DEF Command, Connect
    <2>2. disk # Torn BY <1>4 DEF StartConnect
    <2>3. CASE Begin(p, c, "save", [disk EXCEPT !.profile = c.profile], "copy")
      <3>1. StateOK([disk EXCEPT !.profile = c.profile], sessions)
        BY <1>0, <2>1, <2>2, UseProfileOK
      <3> QED BY <2>1, <2>3, <3>1, BasicBegin
    <2>4. CASE Begin(p, c, "copy", disk, "idle") BY <1>0, <2>1, <2>2, <2>4, BasicBegin
    <2>5. CASE Begin(p, c, "device", disk, "session") BY <1>0, <2>1, <2>2, <2>5, BasicBegin
    <2> QED BY <1>4, <2>3, <2>4, <2>5 DEF StartConnect
  <1>5. ASSUME NEW c \in Disconnect, StartDisconnect(p, c) PROVE Basic'
    <2>1. c \in Command /\ c.name = "disconnect" BY DEF Command, Disconnect
    <2>2. disk # Torn BY <1>5 DEF StartDisconnect
    <2>3. CASE Begin(p, c, "down", disk, "idle") BY <1>0, <2>1, <2>2, <2>3, BasicBegin
    <2>4. CASE Begin(p, c, "release", disk, "idle") BY <1>0, <2>1, <2>2, <2>4, BasicBegin
    <2> QED BY <1>5, <2>3, <2>4 DEF StartDisconnect
  <1> QED BY <1>1, <1>2, <1>3, <1>4, <1>5, BasicProfile

LEMMA BasicSave ==
  ASSUME Basic, NEW p \in Procs, Save(p) PROVE Basic'
  <1>1. At(p, "save") /\ ~At(p, "idle") /\ disk' = Mem(p) /\ UNCHANGED <<sessions, released>>
    BY DEF Save, At
  <1>2. Typed' BY TypedStays DEF Save
  <1>3. /\ sessions' \in sessions .. MaxSessions /\ StateOK(disk', sessions')
        /\ released' \subseteq 1 .. sessions'
    BY <1>1, Running, AgentAssumption DEF Basic, TypeOK
  <1>4. ASSUME NEW how, End(p, how) PROVE Basic'
    <2>1. ProcOK(Idle, sessions') BY IdleOK DEF ProcOK
    <2> QED BY <1>2, <1>3, <1>4, <2>1, IdleOK, BasicMoves DEF End
  <1>5. CASE proc[p].then # "idle" /\ Go(p, proc[p].then)
    <2>1. proc[p] \in Proc BY DEF Basic, TypeOK
    <2>2. proc[p].then \in {"device", "session", "render", "copy"} BY <1>5, <2>1 DEF Proc
    <2>3. PICK x \in Proc :
            /\ proc' = [proc EXCEPT ![p] = x]
            /\ x.pc = proc[p].then /\ x.cmd = Cmd(p) /\ x.mem = Mem(p)
      BY <1>5, <2>2, GoFields DEF Basic
    <2>4. ProcOK(x, sessions')
      BY <1>1, <2>2, <2>3, Running DEF ProcOK, AtItsStep, At, Cmd, Mem
    <2> QED BY <1>2, <1>3, <2>3, <2>4, BasicMoves
  <1> QED BY <1>4, <1>5 DEF Save

LEMMA BasicStop ==
  ASSUME Basic, NEW p \in Procs, Stop(p) PROVE Basic'
  <1>1. Typed' BY DEF Stop, Basic, TypeOK, Typed
  <1>2. disk' \in {disk, Torn} /\ UNCHANGED <<sessions, released>> BY DEF Stop
  <1>3. /\ sessions' \in sessions .. MaxSessions /\ released' \subseteq 1 .. sessions'
        /\ disk' # Torn => StateOK(disk', sessions')
    BY <1>2, AgentAssumption DEF Basic, TypeOK
  <1>4. ProcOK(Idle, sessions') BY IdleOK DEF ProcOK
  <1> QED BY <1>1, <1>3, <1>4, IdleOK, BasicMoves DEF Stop, End

LEMMA BasicDevice ==
  ASSUME Basic, NEW p \in Procs,
         Authenticate(p) \/ KnownDevice(p) \/ StoreKey(p) \/ Register(p)
  PROVE  Basic'
  <1>0. sessions \in sessions .. MaxSessions /\ released \subseteq 1 .. sessions
    BY AgentAssumption DEF Basic, TypeOK
  <1>1. CASE Authenticate(p)
    <2>1. ~At(p, "idle") /\ At(p, "auth") BY <1>1 DEF Authenticate, At
    <2>2. Cmd(p).name = "login" BY <2>1, Running DEF AtItsStep, At, Cmd
    <2>3. StateOK([Mem(p) EXCEPT !.token = Mem(p).url], sessions) BY <2>1, Running, SetTokenOK
    <2>4. Typed' BY <1>1, TypedStays DEF Authenticate
    <2> QED BY <1>0, <1>1, <2>1, <2>2, <2>3, <2>4, BasicSaveThen DEF Authenticate
  <1>2. CASE KnownDevice(p)
    <2>1. ~At(p, "idle") /\ At(p, "device") BY <1>2 DEF KnownDevice, At
    <2>2. Typed' BY <1>2, TypedStays DEF KnownDevice
    <2>3. CASE End(p, "done") BY <1>2, <2>2, <2>3, BasicEnd DEF KnownDevice
    <2>4. CASE Cmd(p).name # "login" /\ Go(p, "session")
      <3>1. PICK x \in Proc :
              /\ proc' = [proc EXCEPT ![p] = x]
              /\ x.pc = "session" /\ x.cmd = Cmd(p) /\ x.mem = Mem(p)
        BY <2>4, GoFields DEF Basic
      <3>2. Cmd(p).name = "connect" BY <2>1, <2>4, Running DEF AtItsStep, At, Cmd
      <3>3. ProcOK(x, sessions) BY <2>1, <3>1, <3>2, Running DEF ProcOK, AtItsStep
      <3> QED BY <1>2, <2>2, <3>1, <3>3, BasicStays DEF KnownDevice
    <2> QED BY <1>2, <2>3, <2>4 DEF KnownDevice
  <1>3. CASE StoreKey(p)
    <2>1. ~At(p, "idle") /\ At(p, "device") BY <1>3 DEF StoreKey, At
    <2>2. PICK x \in Proc :
            /\ proc' = [proc EXCEPT ![p] = x]
            /\ x.pc = "register" /\ x.cmd = Cmd(p) /\ x.mem = Mem(p) /\ x.own = keys + 1
            /\ key' = keys + 1 /\ keys' = keys + 1 /\ keys + 1 \in 1 .. MaxKeys
      BY <1>3, StoreKeyFields DEF Basic
    <2>3. x.own # 0 BY <2>2, AgentAssumption
    <2>4. Cmd(p).name \in {"login", "connect"} BY <2>1, Running DEF AtItsStep, At, Cmd
    <2>5. ProcOK(x, sessions) BY <2>1, <2>2, <2>3, <2>4, Running DEF ProcOK, AtItsStep
    <2>6. key' \in 0 .. MaxKeys /\ keys' \in 0 .. MaxKeys BY <2>2, AgentAssumption
    <2>7. Typed' BY <1>3, <2>6 DEF StoreKey, Basic, TypeOK, Typed
    <2> QED BY <1>3, <2>2, <2>5, <2>7, BasicStays DEF StoreKey
  <1>4. CASE Register(p)
    <2>1. ~At(p, "idle") /\ At(p, "register") BY <1>4 DEF Register, At
    <2>2. Cmd(p).name \in {"login", "connect"} BY <2>1, Running DEF AtItsStep, At, Cmd
    <2>3. StateOK([Mem(p) EXCEPT !.device = [url |-> Mem(p).url, key |-> proc[p].own]], sessions)
      BY <2>1, Running, SetDeviceOK
    <2>4. Typed' BY <1>4, TypedStays DEF Register
    <2>5. /\ AfterDevice(p) \in {"idle", "device", "session", "render"}
          /\ AfterDevice(p) # "device" /\ AfterDevice(p) # "render"
          /\ AfterDevice(p) = "session" => Cmd(p).name = "connect"
      BY <2>2 DEF AfterDevice
    <2> QED BY <1>0, <1>4, <2>1, <2>3, <2>4, <2>5, BasicSaveThen DEF Register
  <1> QED BY <1>1, <1>2, <1>3, <1>4

\* Every step done, the interface runs wsl.conf, or is down if it was seen.
LEMMA StepsDone ==
  ASSUME NEW p \in Procs
  PROVE  /\ At(p, "up") => After(p, Len(Steps(p))) = conf
         /\ At(p, "down") => After(p, Len(Steps(p))) = IF Seen THEN None ELSE tunnel
  BY DEF Steps, After, At

\* When one fails, the interface is as it was, or down.
LEMMA StepsFail ==
  ASSUME NEW p \in Procs, NEW n \in 0 .. (Len(Steps(p)) - 1)
  PROVE  After(p, n) \in {tunnel, None}
  <1>1. CASE Steps(p) = <<"down", "up">>
    <2>1. n \in {0, 1} /\ Steps(p)[1] = "down" BY <1>1
    <2> QED BY <2>1 DEF After
  <1>2. CASE Steps(p) = <<"up">> \/ Steps(p) = <<"down">>
    <2>1. Len(Steps(p)) = 1
      <3>1. CASE Steps(p) = <<"up">> BY <3>1
      <3>2. CASE Steps(p) = <<"down">> BY <3>2
      <3> QED BY <1>2, <3>1, <3>2
    <2>2. n = 0 BY <2>1
    <2> QED BY <2>2 DEF After
  <1>3. Steps(p) # << >> OBVIOUS
  <1> QED BY <1>1, <1>2, <1>3 DEF Steps

LEMMA BasicConnect ==
  ASSUME Basic, NEW p \in Procs, CreateSession(p) \/ WriteConfig(p) \/ CopyProfile(p)
  PROVE  Basic'
  <1>1. CASE CreateSession(p)
    <2>1. ~At(p, "idle") /\ At(p, "session") BY <1>1 DEF CreateSession, At
    <2>2. Cmd(p).name = "connect" BY <2>1, Running DEF AtItsStep, At, Cmd
    <2>3. Typed' BY <1>1, TypedStays DEF CreateSession
    <2>4. /\ sessions \in Nat /\ sessions' = sessions + 1 /\ sessions + 1 <= MaxSessions
          /\ sessions' \in sessions .. MaxSessions
          /\ UNCHANGED <<disk, released>> /\ released' \subseteq 1 .. sessions'
      BY <1>1, AgentAssumption DEF CreateSession, Basic, TypeOK
    <2> DEFINE s == [url |-> Mem(p).url, id |-> sessions + 1]
               st == [Mem(p) EXCEPT !.session = s]
    <2>5. CASE SaveThen(p, st, "render")
      <3>1. StateOK(st, sessions + 1) /\ st.session = s
        BY <1>1, <2>1, <2>4, Running, SetSessionOK DEF CreateSession
      <3>2. st.session # None
        <4>1. Mem(p).url \in Urls BY <2>1, Running DEF State
        <4>2. s \in [url : Urls, id : 1 .. MaxSessions] BY <2>4, <4>1
        <4> QED BY <3>1, <4>2, AgentAssumption
      <3> HIDE DEF st
      <3> QED BY <2>1, <2>2, <2>3, <2>4, <2>5, <3>1, <3>2, BasicSaveThen
    <2>6. CASE End(p, "failed")
      <3>1. ProcOK(Idle, sessions') BY IdleOK DEF ProcOK
      <3>2. disk' # Torn => StateOK(disk', sessions') BY <2>4, StateGrows DEF Basic
      <3> QED BY <2>3, <2>4, <2>6, <3>1, <3>2, IdleOK, BasicMoves DEF End
    <2> QED BY <1>1, <2>5, <2>6 DEF CreateSession
  <1>2. CASE WriteConfig(p)
    <2>1. ~At(p, "idle") /\ At(p, "render") BY <1>2 DEF WriteConfig, At
    <2>2. Mem(p).session # None /\ Mem(p) \in State BY <2>1, Running
    <2>3. Mem(p).session.id \in 1 .. MaxSessions BY <2>2 DEF State
    <2>4. conf' \in Conf BY <1>2, <2>3 DEF WriteConfig, Conf, Basic, TypeOK
    <2>5. Typed' BY <1>2, <2>4 DEF WriteConfig, Basic, TypeOK, Typed
    <2>6. CASE Go(p, "up")
      <3>1. PICK x \in Proc :
              /\ proc' = [proc EXCEPT ![p] = x]
              /\ x.pc = "up" /\ x.cmd = Cmd(p) /\ x.mem = Mem(p)
        BY <2>6, GoFields DEF Basic
      <3>2. ProcOK(x, sessions) BY <2>1, <3>1, Running DEF ProcOK, AtItsStep, At, Cmd
      <3> QED BY <1>2, <2>5, <3>1, <3>2, BasicStays DEF WriteConfig
    <2>7. CASE End(p, "created") BY <1>2, <2>5, <2>7, BasicEnd DEF WriteConfig
    <2> QED BY <1>2, <2>6, <2>7 DEF WriteConfig
  <1>3. CASE CopyProfile(p)
    <2>1. ~At(p, "idle") /\ At(p, "copy") BY <1>3 DEF CopyProfile, At
    <2>2. conf' \in Conf BY <1>3 DEF CopyProfile, Conf, Basic, TypeOK
    <2>3. Typed' BY <1>3, <2>2 DEF CopyProfile, Basic, TypeOK, Typed
    <2>4. PICK x \in Proc :
            /\ proc' = [proc EXCEPT ![p] = x]
            /\ x.pc = "up" /\ x.cmd = Cmd(p) /\ x.mem = Mem(p)
      BY <1>3, GoFields DEF Basic, CopyProfile
    <2>5. ProcOK(x, sessions) BY <2>1, <2>4, Running DEF ProcOK, AtItsStep, At, Cmd
    <2> QED BY <1>3, <2>3, <2>4, <2>5, BasicStays DEF CopyProfile
  <1> QED BY <1>1, <1>2, <1>3

LEMMA BasicTunnel ==
  ASSUME Basic, NEW p \in Procs, NoPrivilege(p) \/ RunFails(p) \/ Up(p) \/ Down(p) \/ Release(p)
  PROVE  Basic'
  <1>1. CASE NoPrivilege(p)
    <2>1. Typed' BY <1>1, TypedStays DEF NoPrivilege
    <2> QED BY <1>1, <2>1, BasicEnd DEF NoPrivilege
  <1>2. CASE RunFails(p)
    <2>1. tunnel' \in {tunnel, None} BY <1>2, StepsFail DEF RunFails
    <2>2. Typed' BY <1>2, <2>1 DEF RunFails, Basic, TypeOK, Typed
    <2> QED BY <1>2, <2>2, BasicEnd DEF RunFails
  <1>3. CASE Up(p)
    <2>1. tunnel' = conf BY <1>3, StepsDone DEF Up
    <2>2. Typed' BY <1>3, <2>1 DEF Up, Basic, TypeOK, Typed
    <2> QED BY <1>3, <2>2, BasicEnd DEF Up
  <1>4. CASE Down(p)
    <2>0. ~At(p, "idle") /\ At(p, "down") BY <1>4 DEF Down, At
    <2>1. tunnel' \in {tunnel, None} BY <1>4, StepsDone DEF Down
    <2>2. Typed' BY <1>4, <2>1 DEF Down, Basic, TypeOK, Typed
    <2>3. CASE End(p, "down") BY <1>4, <2>2, <2>3, BasicEnd DEF Down
    <2>4. CASE Go(p, "release")
      <3>1. PICK x \in Proc :
              /\ proc' = [proc EXCEPT ![p] = x]
              /\ x.pc = "release" /\ x.cmd = Cmd(p) /\ x.mem = Mem(p)
        BY <2>4, GoFields DEF Basic
      <3>2. ProcOK(x, sessions) BY <2>0, <3>1, Running DEF ProcOK, AtItsStep, At, Cmd
      <3> QED BY <1>4, <2>2, <3>1, <3>2, BasicStays DEF Down
    <2> QED BY <1>4, <2>3, <2>4 DEF Down
  <1>5. CASE Release(p)
    <2>1. ~At(p, "idle") BY <1>5 DEF Release, At
    <2>2. Typed' BY <1>5, TypedStays DEF Release
    <2>3. StateOK(Mem(p), sessions) BY <2>1, Running
    <2>4. StateOK([Mem(p) EXCEPT !.session = None], sessions) BY <2>3, ForgetSessionOK
    <2>5. released' \subseteq 1 .. sessions
      BY <1>5, <2>3 DEF Release, StateOK, Basic
    <2>6. sessions \in sessions .. MaxSessions BY AgentAssumption DEF Basic, TypeOK
    <2> QED BY <1>5, <2>1, <2>2, <2>4, <2>5, <2>6, BasicSaveThen DEF Release
  <1> QED BY <1>1, <1>2, <1>3, <1>4, <1>5

\* The list and the choice that an import ends in.
LEMMA ImportedOK ==
  ASSUME NEW n, NEW st, StateOK(st, n), NEW x \in Profiles
  PROVE  LET listed == [st EXCEPT !.profiles = @ \cup {x}]
             r == IF st.profile = None THEN [listed EXCEPT !.profile = x] ELSE listed
         IN  /\ StateOK(r, n) /\ r.device = st.device
             /\ r.profiles = st.profiles \cup {x} /\ r.profile \in {x, st.profile}
  <1> DEFINE listed == [st EXCEPT !.profiles = st.profiles \cup {x}]
  <1>1. st.profiles \cup {x} \in SUBSET Profiles BY DEF StateOK, State
  <1>2. /\ StateOK(listed, n) /\ listed.device = st.device
        /\ listed.profile = st.profile /\ listed.profiles = st.profiles \cup {x}
    BY <1>1, ListProfilesOK
  <1> HIDE DEF listed
  <1>3. LET r == [listed EXCEPT !.profile = x]
        IN  /\ StateOK(r, n) /\ r.device = listed.device
            /\ r.profile = x /\ r.profiles = listed.profiles
    BY <1>2, UseProfileOK
  <1> QED BY <1>2, <1>3 DEF listed

LEMMA BasicProfiles ==
  ASSUME Basic, NEW p \in Procs, Import(p) \/ RemoveIn(p)
  PROVE  Basic'
  <1>0. sessions \in sessions .. MaxSessions /\ released \subseteq 1 .. sessions
    BY AgentAssumption DEF Basic, TypeOK
  <1>1. CASE Import(p)
    <2> DEFINE x == Cmd(p).profile
               listed == [Mem(p) EXCEPT !.profiles = @ \cup {x}]
               r == IF Mem(p).profile = None THEN [listed EXCEPT !.profile = x] ELSE listed
    <2>1. ~At(p, "idle") /\ At(p, "import") BY <1>1 DEF Import, At
    <2>2. x \in Profiles BY <2>1, Running DEF AtItsStep, At, Cmd
    <2>3. StateOK(r, sessions) BY <2>1, <2>2, Running, ImportedOK
    <2>4. Typed' BY <1>1, <2>2 DEF Import, Basic, TypeOK, Typed
    <2>5. SaveThen(p, r, "idle") /\ UNCHANGED <<disk, sessions, released>> BY <1>1 DEF Import
    <2> HIDE DEF r
    <2> QED BY <1>0, <2>1, <2>3, <2>4, <2>5, BasicSaveThen
  <1>2. CASE RemoveIn(p)
    <2>1. ~At(p, "idle") BY <1>2 DEF RemoveIn, At
    <2>2. PICK st \in Unlisted(Mem(p), Cmd(p).profile) : SaveThen(p, st, "idle")
      BY <1>2 DEF RemoveIn
    <2>3. StateOK(st, sessions) BY <2>1, Running, UnlistedOK
    <2>4. Typed' BY <1>2 DEF RemoveIn, Basic, TypeOK, Typed
    <2> QED BY <1>0, <1>2, <2>1, <2>2, <2>3, <2>4, BasicSaveThen DEF RemoveIn
  <1> QED BY <1>1, <1>2

LEMMA InitialDisk ==
  ASSUME Init
  PROVE  /\ StateOK(disk, 0) /\ disk.profile = None /\ disk.profiles = {}
         /\ disk.device # None => key = disk.device.key
         /\ key \in 0 .. MaxKeys /\ keys \in 0 .. MaxKeys
  <1>1. PICK u \in Urls : \/ disk = Blank(u) /\ key = 0 /\ keys = 0
                          \/ /\ disk = [Blank(u) EXCEPT !.token = u, !.device = [url |-> u, key |-> 1]]
                             /\ key = 1 /\ keys = 1
    BY DEF Init
  <1>2. CASE disk = Blank(u) /\ key = 0 /\ keys = 0 BY <1>2, BlankOK, AgentAssumption
  <1>3. CASE /\ disk = [Blank(u) EXCEPT !.token = u, !.device = [url |-> u, key |-> 1]]
             /\ key = 1 /\ keys = 1
    <2> DEFINE d == [url |-> u, key |-> 1]
    <2>1. d \in [url : Urls, key : 1 .. MaxKeys] /\ d.url = u /\ d.key = 1 BY AgentAssumption
    <2> HIDE DEF d
    <2>2. disk = [url |-> u, token |-> u, device |-> d, session |-> None,
                  profile |-> None, profiles |-> {}]
      BY <1>3 DEF Blank, d
    <2>3. disk \in State BY <2>1, <2>2 DEF State
    <2>4. StateOK(disk, 0) BY <2>1, <2>2, <2>3 DEF StateOK, AtHome
    <2>5. key \in 0 .. MaxKeys /\ keys \in 0 .. MaxKeys BY <1>3, AgentAssumption
    <2>6. disk.profile = None /\ disk.profiles = {} /\ disk.device = d BY <2>2
    <2>7. key = 1 BY <1>3
    <2> QED BY <2>1, <2>4, <2>5, <2>6, <2>7
  <1> QED BY <1>1, <1>2, <1>3

LEMMA BasicInit == Init => Basic
  <1> SUFFICES ASSUME Init PROVE Basic OBVIOUS
  <1>1. StateOK(disk, sessions) /\ disk \in State BY InitialDisk DEF Init, StateOK
  <1>2. proc \in [Procs -> Proc] /\ \A p \in Procs : proc[p].pc = "idle" BY IdleOK DEF Init
  <1>3. /\ files \subseteq Profiles /\ conf \in Conf \cup {None} /\ tunnel \in Conf \cup {None}
        /\ key \in 0 .. MaxKeys /\ keys \in 0 .. MaxKeys
        /\ sessions \in 0 .. MaxSessions /\ commands \in 0 .. MaxCommands
        /\ released \subseteq 1 .. sessions /\ released \subseteq 1 .. MaxSessions
        /\ overlap \in BOOLEAN /\ cut \in BOOLEAN /\ named \in BOOLEAN
    <2>1. /\ files = {} /\ conf = None /\ tunnel = None /\ sessions = 0 /\ commands = 0
          /\ released = {} /\ overlap = FALSE /\ cut = FALSE /\ named \in BOOLEAN
      BY DEF Init
    <2>2. sessions \in 0 .. MaxSessions /\ commands \in 0 .. MaxCommands
      BY <2>1, AgentAssumption
    <2> QED BY <2>1, <2>2, InitialDisk
  <1>4. TypeOK BY <1>1, <1>2, <1>3 DEF TypeOK, At
  <1>5. \A p \in Procs : ProcOK(proc[p], sessions) BY <1>2 DEF ProcOK
  <1> QED BY <1>1, <1>3, <1>4, <1>5 DEF Basic

LEMMA BasicNext == Basic /\ [Next]_vars => Basic'
  <1> SUFFICES ASSUME Basic, [Next]_vars PROVE Basic' OBVIOUS
  <1>1. CASE UNCHANGED vars BY <1>1 DEF vars, Basic, TypeOK, At, Cmd, Mem
  <1>2. CASE Next
    BY <1>2, BasicStart, BasicSave, BasicStop, BasicDevice, BasicConnect, BasicTunnel,
       BasicProfiles
    DEF Next
  <1> QED BY <1>1, <1>2

-----------------------------------------------------------------------------
(* While commands do not overlap.                                          *)

\* What a command that runs alone may rely on.
LEMMA OnlyOne ==
  ASSUME Inv, ~overlap, NEW p \in Procs, ~At(p, "idle")
  PROVE  /\ \A q \in Procs \ {p} : proc[q].pc = "idle"
         /\ last = "none" /\ Going(proc[p])
         /\ disk # Torn => KeyOK(disk)
         /\ disk # Torn /\ ~cut /\ ~(At(p, "save") /\ Cmd(p).name = "remove") => ProfilesOK(disk)
         /\ NoTunnelOnReleased
  <1>1. \A q \in Procs \ {p} : At(q, "idle") BY DEF Inv, Alone
  <1>2. last = "none" BY DEF Inv, Alone, Quiet
  <1>3. ~(At(p, "save") /\ Cmd(p).name = "remove") => ~Removing BY <1>1 DEF Removing, At
  <1> QED BY <1>1, <1>2, <1>3 DEF Inv, Alone, At

\* The command goes on, as x.
LEMMA GoesOn ==
  ASSUME Inv, NEW p \in Procs, ~At(p, "idle"), NEW x \in Proc, proc' = [proc EXCEPT ![p] = x],
         x.pc # "idle", UNCHANGED <<overlap, last>>,
         ~overlap => Going(x)',
         ~overlap /\ disk' # Torn => KeyOK(disk)',
         ~overlap /\ disk' # Torn /\ ~cut' /\ ~(x.pc = "save" /\ x.cmd.name = "remove") =>
           ProfilesOK(disk)',
         ~overlap => NoTunnelOnReleased'
  PROVE  Alone'
  <1> SUFFICES ASSUME ~overlap
               PROVE  /\ \A r, q \in Procs : proc'[r].pc # "idle" /\ proc'[q].pc # "idle" => r = q
                      /\ last' # "none" => Quiet'
                      /\ disk' # Torn => KeyOK(disk)'
                      /\ disk' # Torn /\ ~cut' /\ ~Removing' => ProfilesOK(disk)'
                      /\ \A q \in Procs : proc'[q].pc # "idle" => Going(proc[q])'
                      /\ ReportsAreTrue' /\ NoTunnelOnReleased'
    BY DEF Alone, At
  <1>1. proc'[p] = x /\ \A q \in Procs \ {p} : proc'[q].pc = "idle"
    BY OnlyOne DEF Inv, Basic, TypeOK
  <1>2. last' = "none" BY OnlyOne
  <1>3. Going(proc[p])' BY <1>1 DEF Going, KeyOK, ProfilesOK, Target
  <1>4. ~Removing' => ~(x.pc = "save" /\ x.cmd.name = "remove") BY <1>1 DEF Removing, At, Cmd
  <1>5. ReportsAreTrue' BY <1>2 DEF ReportsAreTrue
  <1> QED BY <1>1, <1>2, <1>3, <1>4, <1>5

\* The command ends.
LEMMA Ends ==
  ASSUME Inv, NEW p \in Procs, ~At(p, "idle"), NEW how, End(p, how), UNCHANGED overlap,
         ~overlap /\ disk' # Torn => KeyOK(disk)',
         ~overlap /\ disk' # Torn /\ ~cut' => ProfilesOK(disk)',
         ~overlap => ReportsAreTrue' /\ NoTunnelOnReleased'
  PROVE  Alone'
  <1> SUFFICES ASSUME ~overlap
               PROVE  /\ \A r, q \in Procs : proc'[r].pc # "idle" /\ proc'[q].pc # "idle" => r = q
                      /\ last' # "none" => Quiet'
                      /\ disk' # Torn => KeyOK(disk)'
                      /\ disk' # Torn /\ ~cut' /\ ~Removing' => ProfilesOK(disk)'
                      /\ \A q \in Procs : proc'[q].pc # "idle" => Going(proc[q])'
                      /\ ReportsAreTrue' /\ NoTunnelOnReleased'
    BY DEF Alone, At
  <1>1. \A q \in Procs : proc'[q].pc = "idle"
    BY OnlyOne, IdleOK DEF End, Inv, Basic, TypeOK
  <1>2. Quiet' BY <1>1 DEF Quiet, At
  <1> QED BY <1>1, <1>2

\* One that says nothing of the interface, and leaves the files alone.
LEMMA EndsOtherwise ==
  ASSUME Inv, NEW p \in Procs, ~At(p, "idle"), ~At(p, "save"), NEW how, End(p, how),
         how \notin {"connected", "disconnected"},
         UNCHANGED <<disk, files, key, released, overlap, cut, named>>,
         tunnel' \in {tunnel, None}
  PROVE  Alone'
  <1>1. ReportsAreTrue' BY DEF ReportsAreTrue, End
  <1>2. ~overlap => NoTunnelOnReleased' BY OnlyOne DEF NoTunnelOnReleased
  <1>3. ~overlap /\ disk' # Torn => KeyOK(disk)' BY OnlyOne DEF KeyOK
  <1>4. ~overlap /\ disk' # Torn /\ ~cut' => ProfilesOK(disk)' BY OnlyOne DEF ProfilesOK
  <1> QED BY <1>1, <1>2, <1>3, <1>4, Ends

\* A command begins, with the state as it is on disk or about to be saved.
LEMMA Begins ==
  ASSUME Inv, NEW p \in Procs, NEW c \in Command, NEW mem \in State,
         NEW pc \in {"save", "auth", "device", "copy", "down", "release", "import", "remove"},
         NEW then \in {"idle", "session", "copy"},
         Begin(p, c, pc, mem, then),
         pc # "save" => mem = disk,
         pc = "save" => c.name \notin {"disconnect", "remove"} /\ then # "session",
         pc = "device" /\ c.name = "connect" => mem.profile = None,
         pc = "release" => ~c.tunnel,
         mem.device \in {None, disk.device}, mem.profiles = disk.profiles,
         mem.profile \in {None, disk.profile} \cup disk.profiles
  PROVE  Alone'
  <1> SUFFICES ASSUME ~overlap'
               PROVE  /\ \A r, q \in Procs : proc'[r].pc # "idle" /\ proc'[q].pc # "idle" => r = q
                      /\ last' # "none" => Quiet'
                      /\ disk' # Torn => KeyOK(disk)'
                      /\ disk' # Torn /\ ~cut' /\ ~Removing' => ProfilesOK(disk)'
                      /\ \A q \in Procs : proc'[q].pc # "idle" => Going(proc[q])'
                      /\ ReportsAreTrue' /\ NoTunnelOnReleased'
    BY DEF Alone, At
  <1>1. PICK x \in Proc :
          /\ proc' = [proc EXCEPT ![p] = x]
          /\ x.pc = pc /\ x.cmd = c /\ x.mem = mem /\ x.then = then
    BY BeginFields DEF Inv, Basic
  <1>2. /\ ~overlap /\ \A q \in Procs : proc[q].pc = "idle"
        /\ disk # Torn /\ last' = "none"
        /\ UNCHANGED <<disk, files, conf, key, tunnel, sessions, keys, released, cut, named>>
    BY DEF Begin, At
  <1>3. proc'[p] = x /\ \A q \in Procs \ {p} : proc'[q].pc = "idle"
    BY <1>1, <1>2 DEF Inv, Basic, TypeOK
  <1>4. KeyOK(disk) /\ (~cut => ProfilesOK(disk)) /\ NoTunnelOnReleased
    BY <1>2 DEF Inv, Alone, Removing, At
  <1>5. KeyOK(disk)' /\ (~cut' => ProfilesOK(disk)') /\ NoTunnelOnReleased'
    BY <1>2, <1>4 DEF KeyOK, ProfilesOK, NoTunnelOnReleased
  <1>6. ReportsAreTrue' BY <1>2 DEF ReportsAreTrue
  <1>7. KeyOK(mem)' /\ (~cut' => ProfilesOK(mem)')
    BY <1>2, <1>4 DEF KeyOK, ProfilesOK
  <1>8. Going(x)'
    BY <1>1, <1>2, <1>7 DEF Going
  <1>9. Going(proc[p])' BY <1>3, <1>8 DEF Going, KeyOK, ProfilesOK, Target
  <1> QED BY <1>2, <1>3, <1>5, <1>6, <1>9

\* The command has a new state mem, and will save it.
LEMMA WillSave ==
  ASSUME Inv, NEW p \in Procs, ~At(p, "idle"), ~At(p, "save"), NEW mem \in State,
         NEW then \in {"idle", "device", "session", "render"}, SaveThen(p, mem, then),
         UNCHANGED <<disk, conf, key, tunnel, overlap, cut, last, named>>,
         files \subseteq files' \/ Cmd(p).name = "remove",
         ~overlap => KeyOK(mem),
         ~overlap /\ ~cut => /\ mem.profile # None => mem.profile \in mem.profiles
                             /\ mem.profiles \subseteq files',
         ~overlap /\ then \in {"session", "render"} => mem.profile = None /\ mem.device # None,
         ~overlap /\ then = "render" => mem.session.id \notin released',
         ~overlap /\ then = "idle" /\ Cmd(p).name = "disconnect" =>
           mem.session = None /\ (Cmd(p).tunnel => ~Seen),
         ~overlap => NoTunnelOnReleased'
  PROVE  Alone'
  <1>1. PICK x \in Proc :
          /\ proc' = [proc EXCEPT ![p] = x]
          /\ x.pc = "save" /\ x.cmd = Cmd(p) /\ x.mem = mem /\ x.then = then
    BY SaveFields DEF Inv, Basic
  <1>2. ASSUME ~overlap PROVE Going(x)'
    <2>1. KeyOK(x.mem)' BY <1>1, <1>2 DEF KeyOK
    <2>2. ~cut' => ProfilesOK(x.mem)' BY <1>1, <1>2 DEF ProfilesOK
    <2>3. Seen' = Seen BY DEF Seen
    <2> QED BY <1>1, <1>2, <2>1, <2>2, <2>3 DEF Going
  <1>3. ~overlap /\ disk' # Torn => KeyOK(disk)' BY OnlyOne DEF KeyOK
  <1>4. ~overlap /\ disk' # Torn /\ ~cut' /\ ~(x.pc = "save" /\ x.cmd.name = "remove") =>
          ProfilesOK(disk)'
    BY <1>1, OnlyOne DEF ProfilesOK
  <1> QED BY <1>1, <1>2, <1>3, <1>4, GoesOn

LEMMA AloneStart ==
  ASSUME Inv, NEW p \in Procs,
         \/ StartLogin(p) \/ StartLogout(p) \/ (\E u \in Urls : StartUrl(p, u))
         \/ \E c \in ProfileCommand : StartProfile(p, c)
         \/ \E c \in Connect : StartConnect(p, c)
         \/ \E c \in Disconnect : StartDisconnect(p, c)
  PROVE  Alone'
  <1>0. disk # Torn => StateOK(disk, sessions) /\ disk \in State BY DEF Inv, Basic, StateOK
  <1>1. CASE StartLogin(p)
    <2>1. [name |-> "login"] \in Command /\ [name |-> "login"].name = "login" BY DEF Command
    <2>2. disk # Torn BY <1>1 DEF StartLogin, Begin
    <2> QED BY <1>0, <1>1, <2>1, <2>2, Begins DEF StartLogin
  <1>2. CASE StartLogout(p)
    <2> DEFINE c == [name |-> "logout"]
    <2>1. c \in Command /\ c.name = "logout" BY DEF Command
    <2>2. disk # Torn BY <1>2 DEF StartLogout, Begin
    <2>3. /\ LoggedOut(disk) \in State /\ LoggedOut(disk).device = disk.device
          /\ LoggedOut(disk).profile = disk.profile /\ LoggedOut(disk).profiles = disk.profiles
      BY <1>0, <2>2, LoggedOutOK DEF StateOK
    <2>4. Begin(p, c, "save", LoggedOut(disk), "idle") BY <1>2 DEF StartLogout
    <2> HIDE DEF c
    <2> QED BY <2>1, <2>3, <2>4, Begins
  <1>3. ASSUME NEW u \in Urls, StartUrl(p, u) PROVE Alone'
    <2> DEFINE c == [name |-> "url", url |-> u]
    <2>1. c \in Command /\ c.name = "url" BY DEF Command
    <2>2. disk # Torn BY <1>3 DEF StartUrl, Begin
    <2>3. /\ AtUrl(disk, u) \in State /\ AtUrl(disk, u).device \in {None, disk.device}
          /\ AtUrl(disk, u).profile = disk.profile /\ AtUrl(disk, u).profiles = disk.profiles
      BY <1>0, <2>2, AtUrlOK DEF StateOK
    <2>4. Begin(p, c, "save", AtUrl(disk, u), "idle") BY <1>3 DEF StartUrl
    <2> HIDE DEF c
    <2> QED BY <2>1, <2>3, <2>4, Begins
  <1>4. ASSUME NEW c \in Command, c.name \notin {"disconnect", "remove"}, NEW then \in {"idle", "copy"},
               disk # Torn, NEW y \in Profiles \cup {None}, y # None => y \in disk.profiles,
               Begin(p, c, "save", [disk EXCEPT !.profile = y], then)
        PROVE  Alone'
    <2> DEFINE r == [disk EXCEPT !.profile = y]
    <2>1. r \in State /\ r.device = disk.device /\ r.profile = y /\ r.profiles = disk.profiles
      BY <1>0, <1>4, UseProfileOK DEF StateOK
    <2>2. Begin(p, c, "save", r, then) BY <1>4
    <2> HIDE DEF r
    <2> QED BY <1>4, <2>1, <2>2, Begins
  <1>5. ASSUME NEW c \in ProfileCommand, StartProfile(p, c) PROVE Alone'
    <2>1. c \in Command /\ disk # Torn BY <1>5, ProfileBegins DEF Inv
    <2>2. CASE c.name \in {"import", "remove"} /\ Begin(p, c, c.name, disk, "idle")
      BY <1>0, <2>1, <2>2, Begins
    <2>3. CASE c.name = "list" /\ Begin(p, c, "save", disk, "idle")
      BY <1>0, <2>1, <2>3, Begins
    <2>4. CASE c.name = "useNone" /\ Begin(p, c, "save", [disk EXCEPT !.profile = None], "idle")
      BY <1>4, <2>1, <2>4
    <2>5. CASE /\ c.name = "use" /\ c.profile \in disk.profiles
               /\ Begin(p, c, "save", [disk EXCEPT !.profile = c.profile], "idle")
      <3>1. c.profile \in Profiles BY <1>5, <2>5, ProfileBegins DEF Inv
      <3> QED BY <1>4, <2>1, <2>5, <3>1
    <2> QED BY <1>5, <2>2, <2>3, <2>4, <2>5, ProfileBegins DEF Inv
  <1>6. ASSUME NEW c \in Connect, StartConnect(p, c) PROVE Alone'
    <2>1. c \in Command /\ c.name = "connect" /\ c.profile \in Profiles \cup {None}
      BY DEF Command, Connect
    <2>2. disk # Torn BY <1>6 DEF StartConnect
    <2>3. CASE /\ c.profile \in disk.profiles
               /\ Begin(p, c, "save", [disk EXCEPT !.profile = c.profile], "copy")
      BY <1>4, <2>1, <2>2, <2>3
    <2>4. CASE Begin(p, c, "copy", disk, "idle") BY <1>0, <2>1, <2>2, <2>4, Begins
    <2>5. CASE Mode(disk) # "direct" /\ Begin(p, c, "device", disk, "session")
      <3>1. disk.profile = None BY <2>5 DEF Mode
      <3> QED BY <1>0, <2>1, <2>2, <2>5, <3>1, Begins
    <2> QED BY <1>6, <2>3, <2>4, <2>5 DEF StartConnect
  <1>7. ASSUME NEW c \in Disconnect, StartDisconnect(p, c) PROVE Alone'
    <2>1. c \in Command /\ c.name = "disconnect" BY DEF Command, Disconnect
    <2>2. disk # Torn BY <1>7 DEF StartDisconnect
    <2>3. CASE Begin(p, c, "down", disk, "idle") BY <1>0, <2>1, <2>2, <2>3, Begins
    <2>4. CASE ~c.tunnel /\ Begin(p, c, "release", disk, "idle")
      BY <1>0, <2>1, <2>2, <2>4, Begins
    <2> QED BY <1>7, <2>3, <2>4 DEF StartDisconnect
  <1> QED BY <1>1, <1>2, <1>3, <1>5, <1>6, <1>7

LEMMA AloneSave ==
  ASSUME Inv, NEW p \in Procs, Save(p) PROVE Alone'
  <1>1. /\ At(p, "save") /\ ~At(p, "idle") /\ disk' = Mem(p)
        /\ UNCHANGED <<files, conf, key, tunnel, released, overlap, cut, named>>
    BY DEF Save, At
  <1>2. ~overlap => KeyOK(Mem(p)) /\ (~cut => ProfilesOK(Mem(p)))
    BY <1>1, OnlyOne DEF Going, Mem
  <1>3. ~overlap => KeyOK(disk)' /\ (~cut' => ProfilesOK(disk)')
    BY <1>1, <1>2 DEF KeyOK, ProfilesOK
  <1>4. ~overlap => NoTunnelOnReleased' BY <1>1, OnlyOne DEF NoTunnelOnReleased
  <1>5. CASE proc[p].then = "idle"
    <2> DEFINE how == IF Cmd(p).name # "disconnect" THEN "done"
                      ELSE IF Cmd(p).tunnel THEN "disconnected" ELSE "released"
    <2>1. End(p, how) BY <1>5 DEF Save
    <2>2. /\ last' = how /\ how # "connected"
          /\ how = "disconnected" => Cmd(p).name = "disconnect" /\ Cmd(p).tunnel
      BY <2>1 DEF End
    <2> HIDE DEF how
    <2>3. ~overlap /\ how = "disconnected" => Mem(p).session = None /\ ~Seen
      BY <1>1, <1>5, <2>2, OnlyOne DEF Going, At, Mem, Cmd
    <2>4. ~overlap => ReportsAreTrue' BY <1>1, <2>2, <2>3 DEF ReportsAreTrue, Seen
    <2> QED BY <1>1, <1>3, <1>4, <2>1, <2>4, Ends
  <1>6. CASE proc[p].then # "idle"
    <2>1. proc[p] \in Proc BY DEF Inv, Basic, TypeOK
    <2>2. proc[p].then \in {"device", "session", "render", "copy"} BY <1>6, <2>1 DEF Proc
    <2>3. Go(p, proc[p].then) /\ UNCHANGED last BY <1>6 DEF Save
    <2>4. PICK x \in Proc :
            /\ proc' = [proc EXCEPT ![p] = x]
            /\ x.pc = proc[p].then /\ x.cmd = Cmd(p) /\ x.mem = Mem(p)
      BY <2>2, <2>3, GoFields DEF Inv, Basic
    <2>5. x.pc = "device" => x.cmd.name = "login"
      BY <1>1, <2>4, Running DEF Inv, AtItsStep, At, Cmd
    <2>6. ASSUME ~overlap PROVE Going(x)'
      <3>1. KeyOK(x.mem)' /\ (~cut' => ProfilesOK(x.mem)')
        BY <1>1, <1>2, <2>4, <2>6 DEF KeyOK, ProfilesOK
      <3>2. x.pc \in {"session", "render"} => x.mem.profile = None /\ x.mem.device # None
        BY <1>1, <2>4, <2>6, OnlyOne DEF Going, At, Mem
      <3>3. x.pc = "render" => x.mem.session.id \notin released'
        BY <1>1, <2>4, <2>6, OnlyOne DEF Going, At, Mem
      <3>4. x.pc # "save" /\ x.pc # "up" /\ x.pc # "register" /\ x.pc # "release"
        BY <2>2, <2>4
      <3> QED BY <1>1, <2>4, <2>5, <3>1, <3>2, <3>3, <3>4 DEF Going
    <2>7. x.pc # "idle" BY <2>2, <2>4
    <2> QED BY <1>1, <1>3, <1>4, <2>3, <2>4, <2>6, <2>7, GoesOn
  <1> QED BY <1>5, <1>6

LEMMA AloneStop ==
  ASSUME Inv, NEW p \in Procs, Stop(p) PROVE Alone'
  <1>1. /\ ~At(p, "idle") /\ End(p, "failed") /\ disk' \in {disk, Torn}
        /\ cut' = (cut \/ (At(p, "save") /\ Cmd(p).name = "remove"))
        /\ UNCHANGED <<files, conf, key, tunnel, released, overlap, named>>
    BY DEF Stop
  <1>2. ~overlap /\ disk' # Torn => KeyOK(disk)' BY <1>1, OnlyOne DEF KeyOK
  <1>3. ~overlap /\ disk' # Torn /\ ~cut' => ProfilesOK(disk)' BY <1>1, OnlyOne DEF ProfilesOK
  <1>4. ReportsAreTrue' BY <1>1 DEF ReportsAreTrue, End
  <1>5. ~overlap => NoTunnelOnReleased' BY <1>1, OnlyOne DEF NoTunnelOnReleased
  <1> QED BY <1>1, <1>2, <1>3, <1>4, <1>5, Ends

LEMMA AloneDevice ==
  ASSUME Inv, NEW p \in Procs,
         Authenticate(p) \/ KnownDevice(p) \/ StoreKey(p) \/ Register(p)
  PROVE  Alone'
  <1>1. CASE Authenticate(p)
    <2> DEFINE r == [Mem(p) EXCEPT !.token = Mem(p).url]
    <2>1. At(p, "auth") /\ ~At(p, "idle") /\ ~At(p, "save") BY <1>1 DEF Authenticate, At
    <2>2. Cmd(p).name = "login" BY <2>1, Running DEF Inv, AtItsStep, At, Cmd
    <2>3. /\ r \in State /\ r.device = Mem(p).device
          /\ r.profile = Mem(p).profile /\ r.profiles = Mem(p).profiles
      BY <2>1, Running, SetTokenOK DEF Inv, StateOK
    <2>4. SaveThen(p, r, "device") /\ UNCHANGED <<disk, files, conf, key, tunnel, released,
            overlap, cut, last, named>>
      BY <1>1 DEF Authenticate
    <2> HIDE DEF r
    <2>5. ~overlap => KeyOK(Mem(p)) /\ (~cut => ProfilesOK(Mem(p)))
      BY <2>1, OnlyOne DEF Going, Mem
    <2>6. ~overlap => KeyOK(r) /\ (~cut => /\ r.profile # None => r.profile \in r.profiles
                                           /\ r.profiles \subseteq files')
      BY <2>3, <2>4, <2>5 DEF KeyOK, ProfilesOK
    <2>7. ~overlap => NoTunnelOnReleased' BY <2>1, <2>4, OnlyOne DEF NoTunnelOnReleased
    <2> QED BY <2>1, <2>2, <2>3, <2>4, <2>6, <2>7, WillSave
  <1>2. CASE KnownDevice(p)
    <2>1. /\ At(p, "device") /\ ~At(p, "idle") /\ ~At(p, "save") /\ Mem(p).device # None
          /\ UNCHANGED <<disk, files, conf, key, tunnel, released, overlap, cut, named>>
      BY <1>2 DEF KnownDevice, At
    <2>2. CASE End(p, "done") BY <2>1, <2>2, EndsOtherwise
    <2>3. CASE Cmd(p).name # "login" /\ Go(p, "session") /\ UNCHANGED last
      <3>1. PICK x \in Proc :
              /\ proc' = [proc EXCEPT ![p] = x]
              /\ x.pc = "session" /\ x.cmd = Cmd(p) /\ x.mem = Mem(p)
        BY <2>3, GoFields DEF Inv, Basic
      <3>2. Cmd(p).name = "connect" BY <2>1, <2>3, Running DEF Inv, AtItsStep, At, Cmd
      <3>3. ASSUME ~overlap PROVE Going(x)'
        <4>1. Going(proc[p]) BY <2>1, <3>3, OnlyOne
        <4>2. Mem(p) = disk /\ Mem(p).profile = None BY <2>1, <3>2, <4>1 DEF Going, At, Mem, Cmd
        <4>3. KeyOK(x.mem)' /\ (~cut' => ProfilesOK(x.mem)')
          BY <2>1, <3>1, <4>1 DEF Going, Mem, KeyOK, ProfilesOK
        <4> QED BY <2>1, <3>1, <4>2, <4>3 DEF Going
      <3>4. ~overlap /\ disk' # Torn => KeyOK(disk)' BY <2>1, OnlyOne DEF KeyOK
      <3>5. ~overlap /\ disk' # Torn /\ ~cut' => ProfilesOK(disk)'
        BY <2>1, OnlyOne DEF ProfilesOK
      <3>6. ~overlap => NoTunnelOnReleased' BY <2>1, OnlyOne DEF NoTunnelOnReleased
      <3> QED BY <2>1, <2>3, <3>1, <3>3, <3>4, <3>5, <3>6, GoesOn
    <2> QED BY <1>2, <2>2, <2>3 DEF KnownDevice
  <1>3. CASE StoreKey(p)
    <2>1. /\ At(p, "device") /\ ~At(p, "idle") /\ ~At(p, "save") /\ Mem(p).device = None
          /\ UNCHANGED <<disk, files, conf, tunnel, released, overlap, cut, last, named>>
      BY <1>3 DEF StoreKey, At
    <2>2. PICK x \in Proc :
            /\ proc' = [proc EXCEPT ![p] = x]
            /\ x.pc = "register" /\ x.cmd = Cmd(p) /\ x.mem = Mem(p) /\ x.own = keys + 1
            /\ key' = keys + 1
      BY <1>3, StoreKeyFields DEF Inv, Basic
    <2>3. ASSUME ~overlap PROVE Going(x)' /\ disk.device = None
      <3>1. Going(proc[p]) BY <2>1, <2>3, OnlyOne
      <3>2. Mem(p) = disk /\ (Cmd(p).name = "connect" => Mem(p).profile = None)
        BY <2>1, <3>1 DEF Going, At, Mem, Cmd
      <3>3. ~cut' => ProfilesOK(x.mem)' BY <2>1, <2>2, <3>1 DEF Going, Mem, ProfilesOK
      <3>4. KeyOK(x.mem)' BY <2>1, <2>2 DEF KeyOK
      <3>5. Going(x)' BY <2>1, <2>2, <3>2, <3>3, <3>4 DEF Going
      <3> QED BY <2>1, <3>2, <3>5
    <2>4. ~overlap => KeyOK(disk)' BY <2>1, <2>3 DEF KeyOK
    <2>5. ~overlap /\ disk' # Torn /\ ~cut' => ProfilesOK(disk)'
      BY <2>1, OnlyOne DEF ProfilesOK
    <2>6. ~overlap => NoTunnelOnReleased' BY <2>1, OnlyOne DEF NoTunnelOnReleased
    <2> QED BY <2>1, <2>2, <2>3, <2>4, <2>5, <2>6, GoesOn
  <1>4. CASE Register(p)
    <2> DEFINE d == [url |-> Mem(p).url, key |-> proc[p].own]
               r == [Mem(p) EXCEPT !.device = d]
    <2>1. At(p, "register") /\ ~At(p, "idle") /\ ~At(p, "save") BY <1>4 DEF Register, At
    <2>2. /\ Cmd(p).name \in {"login", "connect"} /\ proc[p].own \in 1 .. MaxKeys
          /\ StateOK(Mem(p), sessions) /\ Mem(p) \in State
      BY <2>1, Running DEF Inv, AtItsStep, At, Cmd
    <2>3. /\ r \in State /\ r.device = d
          /\ r.profile = Mem(p).profile /\ r.profiles = Mem(p).profiles
      BY <2>2, SetDeviceOK DEF StateOK
    <2>4. d.key = proc[p].own /\ d # None BY <2>2, AgentAssumption DEF State
    <2>5. SaveThen(p, r, AfterDevice(p)) /\ UNCHANGED <<disk, files, conf, key, tunnel, released,
            overlap, cut, last, named>>
      BY <1>4 DEF Register
    <2> HIDE DEF r, d
    <2>6. AfterDevice(p) \in {"idle", "session"} /\ (AfterDevice(p) = "session" => Cmd(p).name = "connect")
      BY <2>2 DEF AfterDevice
    <2>7. ASSUME ~overlap
          PROVE  /\ KeyOK(r)
                 /\ ~cut => /\ r.profile # None => r.profile \in r.profiles
                            /\ r.profiles \subseteq files'
                 /\ AfterDevice(p) = "session" => r.profile = None
      <3>1. Going(proc[p]) BY <2>1, <2>7, OnlyOne
      <3>2. key = proc[p].own /\ (Cmd(p).name = "connect" => Mem(p).profile = None)
        BY <2>1, <3>1 DEF Going, At, Mem, Cmd
      <3>3. ~cut => ProfilesOK(Mem(p)) BY <3>1 DEF Going, Mem
      <3> QED BY <2>3, <2>4, <2>5, <2>6, <3>2, <3>3 DEF KeyOK, ProfilesOK
    <2>8. ~overlap => NoTunnelOnReleased' BY <2>1, <2>5, OnlyOne DEF NoTunnelOnReleased
    <2> QED BY <2>1, <2>2, <2>3, <2>4, <2>5, <2>6, <2>7, <2>8, WillSave
  <1> QED BY <1>1, <1>2, <1>3, <1>4

LEMMA AloneConnect ==
  ASSUME Inv, NEW p \in Procs, CreateSession(p) \/ WriteConfig(p) \/ CopyProfile(p)
  PROVE  Alone'
  <1>1. CASE CreateSession(p)
    <2> DEFINE s == [url |-> Mem(p).url, id |-> sessions + 1]
               r == [Mem(p) EXCEPT !.session = s]
    <2>1. /\ At(p, "session") /\ ~At(p, "idle") /\ ~At(p, "save")
          /\ UNCHANGED <<disk, files, conf, key, tunnel, released, overlap, cut, named>>
      BY <1>1 DEF CreateSession, At
    <2>2. CASE End(p, "failed") BY <2>1, <2>2, EndsOtherwise
    <2>3. CASE SaveThen(p, r, "render") /\ UNCHANGED last
      <3>1. /\ sessions \in Nat /\ sessions + 1 <= MaxSessions /\ Mem(p).token # None
            /\ StateOK(Mem(p), sessions) /\ Cmd(p).name = "connect"
        BY <1>1, <2>1, Running, AgentAssumption
        DEF CreateSession, Inv, Basic, TypeOK, AtItsStep, At, Cmd
      <3>2. /\ r \in State /\ r.session = s /\ r.device = Mem(p).device
            /\ r.profile = Mem(p).profile /\ r.profiles = Mem(p).profiles
        BY <3>1, SetSessionOK DEF StateOK
      <3>3. s.id = sessions + 1 OBVIOUS
      <3>4. s.id \notin released BY <3>1, <3>3 DEF Inv, Basic
      <3>5. SaveThen(p, r, "render") BY <2>3
      <3> HIDE DEF r, s
      <3>6. ASSUME ~overlap
            PROVE  /\ KeyOK(r) /\ r.profile = None /\ r.device # None
                   /\ ~cut => /\ r.profile # None => r.profile \in r.profiles
                              /\ r.profiles \subseteq files'
        <4>1. Going(proc[p]) BY <2>1, <3>6, OnlyOne
        <4>2. Mem(p).profile = None /\ Mem(p).device # None /\ KeyOK(Mem(p))
          BY <2>1, <4>1 DEF Going, At, Mem
        <4>3. ~cut => ProfilesOK(Mem(p)) BY <4>1 DEF Going, Mem
        <4> QED BY <2>1, <3>2, <4>2, <4>3 DEF KeyOK, ProfilesOK
      <3>7. ~overlap => NoTunnelOnReleased' BY <2>1, OnlyOne DEF NoTunnelOnReleased
      <3> QED BY <2>1, <2>3, <3>1, <3>2, <3>4, <3>5, <3>6, <3>7, WillSave
    <2> QED BY <1>1, <2>2, <2>3 DEF CreateSession
  <1>2. ASSUME At(p, "render") \/ At(p, "copy"), Go(p, "up"),
               UNCHANGED <<disk, files, key, tunnel, released, overlap, cut, last, named>>,
               ~overlap => /\ conf' = Target(Mem(p))
                           /\ Mem(p).profile = None =>
                                Mem(p).session # None /\ Mem(p).session.id \notin released
        PROVE  Alone'
    <2>1. ~At(p, "idle") /\ ~At(p, "save") BY <1>2 DEF At
    <2>2. PICK x \in Proc :
            /\ proc' = [proc EXCEPT ![p] = x]
            /\ x.pc = "up" /\ x.cmd = Cmd(p) /\ x.mem = Mem(p)
      BY <1>2, GoFields DEF Inv, Basic
    <2>3. ASSUME ~overlap PROVE Going(x)'
      <3>1. Going(proc[p]) BY <2>1, <2>3, OnlyOne
      <3>2. Mem(p) = disk BY <2>1, <3>1 DEF Going, At, Mem
      <3>3. KeyOK(x.mem)' /\ (~cut' => ProfilesOK(x.mem)')
        BY <1>2, <2>2, <3>1 DEF Going, Mem, KeyOK, ProfilesOK
      <3>4. conf' = Target(x.mem)' BY <1>2, <2>2, <2>3 DEF Target
      <3> QED BY <1>2, <2>2, <2>3, <3>2, <3>3, <3>4 DEF Going
    <2>4. ~overlap /\ disk' # Torn => KeyOK(disk)' BY <1>2, <2>1, OnlyOne DEF KeyOK
    <2>5. ~overlap /\ disk' # Torn /\ ~cut' => ProfilesOK(disk)'
      BY <1>2, <2>1, OnlyOne DEF ProfilesOK
    <2>6. ~overlap => NoTunnelOnReleased' BY <1>2, <2>1, OnlyOne DEF NoTunnelOnReleased
    <2> QED BY <1>2, <2>1, <2>2, <2>3, <2>4, <2>5, <2>6, GoesOn
  <1>3. CASE WriteConfig(p)
    <2>1. /\ At(p, "render") /\ ~At(p, "idle") /\ ~At(p, "save")
          /\ conf' = [id |-> Mem(p).session.id, key |-> key]
          /\ UNCHANGED <<disk, files, key, tunnel, released, overlap, cut, named>>
      BY <1>3 DEF WriteConfig, At
    <2>2. CASE End(p, "created") BY <2>1, <2>2, EndsOtherwise
    <2>3. CASE Go(p, "up") /\ UNCHANGED last
      <3>1. ASSUME ~overlap
            PROVE  /\ conf' = Target(Mem(p))
                   /\ Mem(p).session # None /\ Mem(p).session.id \notin released
        <4>1. Going(proc[p]) BY <2>1, <3>1, OnlyOne
        <4>2. /\ Mem(p).profile = None /\ Mem(p).device # None /\ KeyOK(Mem(p))
              /\ Mem(p).session.id \notin released
          BY <2>1, <4>1 DEF Going, At, Mem
        <4>3. Mem(p).session # None BY <2>1, Running DEF Inv
        <4> QED BY <2>1, <4>2, <4>3 DEF Target, KeyOK
      <3> QED BY <1>2, <2>1, <2>3, <3>1
    <2> QED BY <1>3, <2>2, <2>3 DEF WriteConfig
  <1>4. CASE CopyProfile(p)
    <2>1. Mem(p).profile # None
      BY <1>4, AgentAssumption DEF CopyProfile, Inv, Basic, TypeOK
    <2>2. conf' = Target(Mem(p)) BY <1>4, <2>1 DEF CopyProfile, Target
    <2> QED BY <1>2, <1>4, <2>1, <2>2 DEF CopyProfile
  <1> QED BY <1>1, <1>3, <1>4

LEMMA AloneTunnel ==
  ASSUME Inv, NEW p \in Procs, NoPrivilege(p) \/ RunFails(p) \/ Up(p) \/ Down(p) \/ Release(p)
  PROVE  Alone'
  <1>1. CASE NoPrivilege(p) BY <1>1, EndsOtherwise DEF NoPrivilege, At
  <1>2. CASE RunFails(p)
    <2>1. tunnel' \in {tunnel, None} BY <1>2, StepsFail DEF RunFails
    <2> QED BY <1>2, <2>1, EndsOtherwise DEF RunFails, At
  <1>3. CASE Up(p)
    <2>1. /\ At(p, "up") /\ ~At(p, "idle") /\ ~At(p, "save") /\ End(p, "connected")
          /\ UNCHANGED <<disk, files, conf, key, released, overlap, cut, named>>
      BY <1>3 DEF Up, At
    <2>2. tunnel' = conf BY <1>3, StepsDone DEF Up
    <2>3. ASSUME ~overlap PROVE ReportsAreTrue' /\ NoTunnelOnReleased'
      <3>1. Going(proc[p]) BY <2>1, <2>3, OnlyOne
      <3>2. /\ conf = Target(disk)
            /\ disk.profile = None => disk.session # None /\ disk.session.id \notin released
        BY <2>1, <3>1 DEF Going, At
      <3>3. last' = "connected" BY <2>1 DEF End
      <3>4. ReportsAreTrue' BY <2>1, <2>2, <3>2, <3>3 DEF ReportsAreTrue, Target
      <3>5. NoTunnelOnReleased' BY <2>1, <2>2, <3>2 DEF NoTunnelOnReleased, Target
      <3> QED BY <3>4, <3>5
    <2>4. ~overlap /\ disk' # Torn => KeyOK(disk)' BY <2>1, OnlyOne DEF KeyOK
    <2>5. ~overlap /\ disk' # Torn /\ ~cut' => ProfilesOK(disk)'
      BY <2>1, OnlyOne DEF ProfilesOK
    <2> QED BY <2>1, <2>3, <2>4, <2>5, Ends
  <1>4. CASE Down(p)
    <2>1. /\ At(p, "down") /\ ~At(p, "idle") /\ ~At(p, "save")
          /\ UNCHANGED <<disk, files, conf, key, released, overlap, cut, named>>
      BY <1>4 DEF Down, At
    <2>2. tunnel' = IF Seen THEN None ELSE tunnel BY <1>4, StepsDone DEF Down
    <2>3. CASE End(p, "down") BY <2>1, <2>2, <2>3, EndsOtherwise
    <2>4. CASE Go(p, "release") /\ UNCHANGED last
      <3>1. PICK x \in Proc :
              /\ proc' = [proc EXCEPT ![p] = x]
              /\ x.pc = "release" /\ x.cmd = Cmd(p) /\ x.mem = Mem(p)
        BY <2>4, GoFields DEF Inv, Basic
      <3>2. ~Seen' BY <2>1, <2>2 DEF Seen
      <3>3. ASSUME ~overlap PROVE Going(x)'
        <4>1. Going(proc[p]) BY <2>1, <3>3, OnlyOne
        <4>2. Mem(p) = disk BY <2>1, <4>1 DEF Going, At, Mem
        <4>3. KeyOK(x.mem)' /\ (~cut' => ProfilesOK(x.mem)')
          BY <2>1, <3>1, <4>1 DEF Going, Mem, KeyOK, ProfilesOK
        <4> QED BY <2>1, <3>1, <3>2, <4>2, <4>3 DEF Going
      <3>4. ~overlap /\ disk' # Torn => KeyOK(disk)' BY <2>1, OnlyOne DEF KeyOK
      <3>5. ~overlap /\ disk' # Torn /\ ~cut' => ProfilesOK(disk)'
        BY <2>1, OnlyOne DEF ProfilesOK
      <3>6. ~overlap => NoTunnelOnReleased' BY <2>1, <2>2, OnlyOne DEF NoTunnelOnReleased
      <3> QED BY <2>1, <2>4, <3>1, <3>3, <3>4, <3>5, <3>6, GoesOn
    <2> QED BY <1>4, <2>3, <2>4 DEF Down
  <1>5. CASE Release(p)
    <2> DEFINE r == [Mem(p) EXCEPT !.session = None]
    <2>1. /\ At(p, "release") /\ ~At(p, "idle") /\ ~At(p, "save")
          /\ UNCHANGED <<disk, files, conf, key, tunnel, overlap, cut, last, named>>
          /\ released' = IF Mem(p).session # None /\ Cmd(p).tunnel
                         THEN released \cup {Mem(p).session.id} ELSE released
      BY <1>5 DEF Release, At
    <2>2. /\ r \in State /\ r.session = None /\ r.device = Mem(p).device
          /\ r.profile = Mem(p).profile /\ r.profiles = Mem(p).profiles
      BY <2>1, Running, ForgetSessionOK DEF Inv, StateOK
    <2>3. SaveThen(p, r, "idle") BY <1>5 DEF Release
    <2> HIDE DEF r
    <2>4. ASSUME ~overlap
          PROVE  /\ KeyOK(r) /\ (Cmd(p).tunnel => ~Seen)
                 /\ ~cut => /\ r.profile # None => r.profile \in r.profiles
                            /\ r.profiles \subseteq files'
      <3>1. Going(proc[p]) BY <2>1, <2>4, OnlyOne
      <3>2. KeyOK(Mem(p)) /\ (Cmd(p).tunnel => ~Seen)
        BY <2>1, <3>1 DEF Going, At, Mem, Cmd
      <3>3. ~cut => ProfilesOK(Mem(p)) BY <3>1 DEF Going, Mem
      <3> QED BY <2>1, <2>2, <3>2, <3>3 DEF KeyOK, ProfilesOK
    <2>5. ASSUME ~overlap PROVE NoTunnelOnReleased'
      <3>1. CASE released' = released BY <2>1, <2>5, <3>1, OnlyOne DEF NoTunnelOnReleased
      <3>2. CASE Cmd(p).tunnel
        <4>1. named => tunnel = None BY <2>4, <2>5, <3>2 DEF Seen
        <4> QED BY <2>1, <4>1 DEF NoTunnelOnReleased
      <3> QED BY <2>1, <3>1, <3>2
    <2> QED BY <2>1, <2>2, <2>3, <2>4, <2>5, WillSave
  <1> QED BY <1>1, <1>2, <1>3, <1>4, <1>5

LEMMA AloneProfiles ==
  ASSUME Inv, NEW p \in Procs, Import(p) \/ RemoveIn(p)
  PROVE  Alone'
  <1>1. CASE Import(p)
    <2> DEFINE x == Cmd(p).profile
               listed == [Mem(p) EXCEPT !.profiles = @ \cup {x}]
               r == IF Mem(p).profile = None THEN [listed EXCEPT !.profile = x] ELSE listed
    <2>1. /\ At(p, "import") /\ ~At(p, "idle") /\ ~At(p, "save") /\ files' = files \cup {x}
          /\ UNCHANGED <<disk, conf, key, tunnel, released, overlap, cut, last, named>>
          /\ SaveThen(p, r, "idle")
      BY <1>1 DEF Import, At
    <2>2. x \in Profiles /\ Cmd(p).name = "import"
      BY <2>1, Running DEF Inv, AtItsStep, At, Cmd
    <2>3. /\ r \in State /\ r.device = Mem(p).device
          /\ r.profiles = Mem(p).profiles \cup {x} /\ r.profile \in {x, Mem(p).profile}
      <3>1. StateOK(Mem(p), sessions) BY <2>1, Running DEF Inv
      <3>2. /\ StateOK(r, sessions) /\ r.device = Mem(p).device
            /\ r.profiles = Mem(p).profiles \cup {x} /\ r.profile \in {x, Mem(p).profile}
        BY <2>2, <3>1, ImportedOK
      <3>3. r \in State
        <4> HIDE DEF r
        <4> QED BY <3>2 DEF StateOK
      <3> QED BY <3>2, <3>3
    <2> HIDE DEF r
    <2>4. ASSUME ~overlap
          PROVE  /\ KeyOK(r)
                 /\ ~cut => /\ r.profile # None => r.profile \in r.profiles
                            /\ r.profiles \subseteq files'
      <3>1. KeyOK(Mem(p)) /\ (~cut => ProfilesOK(Mem(p))) BY <2>1, <2>4, OnlyOne DEF Going, Mem
      <3> QED BY <2>1, <2>3, <3>1 DEF KeyOK, ProfilesOK
    <2>5. ~overlap => NoTunnelOnReleased' BY <2>1, OnlyOne DEF NoTunnelOnReleased
    <2> QED BY <2>1, <2>2, <2>3, <2>4, <2>5, WillSave
  <1>2. CASE RemoveIn(p)
    <2> DEFINE x == Cmd(p).profile
    <2>1. /\ At(p, "remove") /\ ~At(p, "idle") /\ ~At(p, "save") /\ files' = files \ {x}
          /\ UNCHANGED <<disk, conf, key, tunnel, released, overlap, cut, last, named>>
      BY <1>2 DEF RemoveIn, At
    <2>2. Cmd(p).name = "remove" BY <2>1, Running DEF Inv, AtItsStep, At, Cmd
    <2>3. PICK st \in Unlisted(Mem(p), x) : SaveThen(p, st, "idle") BY <1>2 DEF RemoveIn
    <2>4. /\ st \in State /\ st.device = Mem(p).device /\ st.profiles = Mem(p).profiles \ {x}
          /\ \/ st.profile = Mem(p).profile /\ Mem(p).profile # x
             \/ st.profile = None
             \/ st.profile \in st.profiles
      BY <2>1, Running, UnlistedOK DEF Inv, StateOK
    <2>5. ASSUME ~overlap
          PROVE  /\ KeyOK(st)
                 /\ ~cut => /\ st.profile # None => st.profile \in st.profiles
                            /\ st.profiles \subseteq files'
      <3>1. KeyOK(Mem(p)) /\ (~cut => ProfilesOK(Mem(p))) BY <2>1, <2>5, OnlyOne DEF Going, Mem
      <3> QED BY <2>1, <2>4, <3>1 DEF KeyOK, ProfilesOK
    <2>6. ~overlap => NoTunnelOnReleased' BY <2>1, OnlyOne DEF NoTunnelOnReleased
    <2> QED BY <2>1, <2>2, <2>3, <2>4, <2>5, <2>6, WillSave
  <1> QED BY <1>1, <1>2

LEMMA InvInit == Init => Inv
  <1> SUFFICES ASSUME Init PROVE Inv OBVIOUS
  <1>1. Basic BY BasicInit
  <1>2. \A p \in Procs : proc[p].pc = "idle" BY IdleOK DEF Init
  <1>3. KeyOK(disk) /\ ProfilesOK(disk) BY InitialDisk DEF KeyOK, ProfilesOK
  <1>4. last = "none" /\ tunnel = None BY DEF Init
  <1>5. ReportsAreTrue /\ NoTunnelOnReleased BY <1>4 DEF ReportsAreTrue, NoTunnelOnReleased
  <1>6. Alone BY <1>2, <1>3, <1>4, <1>5 DEF Alone, At
  <1> QED BY <1>1, <1>6 DEF Inv

LEMMA InvNext == Inv /\ [Next]_vars => Inv'
  <1> SUFFICES ASSUME Inv, [Next]_vars PROVE Inv' OBVIOUS
  <1>1. Basic' BY BasicNext DEF Inv
  <1>2. Alone'
    <2>1. CASE UNCHANGED vars
      <3>1. \A q \in Procs : Going(proc[q]) => Going(proc[q])'
        BY <2>1 DEF vars, Going, KeyOK, ProfilesOK, Target, Seen
      <3>2. (KeyOK(disk) => KeyOK(disk)') /\ (ProfilesOK(disk) => ProfilesOK(disk)')
        BY <2>1 DEF vars, KeyOK, ProfilesOK
      <3>3. (Quiet => Quiet') /\ (Removing => Removing')
        BY <2>1 DEF vars, Quiet, Removing, At, Cmd
      <3>4. /\ ReportsAreTrue => ReportsAreTrue'
            /\ NoTunnelOnReleased => NoTunnelOnReleased'
        BY <2>1 DEF vars, ReportsAreTrue, NoTunnelOnReleased, Seen
      <3>5. UNCHANGED <<overlap, last, disk, cut, proc>> BY <2>1 DEF vars
      <3> QED BY <3>1, <3>2, <3>3, <3>4, <3>5 DEF Inv, Alone, At
    <2>2. CASE Next
      BY <2>2, AloneStart, AloneSave, AloneStop, AloneDevice, AloneConnect, AloneTunnel,
         AloneProfiles
      DEF Next
    <2> QED BY <2>1, <2>2
  <1> QED BY <1>1, <1>2 DEF Inv

LEMMA Invariance == Spec => []Inv
  BY InvInit, InvNext, PTL DEF Spec

-----------------------------------------------------------------------------
(* What follows.                                                           *)

\* The files, the interface and the commands keep their shape: a command always
\* works on a state that it has read or made (AgentState::load, save).
THEOREM TypeCorrect == Spec => []TypeOK
  <1>1. Inv => TypeOK BY DEF Inv, Basic
  <1> QED BY <1>1, Invariance, PTL

\* No token, device or session goes to another control plane than its own, for
\* any number of commands that overlap in any way (set_control_url).
THEOREM NothingLeavesHome == Spec => []CredentialsStayHome
  <1>1. Inv => CredentialsStayHome
    <2> SUFFICES ASSUME Inv
                 PROVE  /\ disk # Torn => AtHome(disk)
                        /\ \A p \in Procs : ~At(p, "idle") => AtHome(Mem(p))
      BY DEF CredentialsStayHome, AtHome
    <2>1. disk # Torn => AtHome(disk) BY DEF Inv, Basic, StateOK
    <2>2. \A p \in Procs : ~At(p, "idle") => AtHome(Mem(p))
      BY DEF Inv, Basic, ProcOK, StateOK, At, Mem
    <2> QED BY <2>1, <2>2
  <1> QED BY <1>1, Invariance, PTL

\* What the state names is on disk, after any sequence of commands that stopped
\* anywhere (ensure_device, import_in, remove_in).
THEOREM FilesAreThere == Spec => []StateHasItsFiles
  <1>1. Inv => StateHasItsFiles
    BY DEF Inv, Alone, StateHasItsFiles, Quiet, Removing, At, KeyOK, ProfilesOK
  <1> QED BY <1>1, Invariance, PTL

\* connect and disconnect report what is so, whatever earlier commands left
\* behind (connect_and_bring_up, profile::connect, disconnect).
THEOREM ReportsHold == Spec => []ReportsAreTrue
  <1>1. Inv => ReportsAreTrue BY DEF Inv, Alone, ReportsAreTrue
  <1> QED BY <1>1, Invariance, PTL

\* No interface is up on a session released after its tunnel was taken down
\* (disconnect_and_tear_down).
THEOREM ReleasedHasNoTunnel == Spec => []NoTunnelOnReleased
  <1>1. Inv => NoTunnelOnReleased BY DEF Inv, Alone, NoTunnelOnReleased
  <1> QED BY <1>1, Invariance, PTL

-----------------------------------------------------------------------------
(***************************************************************************)
(* SplitDns for any tables, names, queries, commands and failures. First   *)
(* the algorithm: the recursive walk of lookup() has a closed form, the    *)
(* wildcard at the last position that has one (WalkUpMeets), since the     *)
(* least position at which the two differ would not be one (Least); with   *)
(* it lookup() is the promise of hosts.rs (LookupOfAny).                   *)
(***************************************************************************)
\* A set of numbers that is not empty has a least element.
LEMMA Least ==
  ASSUME NEW T \in SUBSET Nat, T # {}
  PROVE  \E n \in T : \A m \in T : n <= m
<1> DEFINE R == OpToRel(<, Nat)
<1>1. IsWellFoundedOn(R, Nat)
  BY NatLessThanWellFounded
<1>2. \A x, y \in Nat : <<y, x>> \in R <=> y < x
  BY DEF OpToRel
<1> HIDE DEF R
<1>3. PICK n \in T : \A m \in T : ~(<<m, n>> \in R)
  BY <1>1, WFMin
<1>4. ASSUME NEW m \in T
      PROVE  n <= m
  <2>1. m \in Nat /\ n \in Nat
    OBVIOUS
  <2>2. ~(m < n)
    BY <1>2, <1>3, <2>1
  <2> QED
    BY <2>1, <2>2
<1> QED
  BY <1>3, <1>4

\* The positions up to n at which the walk finds something, with nothing after.
Met(T, name, n) ==
  {m \in 1 .. n : /\ Records(T, SubSeq(name, 1, m), TRUE) # {}
                  /\ \A k \in 1 .. n : k > m => Records(T, SubSeq(name, 1, k), TRUE) = {}}

\* The walk up the labels stops at the last position with a wildcard.
LEMMA WalkUpMeets ==
  ASSUME NEW T, NEW name \in Seq(Labels), name # << >>
  PROVE  WalkUp(T, name) =
           UNION {Records(T, SubSeq(name, 1, m), TRUE) : m \in Met(T, name, Len(name) - 1)}
<1> DEFINE Rec(n) == Records(T, SubSeq(name, 1, n), TRUE)
           Step(f, n) == IF n = 0 THEN {} ELSE IF Rec(n) # {} THEN Rec(n) ELSE f[n - 1]
           F(f) == [n \in Nat |-> Step(f, n)]
           M(n) == {m \in 1 .. n : Rec(m) # {} /\ \A k \in 1 .. n : k > m => Rec(k) = {}}
           G == [n \in Nat |-> UNION {Rec(m) : m \in M(n)}]
           W == CHOOSE f : f = F(f)
<1>1. WalkUp(T, name) = W[Len(name) - 1]
  BY DEF WalkUp
<1>2. ASSUME NEW n \in Nat
      PROVE  Met(T, name, n) = M(n)
  BY DEF Met
<1> HIDE DEF Rec
<1>3. ASSUME NEW n \in Nat
      PROVE  G[n] = Step(G, n)
  <2>1. CASE n = 0
    <3>1. M(n) = {}
      BY <2>1
    <3> QED
      BY <2>1, <3>1
  <2>2. CASE n # 0 /\ Rec(n) # {}
    <3>1. M(n) = {n}
      BY <2>2
    <3> QED
      BY <2>2, <3>1
  <2>3. CASE n # 0 /\ Rec(n) = {}
    <3>1. M(n) = M(n - 1)
      BY <2>3
    <3>2. n - 1 \in Nat
      BY <2>3
    <3> QED
      BY <2>3, <3>1, <3>2
  <2> QED
    BY <2>1, <2>2, <2>3
<1>4. G = F(G)
  <2> HIDE DEF M
  <2> QED
    BY <1>3
<1> HIDE DEF G, F, M
<1>5. W = F(W)
  BY <1>4
<1> HIDE DEF W
<1>6. \A n \in Nat : W[n] = Step(W, n)
  BY <1>5 DEF F
<1>7. \A n \in Nat : W[n] = G[n]
  <2> DEFINE Bad == {n \in Nat : W[n] # G[n]}
  <2>1. SUFFICES ASSUME Bad # {} PROVE FALSE
    OBVIOUS
  <2>2. PICK n \in Bad : \A m \in Bad : n <= m
    <3> HIDE DEF Bad
    <3>1. Bad \in SUBSET Nat
      BY DEF Bad
    <3> QED
      BY <2>1, <3>1, Least
  <2>3. n \in Nat /\ W[n] # G[n] /\ W[n] = Step(W, n) /\ G[n] = Step(G, n)
    BY <1>3, <1>6, <2>2
  <2>4. n # 0
    BY <2>3
  <2>5. n - 1 \in Nat /\ ~(n <= n - 1)
    BY <2>3, <2>4
  <2>6. W[n - 1] = G[n - 1]
    BY <2>2, <2>5
  <2> QED
    BY <2>3, <2>4, <2>6
<1>8. Len(name) - 1 \in Nat
  OBVIOUS
<1>9. WalkUp(T, name) = UNION {Rec(m) : m \in M(Len(name) - 1)}
  BY <1>1, <1>7, <1>8 DEF G
<1> QED
  BY <1>2, <1>8, <1>9 DEF Rec

\* The domains above a name are its proper prefixes.
LEMMA ProperPrefix ==
  ASSUME NEW d \in Seq(Labels), NEW name \in Seq(Labels)
  PROVE  /\ \A m \in 0 .. Len(name) : Len(SubSeq(name, 1, m)) = m
         /\ IsPrefix(d, name) /\ d # name <=> Len(d) < Len(name) /\ d = SubSeq(name, 1, Len(d))
<1>1. \A m \in 0 .. Len(name) : Len(SubSeq(name, 1, m)) = m
  OBVIOUS
<1>2. SubSeq(d, 1, Len(d)) = d /\ SubSeq(name, 1, Len(name)) = name
  OBVIOUS
<1>3. Len(d) \in Nat /\ Len(name) \in Nat
  OBVIOUS
<1>4. CASE Len(d) < Len(name)
  BY <1>2, <1>3, <1>4 DEF IsPrefix
<1>5. CASE Len(d) = Len(name)
  BY <1>2, <1>3, <1>5 DEF IsPrefix
<1>6. CASE Len(d) > Len(name)
  BY <1>2, <1>3, <1>6 DEF IsPrefix
<1> QED
  BY <1>1, <1>3, <1>4, <1>5, <1>6

\* lookup() finds what hosts.rs promises: the addresses of the most specific
\* entries.
LEMMA LookupOfAny ==
  ASSUME NEW T, NEW name \in Seq(Labels),
         \A e \in T : e.domain \in Seq(Labels) /\ e.wild \in BOOLEAN /\ Valid(e)
  PROVE  Lookup(T, name) = MostSpecific(T, name)
<1> DEFINE cover == Covering(T, name)
           best == {x \in cover : ~\E f \in cover : Beats(f, x)}
<1>1. MostSpecific(T, name) = {e.address : e \in best}
  BY DEF MostSpecific
<1>2. CASE Records(T, name, FALSE) # {}
  <2>1. PICK f \in T : f.domain = name /\ f.wild = FALSE
    BY <1>2 DEF Records
  <2>2. f \in cover
    BY <2>1 DEF Covering
  <2>3. \A e \in best : e \in T /\ e.domain = name /\ e.wild = FALSE
    <3> TAKE e \in best
    <3>1. e \in T /\ e.wild \in BOOLEAN /\ ~Beats(f, e)
      BY <2>2 DEF Covering
    <3>2. e.wild = FALSE
      BY <2>1, <3>1 DEF Beats
    <3> QED
      BY <3>1, <3>2 DEF Covering
  <2>4. \A e \in T : e.domain = name /\ e.wild = FALSE => e \in best
    BY DEF Covering, Beats
  <2>5. best = {x \in T : x.domain = name /\ x.wild = FALSE}
    BY <2>3, <2>4
  <2> QED
    BY <1>1, <1>2, <2>5 DEF Lookup, Records
<1>3. CASE Records(T, name, FALSE) = {}
  <2>1. \A e \in T : ~(e.domain = name /\ e.wild = FALSE)
    BY <1>3 DEF Records
  <2>2. Lookup(T, name) = WalkUp(T, name)
    BY <1>3 DEF Lookup
  <2>3. \A e \in cover : /\ e \in T /\ e.wild = TRUE
                         /\ Len(e.domain) < Len(name) /\ e.domain = SubSeq(name, 1, Len(e.domain))
                         /\ Len(e.domain) >= 2
    <3> TAKE e \in cover
    <3>1. e \in T /\ e.wild \in BOOLEAN /\ e.domain \in Seq(Labels) /\ Valid(e)
      BY DEF Covering
    <3>2. e.wild = TRUE
      BY <2>1, <3>1 DEF Covering
    <3>3. e.domain # name /\ IsPrefix(e.domain, name)
      BY <3>2 DEF Covering
    <3> QED
      BY <3>1, <3>2, <3>3, ProperPrefix DEF Valid
  <2>4. ASSUME NEW m \in 1 .. (Len(name) - 1), NEW e \in T, e.wild = TRUE, e.domain = SubSeq(name, 1, m)
        PROVE  e \in cover /\ Len(e.domain) = m
    <3>1. m \in 0 .. Len(name) /\ m < Len(name)
      OBVIOUS
    <3>2. e.domain \in Seq(Labels)
      OBVIOUS
    <3>3. Len(e.domain) = m
      BY <2>4, <3>1, <3>2, ProperPrefix
    <3>4. e.domain # name /\ IsPrefix(e.domain, name)
      BY <2>4, <3>1, <3>2, <3>3, ProperPrefix
    <3> QED
      BY <2>4, <3>3, <3>4 DEF Covering
  <2>5. CASE name = << >>
    <3>1. Len(name) = 0
      BY <2>5
    <3>2. cover = {}
      <4>1. \A e \in cover : FALSE
        <5> TAKE e \in cover
        <5>1. e.domain \in Seq(Labels)
          BY <2>3
        <5>2. Len(e.domain) \in Nat
          BY <5>1
        <5> QED
          BY <2>3, <3>1, <5>2
      <4> QED
        BY <4>1
    <3>3. MostSpecific(T, name) = {}
      BY <1>1, <3>2
    <3> QED
      BY <2>2, <2>5, <3>3 DEF WalkUp
  <2>6. CASE name # << >>
    <3> DEFINE n == Len(name) - 1
               Rec(m) == Records(T, SubSeq(name, 1, m), TRUE)
    <3>1. n \in Nat /\ n = Len(name) - 1
      BY <2>6
    <3> HIDE DEF n
    <3>2. \A m \in 1 .. n : Rec(m) = {e.address : e \in {x \in cover : Len(x.domain) = m}}
      <4> TAKE m \in 1 .. n
      <4>1. {x \in T : x.domain = SubSeq(name, 1, m) /\ x.wild = TRUE} = {x \in cover : Len(x.domain) = m}
        BY <2>3, <2>4, <3>1
      <4> QED
        BY <4>1 DEF Records
    <3>3. \A e \in cover : Len(e.domain) \in 1 .. n
      <4> TAKE e \in cover
      <4>1. e.domain \in Seq(Labels) /\ Len(e.domain) >= 2 /\ Len(e.domain) < Len(name)
        BY <2>3
      <4>2. Len(e.domain) \in Nat
        BY <4>1
      <4> QED
        BY <3>1, <4>1, <4>2
    <3>4. \A e \in cover : e \in best <=> Len(e.domain) \in Met(T, name, n)
      <4> TAKE e \in cover
      <4>1. PICK m \in 1 .. n : m = Len(e.domain)
        BY <3>3
      <4>2. Rec(m) # {}
        <5>1. e.address \in {x.address : x \in {y \in cover : Len(y.domain) = m}}
          BY <4>1
        <5> QED
          BY <3>2, <5>1
      <4>3. \A f \in cover : Beats(f, e) <=> Len(f.domain) > m
        BY <2>3, <4>1 DEF Beats
      <4>4. (\E f \in cover : Len(f.domain) > m) <=> (\E k \in 1 .. n : k > m /\ Rec(k) # {})
        <5>1. ASSUME NEW f \in cover, Len(f.domain) > m
              PROVE  \E k \in 1 .. n : k > m /\ Rec(k) # {}
          <6>1. PICK k \in 1 .. n : k = Len(f.domain)
            BY <3>3
          <6>2. f.address \in {x.address : x \in {y \in cover : Len(y.domain) = k}}
            BY <6>1
          <6> QED
            BY <3>2, <5>1, <6>1, <6>2
        <5>2. ASSUME NEW k \in 1 .. n, k > m, Rec(k) # {}
              PROVE  \E f \in cover : Len(f.domain) > m
          <6>1. PICK f \in cover : Len(f.domain) = k
            BY <3>2, <5>2
          <6> QED
            BY <5>2, <6>1
        <5> QED
          BY <5>1, <5>2
      <4> QED
        BY <4>1, <4>2, <4>3, <4>4 DEF Met
    <3>5. {e.address : e \in best} = UNION {Rec(m) : m \in Met(T, name, n)}
      <4>1. Met(T, name, n) \subseteq 1 .. n
        BY DEF Met
      <4>2. \A a : a \in {e.address : e \in best} <=>
                     \E m \in Met(T, name, n) : a \in Rec(m)
        <5>1. ASSUME NEW e \in best
              PROVE  \E m \in Met(T, name, n) : e.address \in Rec(m)
          <6>1. PICK m \in 1 .. n : m = Len(e.domain)
            BY <3>3
          <6> QED
            BY <3>2, <3>4, <6>1
        <5>2. ASSUME NEW m \in Met(T, name, n), NEW a \in Rec(m)
              PROVE  \E e \in best : a = e.address
          <6>1. PICK e \in cover : Len(e.domain) = m /\ a = e.address
            BY <3>2, <4>1
          <6> QED
            BY <3>4, <6>1
        <5> QED
          BY <5>1, <5>2
      <4> HIDE DEF Rec, best
      <4> QED
        BY <4>2
    <3>6. WalkUp(T, name) = UNION {Rec(m) : m \in Met(T, name, n)}
      BY <2>6, WalkUpMeets DEF n
    <3> QED
      BY <1>1, <2>2, <3>5, <3>6
  <2> QED
    BY <2>5, <2>6
<1> QED
  BY <1>2, <1>3

LEMMA LookupIsMostSpecific ==
  ASSUME NEW T \in Tables, NEW name \in Seq(Labels)
  PROVE  Lookup(T, name) = MostSpecific(T, name)
<1>1. \A e \in T : e.domain \in Seq(Labels) /\ e.wild \in BOOLEAN /\ Valid(e)
  BY SplitDnsAssumption DEF Tables
<1> QED
  BY <1>1, LookupOfAny

LEMMA AnswerIsTyped ==
  ASSUME NEW T \in Tables, NEW name, NEW qtype
  PROVE  Answer(MostSpecific(T, name), qtype) \subseteq Addresses
<1>1. MostSpecific(T, name) \subseteq Addresses
  BY DEF MostSpecific, Covering, Tables, Addresses
<1> QED
  BY <1>1 DEF Answer

-----------------------------------------------------------------------------
(***************************************************************************)
(* The resolver serves one version of the file (TableOK), a query knows    *)
(* which one and how late it may be (QueryOK), and both keep when versions *)
(* are only added (Extended).                                              *)
(***************************************************************************)
Texts == {Typo} \cup Tables

VersionsOK == versions \in Seq(Texts) /\ Now \in 1 .. MaxVersions

\* The file is as it was, or a version has come after the ones there were.
Extended == Now <= Now' /\ \A v \in 1 .. Now : versions'[v] = versions[v]

\* The resolver serves a version of the file. A table held under a time is of
\* that time or later, but for a text that did not parse and for the edit that
\* bind() missed.
TableOK ==
  /\ table \in [entries : Tables, of : Nat] /\ table.of <= Now
  /\ modified \in Nat /\ modified <= Now
  /\ missed \in BOOLEAN /\ server \in {"off", "loaded", "up"}
  /\ server # "off" => table.of >= 1 /\ table.entries = versions[table.of]
  /\ server = "up" =>
       \/ table.of >= modified
       \/ \E v \in modified .. Now : versions[v] = Typo
       \/ missed

\* What the reply of a query that was looked up is.
FollowsTable(c) ==
  LET found == MostSpecific(versions[c.used], c.q.name)
  IN  IF found = {}
      THEN c.pc = "forward"
      ELSE c.reply = [from |-> "override", addresses |-> Answer(found, c.q.qtype)]

\* How far a query has come.
QueryOK(c) ==
  /\ c \in QueryType /\ c.at <= Now /\ c.now <= Now /\ c.used <= Now
  /\ c.pc \in {"stat", "refresh", "lookup"} => c.q \in Questions
  /\ c.pc = "refresh" => c.now >= c.at
  /\ c.pc = "lookup" =>
       \/ table.of >= c.at
       \/ \E v \in c.at .. Now : versions[v] = Typo
       \/ missed
  /\ c.q # Nothing /\ c.pc \in {"forward", "done"} => c.used >= 1 /\ FollowsTable(c)

ServerInv ==
  /\ TableOK
  /\ handler = [h \in Handlers |-> handler[h]]
  /\ \A h \in Handlers : QueryOK(handler[h])
  /\ server # "up" => \A h \in Handlers : handler[h].pc = "idle"

LEMMA QueryKept ==
  ASSUME VersionsOK, VersionsOK', Extended, TableOK, TableOK',
         \/ table' = table /\ missed' = missed
         \/ table'.of = Now',
         NEW c, QueryOK(c)
  PROVE  QueryOK(c)'
<1>1. Now \in Nat /\ Now' \in Nat /\ Now <= Now'
  BY DEF VersionsOK, Extended
<1>2. c \in QueryType /\ c.at \in Nat /\ c.now \in Nat /\ c.used \in Nat
  BY DEF QueryOK, QueryType
<1>3. c.at <= Now' /\ c.now <= Now' /\ c.used <= Now'
  BY <1>1, <1>2 DEF QueryOK
<1>4. ASSUME c.pc = "lookup"
      PROVE  \/ table'.of >= c.at
             \/ \E v \in c.at .. Now' : versions'[v] = Typo
             \/ missed'
  <2>1. CASE table'.of = Now'
    BY <1>1, <1>2, <1>3, <2>1
  <2>2. CASE table' = table /\ missed' = missed
    <3>1. ASSUME NEW v \in c.at .. Now, versions[v] = Typo
          PROVE  v \in c.at .. Now' /\ (v # 0 => versions'[v] = Typo)
      BY <1>1, <1>2, <3>1 DEF Extended
    <3>2. CASE c.at = 0
      BY <2>2, <3>2 DEF TableOK
    <3>3. CASE c.at # 0
      BY <1>2, <1>4, <2>2, <3>1, <3>3 DEF QueryOK
    <3> QED
      BY <3>2, <3>3
  <2> QED
    BY <2>1, <2>2
<1>5. ASSUME c.q # Nothing, c.pc \in {"forward", "done"}
      PROVE  c.used >= 1 /\ FollowsTable(c)'
  <2>1. c.used >= 1 /\ FollowsTable(c)
    BY <1>5 DEF QueryOK
  <2>2. versions'[c.used] = versions[c.used]
    BY <1>1, <1>2, <2>1 DEF Extended, QueryOK
  <2> QED
    BY <2>1, <2>2 DEF FollowsTable
<1> QED
  BY <1>2, <1>3, <1>4, <1>5 DEF QueryOK

LEMMA TableKept ==
  ASSUME VersionsOK, VersionsOK', Extended, TableOK, UNCHANGED <<server, table, modified, missed>>
  PROVE  TableOK'
<1>1. Now \in Nat /\ Now' \in Nat /\ Now <= Now'
  BY DEF VersionsOK, Extended
<1>2. table.of \in Nat /\ table.of <= Now /\ modified \in Nat /\ modified <= Now
  BY DEF TableOK
<1>3. server # "off" => versions'[table.of] = versions[table.of]
  BY <1>1, <1>2 DEF TableOK, Extended
<1>4. CASE modified = 0
  BY <1>1, <1>2, <1>3, <1>4 DEF TableOK
<1>5. CASE modified # 0
  <2>1. ASSUME NEW v \in modified .. Now, versions[v] = Typo
        PROVE  v \in modified .. Now' /\ versions'[v] = Typo
    BY <1>1, <1>2, <1>5, <2>1 DEF Extended
  <2> QED
    BY <1>1, <1>2, <1>3, <2>1 DEF TableOK
<1> QED
  BY <1>4, <1>5

LEMMA ServerKept ==
  ASSUME VersionsOK, VersionsOK', Extended, ServerInv, UNCHANGED served
  PROVE  ServerInv'
<1>1. UNCHANGED <<server, table, modified, missed, handler>>
  BY DEF served
<1>2. TableOK /\ TableOK'
  BY <1>1, TableKept DEF ServerInv
<1>3. ASSUME NEW h \in Handlers
      PROVE  QueryOK(handler[h])'
  <2>1. PICK c : c = handler[h]
    OBVIOUS
  <2>2. QueryOK(c)'
    BY <1>1, <1>2, <2>1, QueryKept DEF ServerInv
  <2> QED
    BY <1>1, <2>1, <2>2
<1> QED
  BY <1>1, <1>2, <1>3 DEF ServerInv

LEMMA NoQueryOK ==
  ASSUME VersionsOK
  PROVE  QueryOK(NoQuery)
<1>1. NoQuery \in QueryType
  BY DEF NoQuery, QueryType
<1>2. Now \in Nat
  BY DEF VersionsOK
<1> QED
  BY <1>1, <1>2 DEF QueryOK, NoQuery

LEMMA GoneOK ==
  ASSUME VersionsOK, VersionsOK', Extended, ServerInv, Gone
  PROVE  ServerInv'
<1>1. Now \in Nat /\ Now' \in Nat /\ Now <= Now'
  BY DEF VersionsOK, Extended
<1>2. TableOK'
  <2>1. server' = "off" /\ missed' = FALSE /\ UNCHANGED <<table, modified>>
    BY DEF Gone
  <2>2. /\ table \in [entries : Tables, of : Nat] /\ table.of <= Now
        /\ modified \in Nat /\ modified <= Now
    BY DEF ServerInv, TableOK
  <2>3. table.of <= Now' /\ modified <= Now'
    BY <1>1, <2>2
  <2> QED
    BY <2>1, <2>2, <2>3 DEF TableOK
<1>3. \A h \in Handlers : handler'[h] = NoQuery
  BY DEF Gone
<1>4. QueryOK(NoQuery)'
  BY <1>1, NoQueryOK DEF QueryOK, NoQuery, QueryType
<1>5. \A h \in Handlers : QueryOK(handler[h])'
  BY <1>3, <1>4 DEF QueryOK
<1>6. handler' = [h \in Handlers |-> handler'[h]]
  BY DEF Gone
<1> QED
  BY <1>2, <1>3, <1>5, <1>6 DEF ServerInv, NoQuery

LEMMA SameVersions ==
  ASSUME VersionsOK, versions' = versions
  PROVE  VersionsOK' /\ Extended /\ Now' = Now
<1>1. Now' = Now
  BY DEF Now
<1>2. Now \in Nat
  BY DEF VersionsOK
<1> QED
  BY <1>1, <1>2 DEF VersionsOK, Extended

\* bind() reads the table, then the modification time.
LEMMA BindOK ==
  ASSUME VersionsOK, ServerInv, BindLoad \/ BindStat
  PROVE  ServerInv'
<1>1. versions' = versions /\ handler' = handler
  BY DEF BindLoad, BindStat
<1>2. VersionsOK' /\ Extended /\ Now' = Now
  BY <1>1, SameVersions
<1>3. Now \in Nat /\ Now >= 1 /\ File \in Texts
  BY DEF VersionsOK, File, Now
<1>4. TableOK'
  <2>1. CASE BindLoad
    <3>1. table' = [entries |-> File, of |-> Now] /\ File \in Tables
      BY <1>3, <2>1 DEF BindLoad, Parses, Texts
    <3>2. table' \in [entries : Tables, of : Nat] /\ table'.of = Now /\ table'.entries = versions[Now]
      BY <1>3, <3>1 DEF File
    <3>3. server' = "loaded" /\ UNCHANGED <<modified, missed>>
      BY <2>1 DEF BindLoad
    <3> QED
      BY <1>1, <1>2, <1>3, <3>2, <3>3 DEF ServerInv, TableOK
  <2>2. CASE BindStat
    <3>1. server' = "up" /\ modified' = Now /\ missed' = (table.of # Now) /\ table' = table /\ server = "loaded"
      BY <2>2 DEF BindStat
    <3>2. table \in [entries : Tables, of : Nat] /\ table.of <= Now
      BY DEF ServerInv, TableOK
    <3>3. table'.of >= modified' \/ missed'
      BY <1>3, <3>1, <3>2
    <3>4. missed' \in BOOLEAN
      BY <3>1
    <3>5. table.of >= 1 /\ table.entries = versions[table.of]
      BY <3>1 DEF ServerInv, TableOK
    <3> QED
      BY <1>1, <1>2, <1>3, <3>1, <3>2, <3>3, <3>4, <3>5 DEF TableOK
  <2> QED
    BY <2>1, <2>2
<1>5. \A h \in Handlers : handler[h].pc = "idle" /\ QueryOK(handler[h])
  BY DEF ServerInv, BindLoad, BindStat
<1>6. ASSUME NEW h \in Handlers
      PROVE  QueryOK(handler[h])'
  BY <1>1, <1>2, <1>5 DEF QueryOK
<1> QED
  BY <1>1, <1>4, <1>5, <1>6 DEF ServerInv

\* One query moves on.
LEMMA QueryMoves ==
  ASSUME VersionsOK, versions' = versions, ServerInv, server = "up", server' = "up", TableOK',
         \/ table' = table /\ missed' = missed
         \/ table'.of = Now',
         NEW h \in Handlers, NEW x, QueryOK(x)', handler' = [handler EXCEPT ![h] = x]
  PROVE  ServerInv'
<1>1. VersionsOK' /\ Extended
  BY SameVersions
<1>2. handler = [g \in Handlers |-> handler[g]]
  BY DEF ServerInv
<1>3. /\ handler' = [g \in Handlers |-> handler'[g]]
      /\ \A g \in Handlers : handler'[g] = IF g = h THEN x ELSE handler[g]
  BY <1>2
<1>4. ASSUME NEW g \in Handlers
      PROVE  QueryOK(handler[g])'
  <2>1. PICK c : c = handler'[g]
    OBVIOUS
  <2>2. CASE g = h
    BY <1>3, <2>2 DEF QueryOK
  <2>3. CASE g # h
    <3>1. c = handler[g] /\ QueryOK(c)
      BY <1>3, <2>1, <2>3 DEF ServerInv
    <3>2. QueryOK(c)'
      BY <1>1, <3>1, QueryKept DEF ServerInv
    <3> QED
      BY <2>1, <3>2
  <2> QED
    BY <2>2, <2>3
<1> QED
  BY <1>3, <1>4 DEF ServerInv

LEMMA LookUpOK ==
  ASSUME VersionsOK, ServerInv, NEW h \in Handlers, LookUp(h)
  PROVE  ServerInv'
<1>1. /\ server = "up" /\ handler[h].pc = "lookup"
      /\ UNCHANGED <<versions, server, table, modified, missed>>
  BY DEF LookUp, Handling
<1>2. VersionsOK' /\ Now' = Now /\ Extended
  BY <1>1, SameVersions
<1>3. TableOK'
  BY <1>1, <1>2 DEF ServerInv, TableOK
<1>4. PICK c : c = handler[h] /\ QueryOK(c) /\ c.pc = "lookup"
  BY <1>1 DEF ServerInv
<1>5. c \in QueryType /\ c.q \in Questions /\ c.q # Nothing /\ c.q.name \in Seq(Labels)
  BY <1>4, SplitDnsAssumption DEF QueryOK
<1>6. PICK T \in Tables : T = table.entries
  BY DEF ServerInv, TableOK
<1>7. PICK n \in Nat : n = table.of /\ n >= 1 /\ n <= Now /\ T = versions[n]
  BY <1>1, <1>6 DEF ServerInv, TableOK
<1>8. PICK found : found = MostSpecific(T, c.q.name)
  OBVIOUS
<1>9. Lookup(table.entries, handler[h].q.name) = found
  BY <1>4, <1>5, <1>6, <1>8, LookupIsMostSpecific
<1>10. PICK addresses : addresses = Answer(found, c.q.qtype) /\ addresses \subseteq Addresses
  BY <1>8, AnswerIsTyped
<1> DEFINE pc == IF found = {} THEN "forward" ELSE "done"
           reply == IF found = {} THEN Nothing
                    ELSE [from |-> "override", addresses |-> addresses]
           x == [c EXCEPT !.at = 0, !.now = 0, !.used = n, !.pc = pc, !.reply = reply]
<1>11. handler' = [handler EXCEPT ![h] = x]
  <2>1. handler = [g \in Handlers |-> handler[g]]
    BY DEF ServerInv
  <2>2. handler' = [handler EXCEPT
           ![h].at = 0, ![h].now = 0, ![h].used = n, ![h].pc = pc, ![h].reply = reply]
    BY <1>4, <1>7, <1>9, <1>10 DEF LookUp
  <2> QED
    BY <1>4, <2>1, <2>2
<1>12. reply \in {Nothing} \cup [from : {"override"}, addresses : SUBSET Addresses]
  BY <1>10
<1>13. x \in QueryType
  BY <1>5, <1>12 DEF QueryType
<1>14. /\ x.at = 0 /\ x.now = 0 /\ x.used = n /\ x.pc = pc /\ x.reply = reply /\ x.q = c.q
  BY <1>5 DEF QueryType
<1>15. Now \in Nat
  BY DEF VersionsOK
<1>16. FollowsTable(x)'
  BY <1>1, <1>7, <1>8, <1>10, <1>14 DEF FollowsTable
<1>17. QueryOK(x)'
  BY <1>2, <1>7, <1>13, <1>14, <1>15, <1>16 DEF QueryOK
<1> HIDE DEF x
<1> QED
  BY <1>1, <1>3, <1>11, <1>17, QueryMoves

LEMMA ServeOK ==
  ASSUME VersionsOK, ServerInv, NEW h \in Handlers, Serve(h)
  PROVE  ServerInv'
<1>1. versions' = versions /\ server = "up" /\ server' = "up"
  BY DEF Serve, ReceiveOther, Receive, Stat, Refresh, LookUp, Forward, Handling
<1>2. VersionsOK' /\ Now' = Now /\ Extended
  BY <1>1, SameVersions
<1>3. PICK n \in Nat : n = Now /\ n >= 1
  BY DEF VersionsOK
<1>4. PICK c : c = handler[h] /\ QueryOK(c)
  BY DEF ServerInv
<1>5. c \in QueryType /\ handler = [g \in Handlers |-> handler[g]]
  BY <1>4 DEF QueryOK, ServerInv
<1>6. ASSUME UNCHANGED <<table, modified, missed>>
      PROVE  TableOK'
  BY <1>1, <1>2, <1>6 DEF ServerInv, TableOK
<1>0. NoQuery \in QueryType
  BY DEF NoQuery, QueryType
<1>7. CASE \/ \E kind \in {"short", "opcode", "response", "questions", "name"} : ReceiveOther(h, kind)
           \/ Forward(h)
  <2>1. UNCHANGED <<table, modified, missed>>
    BY <1>7 DEF ReceiveOther, Forward
  <2>2. PICK from \in {"none", "notimp", "formerr", "upstream", "servfail"} :
          handler' = [handler EXCEPT ![h] =
                        [NoQuery EXCEPT !.pc = "done", !.reply = [from |-> from]]]
    BY <1>7 DEF ReceiveOther, Forward, ParseError
  <2> DEFINE x == [NoQuery EXCEPT !.pc = "done", !.reply = [from |-> from]]
  <2>3. x \in QueryType /\ x.pc = "done" /\ x.q = NoQuery.q
           /\ x.at = NoQuery.at /\ x.now = NoQuery.now /\ x.used = NoQuery.used
    BY <1>0 DEF QueryType
  <2>4. NoQuery.q = Nothing /\ NoQuery.at = 0 /\ NoQuery.now = 0 /\ NoQuery.used = 0
    BY DEF NoQuery
  <2>5. QueryOK(x)'
    BY <1>2, <1>3, <2>3, <2>4 DEF QueryOK
  <2> HIDE DEF x
  <2> QED
    BY <1>1, <1>6, <2>1, <2>2, <2>5, QueryMoves DEF x
<1>8. ASSUME NEW q \in Questions, Receive(h, q)
      PROVE  ServerInv'
  <2> DEFINE x == [NoQuery EXCEPT !.pc = "stat", !.q = q, !.at = n]
  <2>1. UNCHANGED <<table, modified, missed>> /\ handler' = [handler EXCEPT ![h] = x]
    BY <1>3, <1>8 DEF Receive
  <2>2. NoQuery.now = 0 /\ NoQuery.used = 0
    BY DEF NoQuery
  <2>3. x \in QueryType /\ x.pc = "stat" /\ x.q = q
           /\ x.at = n /\ x.now = NoQuery.now /\ x.used = NoQuery.used
    BY <1>0 DEF QueryType
  <2>4. QueryOK(x)'
    BY <1>2, <1>3, <2>2, <2>3 DEF QueryOK
  <2> HIDE DEF x
  <2> QED
    BY <1>1, <1>6, <2>1, <2>4, QueryMoves
<1>9. CASE Stat(h)
  <2> DEFINE x == [c EXCEPT !.pc = "refresh", !.now = n]
  <2>1. /\ UNCHANGED <<table, modified, missed>> /\ c.pc = "stat"
        /\ handler' = [handler EXCEPT ![h].pc = "refresh", ![h].now = n]
    BY <1>3, <1>4, <1>9 DEF Stat, Handling
  <2>2. handler' = [handler EXCEPT ![h] = x]
    BY <1>4, <1>5, <2>1
  <2>3. x \in QueryType /\ x.pc = "refresh" /\ x.now = n /\ x.at = c.at /\ x.used = c.used /\ x.q = c.q
    BY <1>5 DEF QueryType
  <2>4. c.at \in Nat /\ c.at <= n /\ c.used <= n /\ c.q \in Questions
    BY <1>3, <1>4, <1>5, <2>1 DEF QueryOK, QueryType
  <2>5. QueryOK(x)'
    BY <1>2, <1>3, <2>3, <2>4 DEF QueryOK
  <2> HIDE DEF x
  <2> QED
    BY <1>1, <1>6, <2>1, <2>2, <2>5, QueryMoves
<1>10. CASE Refresh(h)
  <2> DEFINE x == [c EXCEPT !.pc = "lookup"]
  <2>1. c.pc = "refresh" /\ handler' = [handler EXCEPT ![h].pc = "lookup"]
    BY <1>4, <1>10 DEF Refresh, Handling
  <2>2. handler' = [handler EXCEPT ![h] = x]
    BY <1>4, <1>5, <2>1
  <2>3. x \in QueryType /\ x.pc = "lookup" /\ x.now = c.now /\ x.at = c.at /\ x.used = c.used /\ x.q = c.q
    BY <1>5 DEF QueryType
  <2>4. /\ c.at \in Nat /\ c.now \in Nat /\ c.used \in Nat /\ c.q \in Questions
        /\ c.at <= n /\ c.now <= n /\ c.used <= n /\ c.now >= c.at
    BY <1>3, <1>4, <1>5, <2>1 DEF QueryOK, QueryType
  <2> HIDE DEF x
  <2>5. CASE modified = c.now
    <3>1. UNCHANGED <<table, modified, missed>>
      BY <1>4, <1>10, <2>5 DEF Refresh
    <3>2. table \in [entries : Tables, of : Nat]
      BY DEF ServerInv, TableOK
    <3>3. \/ table.of >= c.now
          \/ \E v \in c.now .. Now : versions[v] = Typo
          \/ missed
      BY <1>1, <2>5 DEF ServerInv, TableOK
    <3>4. \/ table.of >= c.at
          \/ \E v \in c.at .. Now : versions[v] = Typo
          \/ missed
      BY <1>3, <2>4, <3>2, <3>3
    <3>5. QueryOK(x)'
      BY <1>1, <1>2, <1>3, <2>3, <2>4, <3>1, <3>4 DEF QueryOK
    <3> QED
      BY <1>1, <1>6, <2>2, <3>1, <3>5, QueryMoves
  <2>6. CASE modified # c.now /\ Parses
    <3>1. modified' = c.now /\ table' = [entries |-> File, of |-> n] /\ missed' = FALSE
      BY <1>3, <1>4, <1>10, <2>6 DEF Refresh
    <3>2. File \in Tables /\ File = versions[n]
      BY <1>3, <2>6 DEF VersionsOK, Parses, File, Now, Texts
    <3>3. table' \in [entries : Tables, of : Nat] /\ table'.of = n /\ table'.entries = versions[n]
      BY <3>1, <3>2
    <3>4. TableOK'
      <4>1. table'.of <= n /\ table'.of >= 1 /\ table'.of >= modified' /\ modified' <= n
        BY <1>3, <2>4, <3>1, <3>3
      <4>2. missed' \in BOOLEAN /\ modified' \in Nat
        BY <2>4, <3>1
      <4> QED
        BY <1>1, <1>2, <1>3, <3>3, <4>1, <4>2 DEF TableOK
    <3>5. QueryOK(x)'
      BY <1>2, <1>3, <2>3, <2>4, <3>3 DEF QueryOK
    <3> QED
      BY <1>1, <1>2, <1>3, <2>2, <3>3, <3>4, <3>5, QueryMoves
  <2>7. CASE modified # c.now /\ ~Parses
    <3>1. modified' = c.now /\ UNCHANGED <<table, missed>>
      BY <1>4, <1>10, <2>7 DEF Refresh
    <3>2. versions[n] = Typo
      BY <1>3, <2>7 DEF Parses, File
    <3>3. n \in c.now .. n /\ n \in c.at .. n
      BY <1>3, <2>4
    <3>4. TableOK'
      BY <1>1, <1>2, <1>3, <2>4, <3>1, <3>2, <3>3 DEF ServerInv, TableOK
    <3>5. QueryOK(x)'
      BY <1>1, <1>2, <1>3, <2>3, <2>4, <3>2, <3>3 DEF QueryOK
    <3> QED
      BY <1>1, <2>2, <3>1, <3>4, <3>5, QueryMoves
  <2> QED
    BY <2>5, <2>6, <2>7
<1> QED
  BY <1>7, <1>8, <1>9, <1>10, LookUpOK DEF Serve

-----------------------------------------------------------------------------
\* How far a command has come, and the version whose domains it wants routed.
CommandOK(c) ==
  /\ c \in CommandType /\ c.at <= Now
  /\ c.pc = "save" => c.op \in [name : {"set", "remove"}, entry : Edits]
  /\ c.pc \notin {"idle", "save"} => c.op \in [name : {"apply", "disable", "reconcile"}]
  /\ c.pc \in {"reconcile", "start", "bootout", "bootstrap", "probe", "compare"} =>
       c.op.name # "disable"
  /\ c.pc \in {"unroute", "stop", "unlink"} => c.op.name = "disable"
  /\ c.pc \notin {"idle", "save"} /\ c.op.name = "disable" => c.at = 0 /\ c.wanted = {}
  /\ c.pc \in {"idle", "save", "reconcile"} => c.at = 0
  /\ c.at # 0 => versions[c.at] \in Tables /\ c.wanted = RoutedDomains(versions[c.at])

CommandInv ==
  /\ command = [p \in Commands |-> command[p]]
  /\ \A p \in Commands : CommandOK(command[p])

LEMMA CommandKept ==
  ASSUME VersionsOK, VersionsOK', Extended, NEW c, CommandOK(c)
  PROVE  CommandOK(c)'
<1>1. Now \in Nat /\ Now' \in Nat /\ Now <= Now'
  BY DEF VersionsOK, Extended
<1>2. c.at \in Nat /\ c.at <= Now
  BY DEF CommandOK, CommandType
<1>3. c.at <= Now' /\ (c.at # 0 => versions'[c.at] = versions[c.at])
  BY <1>1, <1>2 DEF Extended
<1> QED
  BY <1>3 DEF CommandOK

LEMMA CommandsKept ==
  ASSUME VersionsOK, VersionsOK', Extended, CommandInv, command' = command
  PROVE  CommandInv'
<1>1. ASSUME NEW p \in Commands
      PROVE  CommandOK(command[p])'
  <2>1. PICK c : c = command[p]
    OBVIOUS
  <2>2. CommandOK(c)'
    BY <2>1, CommandKept DEF CommandInv
  <2> QED
    BY <2>1, <2>2
<1> QED
  BY <1>1 DEF CommandInv

\* One command moves on.
LEMMA CommandMoves ==
  ASSUME VersionsOK, VersionsOK', Extended, CommandInv, NEW p \in Commands, NEW x,
         CommandOK(x)', command' = [command EXCEPT ![p] = x]
  PROVE  CommandInv'
<1>1. command = [q \in Commands |-> command[q]]
  BY DEF CommandInv
<1>2. /\ command' = [q \in Commands |-> command'[q]]
      /\ \A q \in Commands : command'[q] = IF q = p THEN x ELSE command[q]
  BY <1>1
<1>3. ASSUME NEW q \in Commands
      PROVE  CommandOK(command[q])'
  <2>1. PICK c : c = command'[q]
    OBVIOUS
  <2>2. CASE q = p
    BY <1>2, <2>2 DEF CommandOK
  <2>3. CASE q # p
    <3>1. c = command[q] /\ CommandOK(c)
      BY <1>2, <2>1, <2>3 DEF CommandInv
    <3>2. CommandOK(c)'
      BY <3>1, CommandKept
    <3> QED
      BY <2>1, <3>2
  <2> QED
    BY <2>2, <2>3
<1> QED
  BY <1>2, <1>3 DEF CommandInv

LEMMA RestingOK ==
  ASSUME VersionsOK
  PROVE  CommandOK(Resting)
<1>1. Resting \in CommandType
  BY DEF Resting, CommandType, Tables
<1>2. Now \in Nat
  BY DEF VersionsOK
<1> QED
  BY <1>1, <1>2 DEF CommandOK, Resting

PC == {"idle", "save", "reconcile", "start", "bootout", "bootstrap", "probe", "compare",
       "sync", "unroute", "stop", "unlink", "ok"}

\* A step that changes only where a command is.
LEMMA ThenOK ==
  ASSUME VersionsOK, versions' = versions, CommandInv, NEW p \in Commands,
         NEW pc \in PC \ {"idle", "save", "reconcile"}, Then(p, pc),
         command[p].pc \notin {"idle", "save"},
         pc \in {"start", "bootout", "bootstrap", "probe", "compare"} =>
           command[p].op.name # "disable",
         pc \in {"unroute", "stop", "unlink"} => command[p].op.name = "disable"
  PROVE  CommandInv'
<1>1. PICK c : c = command[p] /\ CommandOK(c)
  BY DEF CommandInv
<1>2. c \in CommandType
  BY <1>1 DEF CommandOK
<1> DEFINE x == [c EXCEPT !.pc = pc]
<1>3. /\ x \in CommandType /\ x.pc = pc /\ x.op = c.op /\ x.table = c.table
      /\ x.at = c.at /\ x.wanted = c.wanted
  BY <1>2 DEF CommandType, PC
<1>4. command' = [command EXCEPT ![p] = x]
  BY <1>1 DEF Then, CommandInv
<1> HIDE DEF x
<1>5. VersionsOK' /\ Extended /\ Now' = Now
  BY SameVersions
<1>6. CommandOK(x)'
  BY <1>1, <1>3, <1>5 DEF CommandOK
<1> QED
  BY <1>4, <1>5, <1>6, CommandMoves

LEMMA RoutedIsTyped ==
  ASSUME NEW T \in Tables
  PROVE  RoutedDomains(T) \subseteq Domains
BY DEF Tables, Domains, RoutedDomains

\* One command starts, and what an earlier one came to is out of date.
LEMMA CommandStarts ==
  ASSUME VersionsOK, VersionsOK', Extended, CommandInv, NEW p \in Commands, NEW x,
         CommandOK(x)', command' = [Outdated EXCEPT ![p] = x]
  PROVE  CommandInv'
<1>1. /\ command' = [q \in Commands |-> command'[q]]
      /\ \A q \in Commands :
           command'[q] = IF q = p THEN x ELSE IF Doing(q, "ok") THEN Resting ELSE command[q]
  BY DEF Outdated
<1>2. ASSUME NEW q \in Commands
      PROVE  CommandOK(command[q])'
  <2>1. PICK c : c = command'[q]
    OBVIOUS
  <2>2. CASE q = p
    BY <1>1, <2>2 DEF CommandOK
  <2>3. CASE q # p
    <3>1. CommandOK(c)
      BY <1>1, <2>1, <2>3, RestingOK DEF CommandInv
    <3>2. CommandOK(c)'
      BY <3>1, CommandKept
    <3> QED
      BY <2>1, <3>2
  <2> QED
    BY <2>2, <2>3
<1> QED
  BY <1>1, <1>2 DEF CommandInv

LEMMA StartOK ==
  ASSUME VersionsOK, CommandInv, NEW p \in Commands, NEW op \in Op, Start(p, op)
  PROVE  CommandInv'
<1>1. versions' = versions
  BY DEF Start
<1>2. VersionsOK' /\ Extended /\ Now' = Now
  BY <1>1, SameVersions
<1>3. PICK n \in Nat : n = Now /\ n >= 1
  BY DEF VersionsOK
<1>4. Resting \in CommandType
  BY <1>2, RestingOK DEF CommandOK
<1>5. /\ Resting.op = Nothing /\ Resting.table = {} /\ Resting.at = 0 /\ Resting.wanted = {}
  BY DEF Resting
<1>6. CASE op.name = "disable"
  <2> DEFINE x == [Resting EXCEPT !.op = op, !.pc = "unroute"]
  <2>1. command' = [Outdated EXCEPT ![p] = x]
    BY <1>6 DEF Start
  <2>2. /\ x \in CommandType /\ x.pc = "unroute" /\ x.op = op
        /\ x.at = 0 /\ x.wanted = {}
    BY <1>4, <1>5 DEF CommandType
  <2>3. op \in [name : {"apply", "disable", "reconcile"}]
    BY <1>6 DEF Op
  <2> HIDE DEF x
  <2>4. CommandOK(x)'
    BY <1>2, <1>3, <1>6, <2>2, <2>3 DEF CommandOK
  <2> QED
    BY <1>2, <2>1, <2>4, CommandStarts
<1>7. ASSUME op.name # "disable"
      PROVE  File \in Tables /\ File = versions[n]
  BY <1>3, <1>7 DEF Start, VersionsOK, Parses, File, Now, Texts
<1>8. CASE op.name = "apply"
  <2>1. PICK D \in SUBSET Domains : D = RoutedDomains(versions[n])
    <3>1. PICK T \in Tables : T = versions[n]
      BY <1>7, <1>8
    <3> QED
      BY <3>1, RoutedIsTyped
  <2> DEFINE x == [Resting EXCEPT !.op = op, !.pc = "start", !.at = n, !.wanted = D]
  <2>2. command' = [Outdated EXCEPT ![p] = x]
    BY <1>3, <1>7, <1>8, <2>1 DEF Start
  <2>3. /\ x \in CommandType /\ x.pc = "start" /\ x.op = op
        /\ x.at = n /\ x.wanted = D
    BY <1>4 DEF CommandType
  <2>4. op \in [name : {"apply", "disable", "reconcile"}]
    BY <1>8 DEF Op
  <2> HIDE DEF x
  <2>5. CommandOK(x)'
    BY <1>1, <1>2, <1>3, <1>7, <1>8, <2>1, <2>3, <2>4 DEF CommandOK
  <2> QED
    BY <1>2, <2>2, <2>5, CommandStarts
<1>9. CASE op.name \notin {"disable", "apply"}
  <2>1. PICK T \in Tables : T = File
    BY <1>7, <1>9
  <2> DEFINE x == [Resting EXCEPT !.op = op, !.pc = "save", !.table = T]
  <2>2. command' = [Outdated EXCEPT ![p] = x]
    BY <1>9, <2>1 DEF Start
  <2>3. /\ x \in CommandType /\ x.pc = "save" /\ x.op = op
        /\ x.at = 0 /\ x.wanted = {}
    BY <1>4, <1>5 DEF CommandType
  <2>4. op \in [name : {"set", "remove"}, entry : Edits]
    BY <1>9 DEF Op
  <2> HIDE DEF x
  <2>5. CommandOK(x)'
    BY <1>2, <1>3, <2>3, <2>4 DEF CommandOK
  <2> QED
    BY <1>2, <2>2, <2>5, CommandStarts
<1> QED
  BY <1>6, <1>8, <1>9

LEMMA WriteOK ==
  ASSUME VersionsOK, NEW text \in Texts, Write(text)
  PROVE  VersionsOK' /\ Extended
<1>1. PICK vs \in Seq(Texts) : vs = versions
  BY DEF VersionsOK
<1>2. PICK ws : ws = Append(vs, text)
  OBVIOUS
<1>3. versions' = ws /\ Len(vs) < MaxVersions
  BY <1>1, <1>2 DEF Write, Now
<1>4. /\ ws \in Seq(Texts) /\ Len(ws) = Len(vs) + 1
      /\ \A v \in 1 .. Len(vs) : ws[v] = vs[v]
  BY <1>2
<1>5. Len(vs) \in Nat /\ Len(vs) >= 1
  BY <1>1 DEF VersionsOK, Now
<1>6. Now = Len(vs) /\ Now' = Len(ws)
  BY <1>1, <1>3 DEF Now
<1>7. VersionsOK'
  BY <1>3, <1>4, <1>5, <1>6, SplitDnsAssumption DEF VersionsOK
<1>8. Extended
  BY <1>1, <1>3, <1>4, <1>5, <1>6 DEF Extended
<1> QED
  BY <1>7, <1>8

LEMMA SaveOK ==
  ASSUME VersionsOK, CommandInv, NEW p \in Commands, SaveHosts(p)
  PROVE  VersionsOK' /\ Extended /\ CommandInv'
<1>1. PICK c : c = command[p] /\ CommandOK(c) /\ c.pc = "save"
  BY DEF SaveHosts, Doing, CommandInv
<1>2. c.table \in Tables /\ c.op.entry \in Edits
  BY <1>1 DEF CommandOK, CommandType
<1>3. PICK text : /\ \/ text = With(c.table, c.op.entry)
                     \/ text = Without(c.table, c.op.entry.domain, c.op.entry.wild)
                  /\ Write(text)
  BY <1>1 DEF SaveHosts
<1>4. text \in Texts
  BY <1>2, <1>3 DEF With, Without, Texts, Tables, Entries
<1>5. VersionsOK' /\ Extended
  BY <1>3, <1>4, WriteOK
<1> DEFINE op == [name |-> "reconcile"]
           x == [Resting EXCEPT !.pc = "reconcile", !.op = op]
<1>6. Resting \in CommandType /\ Resting.at = 0
  BY RestingOK DEF CommandOK, Resting
<1>7. x \in CommandType /\ x.pc = "reconcile" /\ x.op = op /\ x.at = Resting.at
  BY <1>6 DEF CommandType
<1>8. op.name = "reconcile" /\ op \in [name : {"apply", "disable", "reconcile"}]
  OBVIOUS
<1>9. command' = [command EXCEPT ![p] = x]
  BY DEF SaveHosts
<1>10. Now' \in Nat
  BY <1>5 DEF VersionsOK
<1> HIDE DEF x, op
<1>11. CommandOK(x)'
  BY <1>6, <1>7, <1>8, <1>10 DEF CommandOK
<1> QED
  BY <1>5, <1>9, <1>11, CommandMoves

LEMMA ReconcileOK ==
  ASSUME VersionsOK, CommandInv, NEW p \in Commands, Reconcile(p)
  PROVE  CommandInv'
<1>1. PICK c : c = command[p] /\ CommandOK(c) /\ c.pc = "reconcile"
  BY DEF Reconcile, Doing, CommandInv
<1>2. versions' = versions
  BY DEF Reconcile, Keep
<1>3. VersionsOK' /\ Extended /\ Now' = Now
  BY <1>2, SameVersions
<1>4. CASE ~plist
  BY <1>1, <1>2, <1>4, ThenOK DEF Reconcile, PC
<1>5. CASE plist
  <2>1. PICK n \in Nat : n = Now /\ n >= 1
    BY DEF VersionsOK
  <2>2. PICK T \in Tables : T = versions[n] /\ T = File
    BY <1>5, <2>1 DEF Reconcile, VersionsOK, Parses, File, Now, Texts
  <2>3. PICK D \in SUBSET Domains : D = RoutedDomains(T)
    BY RoutedIsTyped
  <2>4. PICK pc \in {"ok", "start"} :
          command' = [command EXCEPT ![p].at = n, ![p].wanted = D, ![p].pc = pc]
    BY <1>5, <2>1, <2>2, <2>3 DEF Reconcile
  <2> DEFINE x == [c EXCEPT !.at = n, !.wanted = D, !.pc = pc]
  <2>5. command' = [command EXCEPT ![p] = x]
    BY <1>1, <2>4 DEF CommandInv
  <2>6. x \in CommandType /\ x.at = n /\ x.wanted = D /\ x.pc = pc /\ x.op = c.op
    BY <1>1 DEF CommandOK, CommandType
  <2> HIDE DEF x
  <2>7. c.op \in [name : {"apply", "disable", "reconcile"}] /\ c.op.name # "disable"
    BY <1>1 DEF CommandOK
  <2>8. versions'[n] \in Tables /\ D = RoutedDomains(versions'[n]) /\ Now' = n
    BY <1>2, <1>3, <2>1, <2>2, <2>3
  <2>9. CommandOK(x)'
    BY <2>1, <2>6, <2>7, <2>8 DEF CommandOK
  <2> QED
    BY <1>3, <2>5, <2>9, CommandMoves
<1> QED
  BY <1>4, <1>5

LEMMA CommandStepOK ==
  ASSUME VersionsOK, CommandInv, ServerInv, NEW p \in Commands, CommandStep(p)
  PROVE  VersionsOK' /\ ServerInv' /\ CommandInv'
<1>1. CommandOK(command[p])
  BY DEF CommandInv
<1>2. ASSUME NEW op \in Op, Start(p, op)
      PROVE  VersionsOK' /\ ServerInv' /\ CommandInv'
  BY <1>2, StartOK, SameVersions, ServerKept DEF Start
<1>3. CASE SaveHosts(p)
  BY <1>3, SaveOK, ServerKept DEF SaveHosts
<1>4. CASE Reconcile(p)
  BY <1>4, ReconcileOK, SameVersions, ServerKept DEF Reconcile, Keep
<1>5. CASE StartJob(p)
  <2>1. PICK pc \in {"compare", "sync", "bootout"} : Then(p, pc)
    BY <1>5 DEF StartJob, Started
  <2>2. CommandInv'
    BY <1>1, <1>5, <2>1, ThenOK DEF StartJob, CommandOK, Doing, PC
  <2> QED
    BY <1>5, <2>2, SameVersions, ServerKept DEF StartJob
<1>6. CASE Bootout(p)
  <2>1. PICK pc \in {"bootstrap", "unlink"} :
          Then(p, pc) /\ command[p].pc = IF pc = "bootstrap" THEN "bootout" ELSE "stop"
    BY <1>6 DEF Bootout, Doing
  <2>2. CommandInv'
    BY <1>1, <1>6, <2>1, ThenOK DEF Bootout, CommandOK, PC
  <2>3. versions' = versions /\ (Gone \/ UNCHANGED served)
    BY <1>6 DEF Bootout
  <2> QED
    BY <2>2, <2>3, SameVersions, GoneOK, ServerKept
<1>7. CASE Bootstrap(p)
  <2>1. CommandInv'
    BY <1>1, <1>7, ThenOK DEF Bootstrap, CommandOK, Doing, PC
  <2> QED
    BY <1>7, <2>1, SameVersions, ServerKept DEF Bootstrap
<1>8. ASSUME Keep, NEW pc, Then(p, pc),
             \/ Doing(p, "probe") /\ pc \in {"compare", "sync"}
             \/ Doing(p, "compare") /\ pc \in {"ok", "sync"}
             \/ Doing(p, "unroute") /\ pc \in {"stop", "sync"}
             \/ /\ Doing(p, "sync")
                /\ pc = IF command[p].op.name = "disable" THEN "stop" ELSE "ok"
      PROVE  VersionsOK' /\ ServerInv' /\ CommandInv'
  <2>1. CommandInv'
    BY <1>1, <1>8, ThenOK DEF Keep, CommandOK, Doing, PC
  <2> QED
    BY <1>8, <2>1, SameVersions, ServerKept DEF Keep
<1>9. CASE Probe(p) \/ Compare(p) \/ Unroute(p) \/ Synced(p)
  <2>1. CASE Probe(p)
    BY <1>8, <2>1 DEF Probe, Started
  <2>2. CASE Compare(p)
    BY <1>8, <2>2 DEF Compare
  <2>3. CASE Unroute(p)
    BY <1>8, <2>3 DEF Unroute
  <2>4. CASE Synced(p)
    BY <1>8, <2>4 DEF Synced
  <2> QED
    BY <1>9, <2>1, <2>2, <2>3, <2>4
<1>10. CASE Unlink(p)
  <2>1. CommandInv'
    BY <1>1, <1>10, ThenOK DEF Unlink, CommandOK, Doing, PC
  <2> QED
    BY <1>10, <2>1, SameVersions, ServerKept DEF Unlink
<1>11. CASE Cancel(p)
  <2>1. VersionsOK' /\ Extended
    BY <1>11, SameVersions DEF Cancel, Keep
  <2>2. CommandOK(Resting)'
    BY <2>1 DEF CommandOK, Resting, CommandType, Tables, VersionsOK
  <2>3. CommandInv'
    BY <1>11, <2>1, <2>2, CommandMoves DEF Cancel
  <2> QED
    BY <1>11, <2>1, <2>3, ServerKept DEF Cancel, Keep
<1>12. ASSUME NEW d \in Domains, SyncWrite(p, d) \/ SyncRemove(p, d)
       PROVE  VersionsOK' /\ ServerInv' /\ CommandInv'
  BY <1>12, SameVersions, ServerKept, CommandsKept DEF SyncWrite, SyncRemove
<1> QED
  BY <1>2, <1>3, <1>4, <1>5, <1>6, <1>7, <1>9, <1>10, <1>11, <1>12 DEF CommandStep

DnsInv == VersionsOK /\ ServerInv /\ CommandInv

LEMMA DnsInitial == DnsInit => DnsInv
<1> SUFFICES ASSUME DnsInit PROVE DnsInv
  OBVIOUS
<1>1. VersionsOK
  <2>1. PICK vs : vs = <<{}>>
    OBVIOUS
  <2>2. vs \in Seq(Texts) /\ Len(vs) = 1
    BY <2>1 DEF Texts, Tables
  <2>3. versions = vs
    BY <2>1 DEF DnsInit
  <2>4. 1 \in 1 .. MaxVersions
    BY SplitDnsAssumption
  <2> QED
    BY <2>2, <2>3, <2>4 DEF VersionsOK, Now
<1>2. Now \in Nat
  BY <1>1 DEF VersionsOK
<1>3. TableOK
  <2>1. table \in [entries : Tables, of : Nat] /\ table.of = 0
    BY DEF DnsInit, Tables
  <2>2. server = "off" /\ modified = 0 /\ missed = FALSE
    BY DEF DnsInit
  <2>3. table.of <= Now /\ modified \in Nat /\ modified <= Now
    BY <1>2, <2>1, <2>2
  <2>4. missed \in BOOLEAN
    BY <2>2
  <2> QED
    BY <2>1, <2>2, <2>3, <2>4 DEF TableOK
<1>4. QueryOK(NoQuery) /\ CommandOK(Resting)
  BY <1>1, NoQueryOK, RestingOK
<1>5. handler = [h \in Handlers |-> NoQuery] /\ command = [p \in Commands |-> Resting]
  BY DEF DnsInit
<1>6. ServerInv
  <2>1. handler = [h \in Handlers |-> handler[h]] /\ \A h \in Handlers : handler[h] = NoQuery
    BY <1>5
  <2>2. NoQuery.pc = "idle"
    BY DEF NoQuery
  <2> QED
    BY <1>3, <1>4, <2>1, <2>2 DEF ServerInv
<1>7. CommandInv
  <2>1. command = [p \in Commands |-> command[p]] /\ \A p \in Commands : command[p] = Resting
    BY <1>5
  <2> QED
    BY <1>4, <2>1 DEF CommandInv
<1> QED
  BY <1>1, <1>6, <1>7 DEF DnsInv

LEMMA DnsStep == DnsInv /\ [DnsNext]_dnsVars => DnsInv'
<1> SUFFICES ASSUME DnsInv, [DnsNext]_dnsVars PROVE DnsInv'
  OBVIOUS
<1> USE DEF DnsInv
<1>1. CASE UNCHANGED dnsVars
  BY <1>1, SameVersions, ServerKept, CommandsKept DEF dnsVars
<1>2. CASE BindLoad \/ BindStat
  BY <1>2, BindOK, SameVersions, CommandsKept DEF BindLoad, BindStat
<1>3. CASE Die
  BY <1>3, SameVersions, GoneOK, CommandsKept DEF Die
<1>4. CASE Restart
  <2>1. VersionsOK' /\ Extended /\ ServerInv'
    BY <1>4, SameVersions, GoneOK DEF Restart
  <2>2. CommandOK(Resting)'
    BY <2>1 DEF CommandOK, Resting, CommandType, Tables, VersionsOK
  <2>3. command' = [p \in Commands |-> Resting]
    BY <1>4 DEF Restart
  <2>4. command' = [p \in Commands |-> command'[p]] /\ \A p \in Commands : command'[p] = Resting
    BY <2>3
  <2>5. \A p \in Commands : CommandOK(command[p])'
    BY <2>2, <2>4 DEF CommandOK
  <2> QED
    BY <2>1, <2>4, <2>5 DEF CommandInv
<1>5. CASE HandEdit
  <2>1. PICK text \in HandEdits \cup {Typo} : Write(text)
    BY <1>5 DEF HandEdit
  <2>2. text \in Texts
    BY DEF Texts, Tables, Entries
  <2>3. VersionsOK' /\ Extended
    BY <2>1, <2>2, WriteOK
  <2> QED
    BY <1>5, <2>3, ServerKept, CommandsKept DEF HandEdit
<1>6. ASSUME NEW h \in Handlers, Serve(h)
      PROVE  DnsInv'
  <2>1. versions' = versions /\ command' = command
    BY <1>6 DEF Serve, ReceiveOther, Receive, Stat, Refresh, LookUp, Forward
  <2> QED
    BY <1>6, <2>1, ServeOK, SameVersions, CommandsKept
<1>7. ASSUME NEW p \in Commands, CommandStep(p)
      PROVE  DnsInv'
  BY <1>7, CommandStepOK
<1> QED
  BY <1>1, <1>2, <1>3, <1>4, <1>5, <1>6, <1>7 DEF DnsNext

-----------------------------------------------------------------------------
SystemOK ==
  /\ plist \in BOOLEAN /\ job \in BOOLEAN
  /\ routes \in [Domains -> {"none", "foreign", "ours"}]
  /\ failures \in 0 .. MaxFailures /\ overlapped \in BOOLEAN /\ crossed \in BOOLEAN

LEMMA SystemInitial == DnsInit => SystemOK
<1> SUFFICES ASSUME DnsInit PROVE SystemOK
  OBVIOUS
<1>1. plist \in BOOLEAN /\ job \in BOOLEAN
  BY DEF DnsInit
<1>2. routes \in [Domains -> {"none", "foreign", "ours"}]
  BY DEF DnsInit
<1>3. failures \in 0 .. MaxFailures
  BY SplitDnsAssumption DEF DnsInit
<1>4. overlapped \in BOOLEAN /\ crossed \in BOOLEAN
  BY DEF DnsInit
<1> QED
  BY <1>1, <1>2, <1>3, <1>4 DEF SystemOK

LEMMA SystemStep == SystemOK /\ [DnsNext]_dnsVars => SystemOK'
<1> SUFFICES ASSUME SystemOK, [DnsNext]_dnsVars PROVE SystemOK'
  OBVIOUS
<1>1. plist' \in BOOLEAN /\ job' \in BOOLEAN
  BY DEF SystemOK, DnsNext, dnsVars, BindLoad, BindStat, Die, Restart, HandEdit, Serve,
         ReceiveOther, Receive, Stat, Refresh, LookUp, Forward, CommandStep, Start, Keep,
         SaveHosts, Reconcile, StartJob, Bootout, Bootstrap, Probe, Compare, Unroute, Unlink,
         Synced, Cancel, SyncWrite, SyncRemove
<1>2. routes' \in [Domains -> {"none", "foreign", "ours"}]
  <2>1. CASE routes' = routes
    BY <2>1 DEF SystemOK
  <2>2. ASSUME NEW p \in Commands, NEW d \in Domains, SyncWrite(p, d) \/ SyncRemove(p, d)
        PROVE  routes' \in [Domains -> {"none", "foreign", "ours"}]
    BY <2>2 DEF SystemOK, SyncWrite, SyncRemove
  <2> QED
    BY <2>1, <2>2
       DEF DnsNext, dnsVars, BindLoad, BindStat, Die, Restart, HandEdit, Serve,
           ReceiveOther, Receive, Stat, Refresh, LookUp, Forward, CommandStep, Start, Keep,
           SaveHosts, Reconcile, StartJob, Bootout, Bootstrap, Probe, Compare, Unroute, Unlink,
           Synced, Cancel
<1>3. failures' \in 0 .. MaxFailures
  <2>1. CASE failures' = failures
    BY <2>1 DEF SystemOK
  <2>2. CASE failures < MaxFailures /\ failures' = failures + 1
    BY <2>2, SplitDnsAssumption DEF SystemOK
  <2> QED
    BY <2>1, <2>2
       DEF DnsNext, dnsVars, BindLoad, BindStat, Die, Restart, HandEdit, Serve,
           ReceiveOther, Receive, Stat, Refresh, LookUp, Forward, CommandStep, Start, Keep,
           SaveHosts, Reconcile, StartJob, Bootout, Bootstrap, Probe, Compare, Unroute, Unlink,
           Synced, Cancel, SyncWrite, SyncRemove
<1>4. overlapped' \in BOOLEAN /\ crossed' \in BOOLEAN
  <2>1. ASSUME UNCHANGED overlaps
        PROVE  overlapped' \in BOOLEAN /\ crossed' \in BOOLEAN
    BY <2>1 DEF SystemOK, overlaps
  <2>2. ASSUME NEW p \in Commands, NEW op \in Op, Start(p, op)
        PROVE  overlapped' \in BOOLEAN /\ crossed' \in BOOLEAN
    BY <2>2 DEF Start
  <2> QED
    BY <2>1, <2>2
       DEF DnsNext, dnsVars, BindLoad, BindStat, Die, Restart, HandEdit, Serve,
           ReceiveOther, Receive, Stat, Refresh, LookUp, Forward, CommandStep, Keep,
           SaveHosts, Reconcile, StartJob, Bootout, Bootstrap, Probe, Compare, Unroute, Unlink,
           Synced, Cancel, SyncWrite, SyncRemove
<1> QED
  BY <1>1, <1>2, <1>3, <1>4 DEF SystemOK

-----------------------------------------------------------------------------
\* The steps of a command after its start.
Proceeds(p) ==
  \/ SaveHosts(p) \/ Reconcile(p) \/ StartJob(p) \/ Bootout(p) \/ Bootstrap(p)
  \/ Probe(p) \/ Compare(p) \/ Unroute(p) \/ Unlink(p) \/ Synced(p) \/ Cancel(p)
  \/ \E d \in Domains : SyncWrite(p, d) \/ SyncRemove(p, d)

TurnsOff(c) == c.op.name = "disable"

\* A step of a command leaves the others where they are.
LEMMA OthersWait ==
  ASSUME CommandInv, NEW p \in Commands, Proceeds(p)
  PROVE  /\ UnderWay(p) /\ UNCHANGED <<overlapped, crossed>>
         /\ \A q \in Commands \ {p} : command'[q] = command[q]
<1>1. command = [q \in Commands |-> command[q]]
  BY DEF CommandInv
<1>2. UNCHANGED <<overlapped, crossed>>
  BY DEF Proceeds, SaveHosts, Reconcile, StartJob, Bootout, Bootstrap, Probe, Compare, Unroute,
         Unlink, Synced, Cancel, SyncWrite, SyncRemove, Keep, overlaps
<1>3. UnderWay(p)
  BY DEF Proceeds, SaveHosts, Reconcile, StartJob, Bootout, Bootstrap, Probe, Compare, Unroute,
         Unlink, Synced, Cancel, SyncWrite, SyncRemove, Doing, UnderWay
<1>4. \A q \in Commands \ {p} : command'[q] = command[q]
  BY <1>1 DEF Proceeds, SaveHosts, Reconcile, StartJob, Bootout, Bootstrap, Probe, Compare, Unroute,
         Unlink, Synced, Cancel, SyncWrite, SyncRemove, Keep, Then
<1> QED
  BY <1>2, <1>3, <1>4

LEMMA ThenSteps ==
  ASSUME CommandInv, NEW p \in Commands, NEW pc, Then(p, pc)
  PROVE  /\ command'[p].pc = pc /\ command'[p].op = command[p].op
         /\ command'[p].at = command[p].at /\ command'[p].wanted = command[p].wanted
<1>1. command = [q \in Commands |-> command[q]] /\ command[p] \in CommandType
  BY DEF CommandInv, CommandOK
<1> QED
  BY <1>1 DEF Then, CommandType

\* A command that turns overrides off does so to its end, and no other does.
LEMMA KindKept ==
  ASSUME CommandInv, NEW p \in Commands, Proceeds(p), UnderWay(p)'
  PROVE  TurnsOff(command'[p]) <=> TurnsOff(command[p])
<1>1. command = [q \in Commands |-> command[q]]
  BY DEF CommandInv
<1>2. CASE SaveHosts(p)
  <2>1. command[p].op.name # "disable"
    BY <1>2 DEF SaveHosts, Doing, CommandInv, CommandOK
  <2>2. command'[p] = [Resting EXCEPT !.pc = "reconcile", !.op = [name |-> "reconcile"]]
    BY <1>1, <1>2 DEF SaveHosts
  <2>3. command'[p].op.name = "reconcile"
    BY <2>2 DEF Resting
  <2> QED
    BY <2>1, <2>3 DEF TurnsOff
<1>3. CASE Cancel(p)
  <2>1. command'[p] = Resting
    BY <1>1, <1>3 DEF Cancel
  <2> QED
    BY <2>1 DEF UnderWay, Resting
<1>4. CASE Reconcile(p)
  <2>1. CASE ~plist
    BY <1>4, <2>1, ThenSteps DEF Reconcile, TurnsOff
  <2>2. CASE plist
    <3>1. command[p] \in CommandType
      BY DEF CommandInv, CommandOK
    <3>2. PICK n, D, pc :
            command' = [command EXCEPT ![p].at = n, ![p].wanted = D, ![p].pc = pc]
      BY <1>4, <2>2 DEF Reconcile
    <3>3. command'[p].op = command[p].op
      BY <1>1, <3>1, <3>2 DEF CommandType
    <3> QED
      BY <3>3 DEF TurnsOff
  <2> QED
    BY <2>1, <2>2
<1>5. ASSUME NEW d \in Domains, SyncWrite(p, d) \/ SyncRemove(p, d)
      PROVE  TurnsOff(command'[p]) <=> TurnsOff(command[p])
  BY <1>5 DEF SyncWrite, SyncRemove
<1>6. ASSUME NEW pc, Then(p, pc)
      PROVE  TurnsOff(command'[p]) <=> TurnsOff(command[p])
  BY <1>6, ThenSteps DEF TurnsOff
<1>7. CASE StartJob(p) \/ Bootout(p) \/ Bootstrap(p) \/ Probe(p) \/ Compare(p) \/ Unroute(p)
           \/ Unlink(p) \/ Synced(p)
  BY <1>6, <1>7 DEF StartJob, Bootout, Bootstrap, Probe, Compare, Unroute, Unlink, Synced
<1> QED
  BY <1>2, <1>3, <1>4, <1>5, <1>7 DEF Proceeds

\* A command has just started, and only those that were running go on.
LEMMA StartSteps ==
  ASSUME CommandInv, NEW p \in Commands, NEW op \in Op, Start(p, op)
  PROVE  /\ UNCHANGED <<plist, routes>>
         /\ command'[p].pc \in {"unroute", "start", "save"} /\ command'[p].op = op
         /\ \A q \in Commands \ {p} :
              command'[q] = Resting \/ (command'[q] = command[q] /\ command[q].pc # "ok")
<1>1. PICK x : /\ command' = [Outdated EXCEPT ![p] = x]
               /\ \/ x = [Resting EXCEPT !.op = op, !.pc = "unroute"]
                  \/ x = [Resting EXCEPT !.op = op, !.pc = "start", !.at = Now,
                                         !.wanted = RoutedDomains(File)]
                  \/ x = [Resting EXCEPT !.op = op, !.pc = "save", !.table = File]
  BY DEF Start
<1>2. x.pc \in {"unroute", "start", "save"} /\ x.op = op
  BY <1>1 DEF Resting
<1>3. \A q \in Commands :
        command'[q] = IF q = p THEN x ELSE IF Doing(q, "ok") THEN Resting ELSE command[q]
  BY <1>1 DEF Outdated
<1>4. ASSUME NEW q \in Commands \ {p}
      PROVE  command'[q] = Resting \/ (command'[q] = command[q] /\ command[q].pc # "ok")
  BY <1>3 DEF Doing
<1>5. command'[p] = x /\ UNCHANGED <<plist, routes>>
  BY <1>3 DEF Start
<1> QED
  BY <1>2, <1>4, <1>5

-----------------------------------------------------------------------------
\* What a command that is under way has seen to: the job is installed before
\* anything is routed, and nothing is routed when the job goes.
InstalledOK(c, installed, routed) ==
  /\ c.pc \in {"bootout", "bootstrap", "probe", "compare"} => installed
  /\ c.pc = "sync" /\ ~TurnsOff(c) => installed
  /\ c.pc \in {"stop", "unlink"} => routed = {}

\* As long as no two commands crossed, those that run at once all turn overrides
\* off, or none does.
InstalledInv ==
  ~crossed =>
    /\ Ours # {} => plist
    /\ \A p \in Commands : InstalledOK(command[p], plist, Ours)
    /\ \A p, q \in Commands :
         UnderWay(p) /\ UnderWay(q) => (TurnsOff(command[p]) <=> TurnsOff(command[q]))

LEMMA InstalledInitial == DnsInit => InstalledInv
<1> SUFFICES ASSUME DnsInit PROVE InstalledInv
  OBVIOUS
<1>1. Ours = {}
  BY DEF DnsInit, Ours
<1>2. \A p \in Commands : command[p].pc = "idle"
  BY DEF DnsInit, Resting
<1> QED
  BY <1>1, <1>2 DEF InstalledInv, InstalledOK, UnderWay

\* A command goes on and keeps its own part; the others keep theirs when the
\* job stays, and the routes do not grow.
LEMMA InstalledMove ==
  ASSUME CommandInv, InstalledInv, NEW p \in Commands, Proceeds(p), ~crossed,
         Ours' # {} => plist', InstalledOK(command'[p], plist', Ours'),
         \/ (plist => plist') /\ Ours' \subseteq Ours
         \/ (plist => plist') /\ ~TurnsOff(command[p])
         \/ Ours' = {} /\ TurnsOff(command[p])
  PROVE  InstalledInv'
<1>1. /\ UnderWay(p) /\ UNCHANGED <<overlapped, crossed>>
      /\ \A q \in Commands \ {p} : command'[q] = command[q]
  BY OthersWait
<1>2. /\ Ours # {} => plist
      /\ \A q \in Commands : InstalledOK(command[q], plist, Ours)
      /\ \A q, r \in Commands :
           UnderWay(q) /\ UnderWay(r) => (TurnsOff(command[q]) <=> TurnsOff(command[r]))
  BY DEF InstalledInv
<1>3. ASSUME NEW q \in Commands \ {p}
      PROVE  InstalledOK(command'[q], plist', Ours')
  <2>1. command'[q] = command[q] /\ InstalledOK(command[q], plist, Ours)
    BY <1>1, <1>2
  <2>2. CASE (plist => plist') /\ Ours' \subseteq Ours
    BY <2>1, <2>2 DEF InstalledOK
  <2>3. CASE (plist => plist') /\ ~TurnsOff(command[p])
    <3>1. command[q].pc \notin {"stop", "unlink"}
      <4>1. ASSUME command[q].pc \in {"stop", "unlink"}
            PROVE  FALSE
        <5>1. UnderWay(q) /\ TurnsOff(command[q])
          BY <4>1 DEF UnderWay, TurnsOff, CommandInv, CommandOK
        <5> QED
          BY <1>1, <1>2, <2>3, <5>1
      <4> QED
        BY <4>1
    <3> QED
      BY <2>1, <2>3, <3>1 DEF InstalledOK
  <2>4. CASE Ours' = {} /\ TurnsOff(command[p])
    <3>1. UnderWay(q) => TurnsOff(command[q])
      BY <1>1, <1>2, <2>4
    <3>2. command[q].pc \notin {"bootout", "bootstrap", "probe", "compare"}
      BY <3>1 DEF UnderWay, TurnsOff, CommandInv, CommandOK
    <3>3. command[q].pc = "sync" => TurnsOff(command[q])
      BY <3>1 DEF UnderWay
    <3> QED
      BY <2>1, <2>4, <3>2, <3>3 DEF InstalledOK
  <2> QED
    BY <2>2, <2>3, <2>4
<1>4. ASSUME NEW q \in Commands, UnderWay(q)'
      PROVE  UnderWay(q) /\ (TurnsOff(command'[q]) <=> TurnsOff(command[q]))
  <2>1. CASE q = p
    BY <1>1, <1>4, <2>1, KindKept
  <2>2. CASE q # p
    BY <1>1, <1>4, <2>2 DEF UnderWay
  <2> QED
    BY <2>1, <2>2
<1>5. \A q, r \in Commands :
        UnderWay(q)' /\ UnderWay(r)' => (TurnsOff(command'[q]) <=> TurnsOff(command'[r]))
  BY <1>2, <1>4
<1>6. \A q \in Commands : InstalledOK(command'[q], plist', Ours')
  BY <1>3
<1> QED
  BY <1>5, <1>6 DEF InstalledInv, TurnsOff

LEMMA InstalledProceeds ==
  ASSUME CommandInv, SystemOK, InstalledInv, NEW p \in Commands, Proceeds(p)
  PROVE  InstalledInv'
<1> SUFFICES ASSUME ~crossed
             PROVE  InstalledInv'
  BY OthersWait DEF InstalledInv
<1>1. PICK c : c = command[p] /\ CommandOK(c) /\ InstalledOK(c, plist, Ours)
  BY DEF CommandInv, InstalledInv
<1>2. command = [q \in Commands |-> command[q]] /\ (Ours # {} => plist)
  BY DEF CommandInv, InstalledInv
\* Most steps change neither the routes nor the job.
<1>3. ASSUME routes' = routes, plist' = plist, InstalledOK(command'[p], plist, Ours)
      PROVE  InstalledInv'
  <2>1. Ours' = Ours
    BY <1>3 DEF Ours
  <2> QED
    BY <1>2, <1>3, <2>1, InstalledMove
<1>4. ASSUME routes' = routes, plist' = plist, NEW pc, Then(p, pc),
             pc \in {"bootout", "bootstrap", "probe", "compare"} => plist,
             pc = "sync" /\ ~TurnsOff(c) => plist,
             pc \in {"stop", "unlink"} => Ours = {}
      PROVE  InstalledInv'
  <2>1. command'[p].pc = pc /\ (TurnsOff(command'[p]) <=> TurnsOff(c))
    BY <1>1, <1>4, ThenSteps DEF TurnsOff
  <2> QED
    BY <1>3, <1>4, <2>1 DEF InstalledOK
<1>5. CASE SaveHosts(p)
  <2>1. command'[p].pc = "reconcile"
    BY <1>2, <1>5 DEF SaveHosts, Resting
  <2> QED
    BY <1>3, <1>5, <2>1 DEF SaveHosts, InstalledOK
<1>6. CASE Reconcile(p)
  <2>1. CASE ~plist
    BY <1>4, <1>6, <2>1 DEF Reconcile, Keep
  <2>2. CASE plist
    <3>1. command[p] \in CommandType
      BY DEF CommandInv, CommandOK
    <3>2. PICK n, D, pc : /\ pc \in {"ok", "start"}
                          /\ command' = [command EXCEPT ![p].at = n, ![p].wanted = D, ![p].pc = pc]
      BY <1>6, <2>2 DEF Reconcile
    <3>3. command'[p].pc \in {"ok", "start"}
      BY <1>2, <3>1, <3>2 DEF CommandType
    <3> QED
      BY <1>3, <1>6, <3>3 DEF Reconcile, Keep, InstalledOK
  <2> QED
    BY <2>1, <2>2
<1>7. CASE StartJob(p)
  <2>1. c.pc = "start" /\ routes' = routes
    BY <1>1, <1>7 DEF StartJob, Doing
  <2>2. CASE plist /\ Then(p, Started(p)) /\ UNCHANGED plist
    <3>1. PICK pc \in {"compare", "sync"} : Then(p, pc)
      BY <2>2 DEF Started
    <3> QED
      BY <1>4, <2>1, <2>2, <3>1
  <2>3. CASE plist' = TRUE /\ Then(p, "bootout")
    <3>1. command'[p].pc = "bootout"
      BY <2>3, ThenSteps
    <3>2. Ours' = Ours /\ InstalledOK(command'[p], plist', Ours')
      BY <2>1, <2>3, <3>1 DEF InstalledOK, Ours
    <3> QED
      BY <2>3, <3>2, InstalledMove
  <2> QED
    BY <1>7, <2>2, <2>3 DEF StartJob
<1>8. CASE Bootout(p)
  <2>1. CASE c.pc = "bootout"
    BY <1>1, <1>4, <1>8, <2>1 DEF Bootout, Doing, InstalledOK
  <2>2. CASE c.pc = "stop"
    BY <1>1, <1>4, <1>8, <2>2 DEF Bootout, Doing, InstalledOK
  <2> QED
    BY <1>1, <1>8, <2>1, <2>2 DEF Bootout
<1>9. CASE Bootstrap(p)
  BY <1>4, <1>9 DEF Bootstrap
<1>10. CASE Probe(p)
  <2>1. c.pc = "probe" /\ plist
    BY <1>1, <1>10 DEF Probe, Doing, InstalledOK
  <2>2. PICK pc \in {"compare", "sync"} : Then(p, pc)
    BY <1>10 DEF Probe, Started
  <2> QED
    BY <1>4, <1>10, <2>1, <2>2 DEF Probe, Keep
<1>11. CASE Compare(p)
  <2>1. c.pc = "compare" /\ plist
    BY <1>1, <1>11 DEF Compare, Doing, InstalledOK
  <2>2. PICK pc \in {"ok", "sync"} : Then(p, pc)
    BY <1>11 DEF Compare
  <2> QED
    BY <1>4, <1>11, <2>1, <2>2 DEF Compare, Keep
<1>12. CASE Unroute(p)
  <2>1. TurnsOff(c)
    BY <1>1, <1>12 DEF Unroute, Doing, CommandOK, TurnsOff
  <2> QED
    BY <1>4, <1>12, <2>1 DEF Unroute, Keep
<1>13. CASE Unlink(p)
  <2>1. c.pc = "unlink" /\ Ours = {} /\ TurnsOff(c)
    BY <1>1, <1>13 DEF Unlink, Doing, InstalledOK, CommandOK, TurnsOff
  <2>2. command'[p].pc = "ok"
    BY <1>13, ThenSteps DEF Unlink
  <2>3. Ours' = {}
    BY <1>13, <2>1 DEF Unlink, Ours
  <2> QED
    BY <1>1, <2>1, <2>2, <2>3, InstalledMove DEF InstalledOK
<1>14. CASE Synced(p)
  <2>1. c.pc = "sync" /\ Ours \subseteq c.wanted
    BY <1>1, <1>14 DEF Synced, Doing
  <2>2. CASE TurnsOff(c)
    <3>1. c.wanted = {}
      BY <1>1, <2>1, <2>2 DEF CommandOK, TurnsOff
    <3> QED
      BY <1>1, <1>4, <1>14, <2>1, <2>2, <3>1 DEF Synced, Keep, TurnsOff
  <2>3. CASE ~TurnsOff(c)
    BY <1>1, <1>4, <1>14, <2>3 DEF Synced, Keep, TurnsOff
  <2> QED
    BY <2>2, <2>3
<1>15. CASE Cancel(p)
  <2>1. command'[p].pc = "idle"
    BY <1>2, <1>15 DEF Cancel, Resting
  <2> QED
    BY <1>3, <1>15, <2>1 DEF Cancel, Keep, InstalledOK
<1>16. ASSUME NEW d \in Domains, SyncWrite(p, d)
       PROVE  InstalledInv'
  <2>1. c.pc = "sync" /\ plist' = plist /\ command' = command
    BY <1>1, <1>16 DEF SyncWrite, Doing
  <2>2. ~TurnsOff(c)
    BY <1>1, <1>16, <2>1 DEF CommandOK, SyncWrite, TurnsOff
  <2>3. plist /\ InstalledOK(command'[p], plist', Ours')
    BY <1>1, <2>1, <2>2 DEF InstalledOK
  <2> QED
    BY <1>1, <2>1, <2>2, <2>3, InstalledMove
<1>17. ASSUME NEW d \in Domains, SyncRemove(p, d)
       PROVE  InstalledInv'
  <2>1. c.pc = "sync" /\ plist' = plist /\ command' = command
    BY <1>1, <1>17 DEF SyncRemove, Doing
  <2>2. Ours' \subseteq Ours
    BY <1>17 DEF SystemOK, SyncRemove, Ours
  <2>3. plist /\ InstalledOK(command'[p], plist', Ours')
    BY <1>1, <1>2, <1>17, <2>1 DEF InstalledOK, SyncRemove
  <2> QED
    BY <2>1, <2>2, <2>3, InstalledMove
<1> QED
  BY <1>5, <1>6, <1>7, <1>8, <1>9, <1>10, <1>11, <1>12, <1>13, <1>14, <1>15, <1>16, <1>17 DEF Proceeds

LEMMA InstalledStart ==
  ASSUME CommandInv, InstalledInv, NEW p \in Commands, NEW op \in Op, Start(p, op)
  PROVE  InstalledInv'
<1> SUFFICES ASSUME ~crossed'
             PROVE  InstalledInv'
  BY DEF InstalledInv
<1>1. /\ UNCHANGED <<plist, routes>>
      /\ command'[p].pc \in {"unroute", "start", "save"} /\ command'[p].op = op
      /\ \A q \in Commands \ {p} :
           command'[q] = Resting \/ (command'[q] = command[q] /\ command[q].pc # "ok")
  BY StartSteps
<1>2. ~crossed /\ \A q \in Commands : UnderWay(q) => ((op.name = "disable") <=> TurnsOff(command[q]))
  BY DEF Start, TurnsOff
<1>3. Ours' = Ours /\ Resting.pc = "idle"
  BY <1>1 DEF Ours, Resting
<1>4. ASSUME NEW q \in Commands
      PROVE  InstalledOK(command'[q], plist', Ours')
  BY <1>1, <1>2, <1>3 DEF InstalledInv, InstalledOK
<1>5. ASSUME NEW q \in Commands, UnderWay(q)'
      PROVE  TurnsOff(command'[q]) <=> op.name = "disable"
  <2>1. CASE q = p
    BY <1>1, <2>1 DEF TurnsOff
  <2>2. CASE q # p
    <3>1. command'[q] = command[q] /\ UnderWay(q)
      BY <1>1, <1>3, <1>5, <2>2 DEF UnderWay
    <3> QED
      BY <1>2, <3>1
  <2> QED
    BY <2>1, <2>2
<1>6. \A q, r \in Commands :
        UnderWay(q)' /\ UnderWay(r)' => (TurnsOff(command'[q]) <=> TurnsOff(command'[r]))
  BY <1>5
<1>7. Ours' # {} => plist'
  BY <1>1, <1>2, <1>3 DEF InstalledInv
<1> QED
  BY <1>4, <1>6, <1>7 DEF InstalledInv, TurnsOff

LEMMA InstalledStep ==
  ASSUME DnsInv, SystemOK, InstalledInv, [DnsNext]_dnsVars
  PROVE  InstalledInv'
<1>1. ASSUME UNCHANGED <<plist, routes, command, overlaps>>
      PROVE  InstalledInv'
  BY <1>1 DEF InstalledInv, InstalledOK, TurnsOff, UnderWay, Ours, overlaps
<1>2. CASE UNCHANGED dnsVars \/ BindLoad \/ BindStat \/ Die \/ HandEdit
  BY <1>1, <1>2 DEF dnsVars, BindLoad, BindStat, Die, HandEdit
<1>3. CASE Restart
  <2>1. \A p \in Commands : command'[p].pc = "idle"
    BY <1>3 DEF Restart, Resting
  <2>2. UNCHANGED <<plist, routes, crossed>> /\ Ours' = Ours
    BY <1>3 DEF Restart, Ours, overlaps
  <2> QED
    BY <2>1, <2>2 DEF InstalledInv, InstalledOK, UnderWay
<1>4. ASSUME NEW h \in Handlers, Serve(h)
      PROVE  InstalledInv'
  BY <1>1, <1>4 DEF Serve, ReceiveOther, Receive, Stat, Refresh, LookUp, Forward
<1>5. ASSUME NEW p \in Commands, CommandStep(p)
      PROVE  InstalledInv'
  BY <1>5, InstalledStart, InstalledProceeds DEF DnsInv, CommandStep, Proceeds
<1> QED
  BY <1>2, <1>3, <1>4, <1>5 DEF DnsNext

-----------------------------------------------------------------------------
\* As long as no two commands overlapped, at most one is running or has just
\* ended, and one that ended well has routed what it wanted.
RoutedInv ==
  ~overlapped =>
    /\ \A p, q \in Commands : command[p].pc # "idle" /\ command[q].pc # "idle" => p = q
    /\ \A p \in Commands :
         command[p].pc = "ok" /\ plist /\ command[p].at # 0 =>
           Ours = {d \in command[p].wanted : routes[d] # "foreign"}

LEMMA RoutedInitial == DnsInit => RoutedInv
<1> SUFFICES ASSUME DnsInit PROVE RoutedInv
  OBVIOUS
<1>1. \A p \in Commands : command[p].pc = "idle"
  BY DEF DnsInit, Resting
<1> QED
  BY <1>1 DEF RoutedInv

LEMMA RoutedProceeds ==
  ASSUME CommandInv, SystemOK, RoutedInv, NEW p \in Commands, Proceeds(p)
  PROVE  RoutedInv'
<1>1. /\ UnderWay(p) /\ UNCHANGED <<overlapped, crossed>>
      /\ \A q \in Commands \ {p} : command'[q] = command[q]
  BY OthersWait
<1> SUFFICES ASSUME ~overlapped
             PROVE  RoutedInv'
  BY <1>1 DEF RoutedInv
<1>2. \A q \in Commands \ {p} : command'[q].pc = "idle"
  BY <1>1 DEF RoutedInv, UnderWay
<1>3. PICK c : c = command[p] /\ CommandOK(c) /\ c \in CommandType
  BY DEF CommandInv, CommandOK
\* Only the command itself is left to look at, and only when it ends well.
<1>4. ASSUME command'[p].pc = "ok" /\ plist' /\ command'[p].at # 0 =>
               Ours' = {d \in command'[p].wanted : routes'[d] # "foreign"}
      PROVE  RoutedInv'
  <2>1. \A q, r \in Commands : command'[q].pc # "idle" /\ command'[r].pc # "idle" => q = r
    BY <1>2
  <2>2. ASSUME NEW q \in Commands, command'[q].pc = "ok"
        PROVE  q = p
    BY <1>2, <2>2
  <2> QED
    BY <1>4, <2>1, <2>2 DEF RoutedInv
<1>5. ASSUME NEW pc, pc # "ok", Then(p, pc)
      PROVE  RoutedInv'
  BY <1>4, <1>5, ThenSteps
<1>6. CASE SaveHosts(p)
  <2>1. command'[p].pc = "reconcile"
    BY <1>6 DEF SaveHosts, Resting, CommandInv
  <2> QED
    BY <1>4, <2>1
<1>7. CASE Cancel(p)
  <2>1. command'[p].pc = "idle"
    BY <1>7 DEF Cancel, Resting, CommandInv
  <2> QED
    BY <1>4, <2>1
<1>8. CASE Reconcile(p)
  <2>1. CASE ~plist
    BY <1>4, <1>8, <2>1 DEF Reconcile, Keep
  <2>2. CASE plist
    <3>1. PICK n, D, pc :
            /\ D = RoutedDomains(File) /\ pc = IF Ours = D THEN "ok" ELSE "start"
            /\ command' = [command EXCEPT ![p].at = n, ![p].wanted = D, ![p].pc = pc]
      BY <1>8, <2>2 DEF Reconcile
    <3>2. command'[p].pc = pc /\ command'[p].wanted = D
      BY <1>3, <3>1 DEF CommandInv, CommandType
    <3>3. Ours' = Ours /\ routes' = routes
      BY <1>8 DEF Reconcile, Keep, Ours
    <3>4. pc = "ok" => Ours = {d \in D : routes[d] # "foreign"}
      BY <3>1 DEF Ours
    <3> QED
      BY <1>4, <3>2, <3>3, <3>4
  <2> QED
    BY <2>1, <2>2
<1>9. CASE StartJob(p)
  BY <1>5, <1>9 DEF StartJob, Started
<1>10. CASE Bootout(p)
  BY <1>5, <1>10 DEF Bootout
<1>11. CASE Bootstrap(p)
  BY <1>5, <1>11 DEF Bootstrap
<1>12. CASE Probe(p)
  BY <1>5, <1>12 DEF Probe, Started
<1>13. CASE Unroute(p)
  BY <1>5, <1>13 DEF Unroute
<1>14. CASE Compare(p)
  <2>1. Ours' = Ours /\ routes' = routes
    BY <1>14 DEF Compare, Keep, Ours
  <2>2. CASE Ours = c.wanted
    <3>1. Ours = {d \in c.wanted : routes[d] # "foreign"}
      BY <2>2 DEF Ours
    <3>2. command'[p].wanted = c.wanted
      BY <1>3, <1>14, <2>2, ThenSteps DEF Compare
    <3> QED
      BY <1>4, <2>1, <3>1, <3>2
  <2>3. CASE Ours # c.wanted
    BY <1>3, <1>5, <1>14, <2>3 DEF Compare
  <2> QED
    BY <2>2, <2>3
<1>15. CASE Unlink(p)
  <2>1. c.at = 0
    BY <1>3, <1>15 DEF Unlink, Doing, CommandOK
  <2>2. command'[p].at = 0
    BY <1>3, <1>15, <2>1, ThenSteps DEF Unlink
  <2> QED
    BY <1>4, <2>2
<1>16. CASE Synced(p)
  <2>1. ToWrite(p) = {} /\ Ours \subseteq c.wanted /\ c.wanted \subseteq Domains
    BY <1>3, <1>16 DEF Synced, CommandType
  <2>2. \A d \in c.wanted : routes[d] # "none" /\ routes[d] \in {"none", "foreign", "ours"}
    BY <1>3, <2>1 DEF ToWrite, SystemOK
  <2>3. Ours = {d \in c.wanted : routes[d] # "foreign"}
    BY <2>1, <2>2 DEF Ours
  <2>4. command'[p].wanted = c.wanted
    BY <1>3, <1>16, ThenSteps DEF Synced
  <2>5. Ours' = Ours /\ routes' = routes
    BY <1>16 DEF Synced, Keep, Ours
  <2> QED
    BY <1>4, <2>3, <2>4, <2>5
<1>17. ASSUME NEW d \in Domains, SyncWrite(p, d) \/ SyncRemove(p, d)
       PROVE  RoutedInv'
  <2>1. command'[p].pc = "sync"
    BY <1>17 DEF SyncWrite, SyncRemove, Doing
  <2> QED
    BY <1>4, <2>1
<1> QED
  BY <1>6, <1>7, <1>8, <1>9, <1>10, <1>11, <1>12, <1>13, <1>14, <1>15, <1>16, <1>17 DEF Proceeds

LEMMA RoutedStart ==
  ASSUME CommandInv, RoutedInv, NEW p \in Commands, NEW op \in Op, Start(p, op)
  PROVE  RoutedInv'
<1> SUFFICES ASSUME ~overlapped'
             PROVE  RoutedInv'
  BY DEF RoutedInv
<1>1. /\ command'[p].pc \in {"unroute", "start", "save"}
      /\ \A q \in Commands \ {p} :
           command'[q] = Resting \/ (command'[q] = command[q] /\ command[q].pc # "ok")
  BY StartSteps
<1>2. \A q \in Commands : command[q].pc \in {"idle", "ok"}
  BY DEF Start, UnderWay
<1>3. \A q \in Commands \ {p} : command'[q].pc = "idle"
  BY <1>1, <1>2 DEF Resting
<1>4. \A q \in Commands : command'[q].pc # "ok"
  BY <1>1, <1>3
<1>5. \A q, r \in Commands : command'[q].pc # "idle" /\ command'[r].pc # "idle" => q = r
  BY <1>3
<1> QED
  BY <1>4, <1>5 DEF RoutedInv

LEMMA RoutedStep ==
  ASSUME DnsInv, SystemOK, RoutedInv, [DnsNext]_dnsVars
  PROVE  RoutedInv'
<1>1. ASSUME UNCHANGED <<plist, routes, command, overlaps>>
      PROVE  RoutedInv'
  BY <1>1 DEF RoutedInv, Ours, overlaps
<1>2. CASE UNCHANGED dnsVars \/ BindLoad \/ BindStat \/ Die \/ HandEdit
  BY <1>1, <1>2 DEF dnsVars, BindLoad, BindStat, Die, HandEdit
<1>3. CASE Restart
  <2>1. \A p \in Commands : command'[p].pc = "idle"
    BY <1>3 DEF Restart, Resting
  <2> QED
    BY <2>1 DEF RoutedInv
<1>4. ASSUME NEW h \in Handlers, Serve(h)
      PROVE  RoutedInv'
  BY <1>1, <1>4 DEF Serve, ReceiveOther, Receive, Stat, Refresh, LookUp, Forward
<1>5. ASSUME NEW p \in Commands, CommandStep(p)
      PROVE  RoutedInv'
  BY <1>5, RoutedStart, RoutedProceeds DEF DnsInv, CommandStep, Proceeds
<1> QED
  BY <1>2, <1>3, <1>4, <1>5 DEF DnsNext

-----------------------------------------------------------------------------
\* Texts, tables, queries and commands keep their shape and no reading is of the
\* future, whatever dies, restarts or stops half-way, for any number of queries
\* and commands at once (wsl-dns server.rs, wsl-agent dns.rs).
THEOREM DnsTypeCorrect == DnsSpec => []DnsTypeOK
<1>1. DnsInv /\ SystemOK => DnsTypeOK
  <2> SUFFICES ASSUME DnsInv, SystemOK PROVE DnsTypeOK
    OBVIOUS
  <2>1. versions \in Seq({Typo} \cup Tables) /\ Now \in 1 .. MaxVersions /\ Now \in Nat
    BY DEF DnsInv, VersionsOK, Texts
  <2>2. table \in [entries : Tables, of : 0 .. Now] /\ modified \in 0 .. Now
    <3>1. PICK t \in [entries : Tables, of : Nat] : t = table /\ t.of <= Now
      BY DEF DnsInv, ServerInv, TableOK
    <3>2. t.of \in 0 .. Now
      BY <2>1, <3>1
    <3>3. t = [entries |-> t.entries, of |-> t.of] /\ t.entries \in Tables
      BY <3>1
    <3>4. modified \in 0 .. Now
      BY <2>1 DEF DnsInv, ServerInv, TableOK
    <3> QED
      BY <3>1, <3>2, <3>3, <3>4
  <2>3. handler \in [Handlers -> QueryType]
    BY DEF DnsInv, ServerInv, QueryOK
  <2>4. \A h \in Handlers : \A t \in {handler[h].at, handler[h].now, handler[h].used} : t <= Now
    BY DEF DnsInv, ServerInv, QueryOK
  <2>5. command \in [Commands -> CommandType] /\ \A p \in Commands : command[p].at <= Now
    BY DEF DnsInv, CommandInv, CommandOK
  <2>6. missed \in BOOLEAN /\ server \in {"off", "loaded", "up"}
    BY DEF DnsInv, ServerInv, TableOK
  <2> QED
    BY <2>1, <2>2, <2>3, <2>4, <2>5, <2>6 DEF DnsTypeOK, SystemOK
<1> QED
  BY <1>1, DnsInitial, DnsStep, SystemInitial, SystemStep, PTL DEF DnsSpec

\* Every reply is what the most specific entries of one version of the hosts
\* file say, and upstream is asked for no other name, for every table and name
\* (hosts.rs, lookup(); server.rs, handle()).
THEOREM RepliesFollowTable == DnsSpec => []AnswersFollowTable
<1>1. DnsInv => AnswersFollowTable
  BY DEF DnsInv, ServerInv, QueryOK, FollowsTable, AnswersFollowTable
<1> QED
  BY <1>1, DnsInitial, DnsStep, PTL DEF DnsSpec

\* No query is answered from a table that is older than the query, but after a
\* text that did not parse and for the edit that bind() missed, however queries,
\* edits and restarts interleave (server.rs, refresh()).
THEOREM QueriesSeeEdits == DnsSpec => []EditsTakeEffect
<1>1. DnsInv => EditsTakeEffect
  BY DEF DnsInv, ServerInv, QueryOK, EditsTakeEffect, Handling
<1> QED
  BY <1>1, DnsInitial, DnsStep, PTL DEF DnsSpec

\* Nothing is routed to a resolver whose job is not installed, wherever any
\* number of commands stop and however they overlap, as long as none of them
\* routes while another one turns overrides off (dns.rs, apply(), disable()).
THEOREM RoutedToAResolver == DnsSpec => []RoutesHaveAResolver
<1>1. InstalledInv => RoutesHaveAResolver
  BY DEF InstalledInv, RoutesHaveAResolver, RoutedMeansInstalled
<1>2. DnsInv /\ SystemOK /\ InstalledInv /\ [DnsNext]_dnsVars => InstalledInv'
  BY InstalledStep
<1> QED
  BY <1>1, <1>2, DnsInitial, DnsStep, SystemInitial, SystemStep, InstalledInitial, PTL DEF DnsSpec

\* As long as commands run one after the other, one that ends well leaves exactly
\* the domains of the table routed, but for those with someone else's file, for
\* every table (dns.rs, reconcile(); resolver.rs, sync()).
THEOREM RoutedIsTheTable == DnsSpec => []RoutesFollowTable
<1>1. DnsInv /\ RoutedInv => RoutesFollowTable
  <2> SUFFICES ASSUME DnsInv, RoutedInv, ~overlapped, NEW p \in Commands,
                      Doing(p, "ok"), plist, command[p].at = Now
               PROVE  Ours = {d \in RoutedDomains(File) : routes[d] # "foreign"}
    BY DEF RoutesFollowTable
  <2>1. Now # 0
    BY DEF DnsInv, VersionsOK
  <2>2. command[p].wanted = RoutedDomains(File)
    BY <2>1 DEF DnsInv, CommandInv, CommandOK, File
  <2> QED
    BY <2>1, <2>2 DEF RoutedInv, Doing
<1>2. DnsInv /\ SystemOK /\ RoutedInv /\ [DnsNext]_dnsVars => RoutedInv'
  BY RoutedStep
<1> QED
  BY <1>1, <1>2, DnsInitial, DnsStep, SystemInitial, SystemStep, RoutedInitial, PTL DEF DnsSpec
=============================================================================
