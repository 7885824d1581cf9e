------------------------------- MODULE Agent -------------------------------
(***************************************************************************)
(* The endpoint agent: the commands of the wsl tool, which the desktop app *)
(* runs too, over the agent's files and the tunnel interface. Every        *)
(* command is a process: it loads the agent's state when it starts, works  *)
(* on its own copy, and saves the whole of it. Nothing keeps two commands  *)
(* from running at once.                                                   *)
(*                                                                         *)
(* A command may stop after any of its steps: the step fails (no network,  *)
(* a refusal, a cancelled dialog, a full disk), or the process is killed.  *)
(* A process killed while it saves leaves a file that cannot be read.      *)
(*                                                                         *)
(* Whether a user can tell that the interface is up depends on the system  *)
(* (see Seen). Two configs are taken to have different addresses; where    *)
(* they share one, the interface is seen, as where it can be named.        *)
(*                                                                         *)
(* Simplifications: a token is the control plane that issued it; session   *)
(* and wireguard, which are always set together, are one field; the text   *)
(* of a profile is its name; the file of a profile from before profiles    *)
(* were a list is left out. Signing in is in SignIn, the session that the  *)
(* control plane makes in Sessions.                                        *)
(***************************************************************************)
EXTENDS Integers, FiniteSets, Sequences

CONSTANTS
  Procs,          \* commands that may run at once
  Urls,           \* control planes
  Profiles,       \* names of WireGuard configs
  MaxCommands,    \* how many commands are run
  MaxSessions,    \* how many sessions are made
  MaxKeys,        \* how many key pairs are generated
  None, Torn

ASSUME AgentAssumption ==
  /\ MaxCommands \in Nat /\ MaxSessions \in Nat /\ MaxKeys \in Nat \ {0}
  /\ None \notin Urls \cup Profiles
  /\ None \notin [url : Urls, key : 1 .. MaxKeys] \cup [url : Urls, id : 1 .. MaxSessions]

VARIABLES
  disk,       \* agent-state.json
  files,      \* profiles/: the names of the stored configs
  conf,       \* wsl.conf, the config of the interface
  key,        \* keys/wg.private
  tunnel,     \* the config the interface was brought up from
  sessions,   \* how many sessions were made
  keys,       \* how many key pairs were generated
  released,   \* the sessions that were released after their tunnel was down
  proc,       \* the commands that run
  commands,   \* how many were started
  overlap,    \* whether two ever ran at once
  cut,        \* whether a removal of a profile was cut short
  last,       \* how the last command ended
  named       \* whether a user may read which interface is wsl's

vars == <<disk, files, conf, key, tunnel, sessions, keys, released, proc,
          commands, overlap, cut, last, named>>

State == [url : Urls, token : Urls \cup {None},
          device : [url : Urls, key : 1 .. MaxKeys] \cup {None},
          session : [url : Urls, id : 1 .. MaxSessions] \cup {None},
          profile : Profiles \cup {None}, profiles : SUBSET Profiles]

\* What validate() makes of a text that is imported: hooks, unknown settings and
\* missing ones are refused.
Text == {"valid", "refused"}

ProfileCommand ==
  [name : {"import"}, profile : Profiles, text : Text]
    \cup [name : {"use", "remove"}, profile : Profiles]
    \cup [name : {"useNone", "list"}]
Connect == [name : {"connect"}, profile : Profiles \cup {None}, tunnel : BOOLEAN]
Disconnect == [name : {"disconnect"}, tunnel : BOOLEAN]
Command == [name : {"login", "logout"}] \cup [name : {"url"}, url : Urls]
             \cup ProfileCommand \cup Connect \cup Disconnect

Conf == [profile : Profiles] \cup [id : 1 .. MaxSessions, key : 0 .. MaxKeys]

Blank(u) == [url |-> u, token |-> None, device |-> None, session |-> None,
             profile |-> None, profiles |-> {}]

Idle == [pc |-> "idle", cmd |-> None, mem |-> None, own |-> 0, then |-> "idle"]

\* A new installation, or one that is signed in and has registered its device.
Init ==
  /\ \/ \E u \in Urls : disk = Blank(u) /\ key = 0 /\ keys = 0
     \/ \E u \in Urls :
          /\ disk = [Blank(u) EXCEPT !.token = u, !.device = [url |-> u, key |-> 1]]
          /\ key = 1 /\ keys = 1
  /\ files = {}
  /\ conf = None
  /\ tunnel = None
  /\ sessions = 0
  /\ released = {}
  /\ proc = [p \in Procs |-> Idle]
  /\ commands = 0
  /\ overlap = FALSE
  /\ cut = FALSE
  /\ last = "none"
  /\ named \in BOOLEAN

-----------------------------------------------------------------------------
(* A command's own copy of the state, and its way through the program.     *)

At(p, pc) == proc[p].pc = pc
Cmd(p) == proc[p].cmd
Mem(p) == proc[p].mem

Go(p, pc) == proc' = [proc EXCEPT ![p].pc = pc]

\* The state is changed in memory, to be saved next.
SaveThen(p, mem, then) ==
  proc' = [proc EXCEPT ![p].pc = "save", ![p].mem = mem, ![p].then = then]

End(p, how) ==
  /\ proc' = [proc EXCEPT ![p] = Idle]
  /\ last' = how

Mode(st) == IF st.profile # None THEN "direct"
            ELSE IF st.token # None THEN "managed" ELSE "signedOut"

\* logout() forgets who is signed in, and the session.
LoggedOut(st) == [st EXCEPT !.token = None, !.session = None]

\* Mutant: another control plane keeps the token.
AtUrlKeepsToken(st, u) ==
  IF u = st.url THEN st
  ELSE [st EXCEPT !.url = u, !.device = None, !.session = None]

\* set_control_url: another control plane is another registration.
AtUrl(st, u) ==
  IF u = st.url THEN st
  ELSE [st EXCEPT !.url = u, !.token = None, !.device = None, !.session = None]

-----------------------------------------------------------------------------
(* Starting a command.                                                     *)

\* A front end runs `wsl`, which loads the state. The desktop app runs commands
\* of its own, whatever runs in a terminal.
Begin(p, c, pc, mem, then) ==
  /\ At(p, "idle")
  /\ commands < MaxCommands
  /\ disk # Torn
  /\ commands' = commands + 1
  /\ overlap' = (overlap \/ \E q \in Procs : ~At(q, "idle"))
  /\ last' = "none"
  /\ proc' = [proc EXCEPT ![p] = [pc |-> pc, cmd |-> c, mem |-> mem, own |-> 0,
                                  then |-> then]]
  /\ UNCHANGED <<disk, files, conf, key, tunnel, sessions, keys, released, cut,
                 named>>

StartLogin(p) == Begin(p, [name |-> "login"], "auth", disk, "idle")

StartLogout(p) == Begin(p, [name |-> "logout"], "save", LoggedOut(disk), "idle")

StartUrl(p, u) == Begin(p, [name |-> "url", url |-> u], "save", AtUrl(disk, u), "idle")

\* `profile list` saves the state, too; `profile use` picks one that is listed.
StartProfile(p, c) ==
  CASE c.name \in {"import", "remove"} -> Begin(p, c, c.name, disk, "idle")
    [] c.name = "list" -> Begin(p, c, "save", disk, "idle")
    [] c.name = "useNone" -> Begin(p, c, "save", [disk EXCEPT !.profile = None], "idle")
    [] c.name = "use" -> /\ disk # Torn /\ c.profile \in disk.profiles
                         /\ Begin(p, c, "save", [disk EXCEPT !.profile = c.profile], "idle")

\* connect, with a profile that is chosen now, with the one in use, or with the
\* control plane. Without a tunnel there is nothing to do for a profile.
StartConnect(p, c) ==
  /\ disk # Torn
  /\ \/ /\ c.profile # None /\ c.profile \in disk.profiles
        /\ Begin(p, c, "save", [disk EXCEPT !.profile = c.profile], "copy")
     \/ /\ c.profile = None /\ Mode(disk) = "direct" /\ c.tunnel
        /\ Begin(p, c, "copy", disk, "idle")
     \/ /\ c.profile = None /\ Mode(disk) # "direct"
        /\ Begin(p, c, "device", disk, "session")

StartDisconnect(p, c) ==
  /\ disk # Torn
  /\ Begin(p, c, IF Mode(disk) = "direct" \/ c.tunnel THEN "down" ELSE "release", disk, "idle")

\* save(): the file becomes this process's copy, whatever it held.
Save(p) ==
  /\ At(p, "save")
  /\ disk' = Mem(p)
  /\ IF proc[p].then = "idle"
     THEN End(p, IF Cmd(p).name # "disconnect" THEN "done"
                 ELSE IF Cmd(p).tunnel THEN "disconnected" ELSE "released")
     ELSE Go(p, proc[p].then) /\ UNCHANGED last
  /\ UNCHANGED <<files, conf, key, tunnel, sessions, keys, released, commands,
                 overlap, cut, named>>

\* A command stops: an error, or the process is killed.
Stop(p) ==
  /\ ~At(p, "idle")
  /\ End(p, "failed")
  /\ disk' \in IF At(p, "save") THEN {disk, Torn} ELSE {disk}
  /\ cut' = (cut \/ (At(p, "save") /\ Cmd(p).name = "remove"))
  /\ UNCHANGED <<files, conf, key, tunnel, sessions, keys, released, commands,
                 overlap, named>>

-----------------------------------------------------------------------------
(* Signing in, and registering the device.                                 *)

\* login(), opsapi_login(), dev_login(): the control plane issued a token.
Authenticate(p) ==
  /\ At(p, "auth")
  /\ SaveThen(p, [Mem(p) EXCEPT !.token = Mem(p).url], "device")
  /\ UNCHANGED <<disk, files, conf, key, tunnel, sessions, keys, released, commands,
                 overlap, cut, last, named>>

AfterDevice(p) == IF Cmd(p).name = "login" THEN "idle" ELSE "session"

\* ensure_device(): the device is registered already.
KnownDevice(p) ==
  /\ At(p, "device")
  /\ Mem(p).device # None
  /\ IF Cmd(p).name = "login" THEN End(p, "done") ELSE Go(p, "session") /\ UNCHANGED last
  /\ UNCHANGED <<disk, files, conf, key, tunnel, sessions, keys, released, commands,
                 overlap, cut, named>>

\* Mutant: the key is generated again for a registered device.
StoreKeyAlways(p) ==
  /\ At(p, "device")
  /\ keys < MaxKeys
  /\ keys' = keys + 1
  /\ key' = keys + 1
  /\ proc' = [proc EXCEPT ![p].pc = "register", ![p].own = keys + 1]
  /\ UNCHANGED <<disk, files, conf, tunnel, sessions, released, commands, overlap,
                 cut, last, named>>

\* ensure_device(): a new key pair; the private key is stored first.
StoreKey(p) ==
  /\ At(p, "device")
  /\ Mem(p).device = None
  /\ keys < MaxKeys
  /\ keys' = keys + 1
  /\ key' = keys + 1
  /\ proc' = [proc EXCEPT ![p].pc = "register", ![p].own = keys + 1]
  /\ UNCHANGED <<disk, files, conf, tunnel, sessions, released, commands, overlap,
                 cut, last, named>>

\* ensure_device(): the control plane knows the public key.
Register(p) ==
  /\ At(p, "register")
  /\ Mem(p).token # None
  /\ SaveThen(p, [Mem(p) EXCEPT !.device = [url |-> Mem(p).url, key |-> proc[p].own]],
              AfterDevice(p))
  /\ UNCHANGED <<disk, files, conf, key, tunnel, sessions, keys, released, commands,
                 overlap, cut, last, named>>

-----------------------------------------------------------------------------
(* Connecting.                                                             *)

\* connect(): the control plane makes a session. When its answer is lost, the
\* command stops and the session is nobody's.
CreateSession(p) ==
  /\ At(p, "session")
  /\ Mem(p).token # None
  /\ sessions < MaxSessions
  /\ sessions' = sessions + 1
  /\ \/ SaveThen(p, [Mem(p) EXCEPT !.session = [url |-> Mem(p).url, id |-> sessions + 1]],
                 "render") /\ UNCHANGED last
     \/ End(p, "failed")
  /\ UNCHANGED <<disk, files, conf, key, tunnel, keys, released, commands, overlap,
                 cut, named>>

\* Mutant: a config that is there already is kept.
WriteConfigOnce(p) ==
  /\ At(p, "render")
  /\ conf' = IF conf = None THEN [id |-> Mem(p).session.id, key |-> key] ELSE conf
  /\ IF Cmd(p).tunnel THEN Go(p, "up") /\ UNCHANGED last ELSE End(p, "created")
  /\ UNCHANGED <<disk, files, key, tunnel, sessions, keys, released, commands,
                 overlap, cut, named>>

\* write_wg_config(): the session's config, with the stored private key.
WriteConfig(p) ==
  /\ At(p, "render")
  /\ key # 0
  /\ conf' = [id |-> Mem(p).session.id, key |-> key]
  /\ IF Cmd(p).tunnel THEN Go(p, "up") /\ UNCHANGED last ELSE End(p, "created")
  /\ UNCHANGED <<disk, files, key, tunnel, sessions, keys, released, commands,
                 overlap, cut, named>>

\* profile::connect(): the stored config becomes that of the interface. Asked
\* to leave the interface alone, a command that chose a profile stops here.
CopyProfile(p) ==
  /\ At(p, "copy")
  /\ Cmd(p).tunnel
  /\ Mem(p).profile \in files
  /\ conf' = [profile |-> Mem(p).profile]
  /\ Go(p, "up")
  /\ UNCHANGED <<disk, files, key, tunnel, sessions, keys, released, commands,
                 overlap, cut, last, named>>

\* tunnel::state(), asked without privilege. Current wg-quick on macOS keeps the
\* interface's name from users; there it is recognised by the address in wsl.conf
\* as it is now, so an interface that was brought up from another config is not.
Seen == tunnel # None /\ (named \/ tunnel = conf)

\* What is run with privilege: an interface that is seen to be up is taken down
\* first, in the same run.
Steps(p) ==
  IF At(p, "up") THEN IF Seen THEN <<"down", "up">> ELSE <<"up">>
  ELSE IF Seen THEN <<"down">> ELSE << >>

\* The steps are joined with &&, so that a failure stops the rest: the interface
\* after the first n of them.
After(p, n) == IF n = 0 THEN tunnel
               ELSE IF Steps(p)[n] = "up" THEN conf ELSE None

\* wg-quick is not there, nobody can be asked for administrator rights, or they
\* are not granted.
NoPrivilege(p) ==
  /\ proc[p].pc \in {"up", "down"}
  /\ Steps(p) # << >>
  /\ End(p, "failed")
  /\ UNCHANGED <<disk, files, conf, key, tunnel, sessions, keys, released, commands,
                 overlap, cut, named>>

\* run_privileged(): one of the steps fails.
RunFails(p) ==
  /\ proc[p].pc \in {"up", "down"}
  /\ \E n \in 0 .. (Len(Steps(p)) - 1) : tunnel' = After(p, n)
  /\ End(p, "failed")
  /\ UNCHANGED <<disk, files, conf, key, sessions, keys, released, commands,
                 overlap, cut, named>>

\* tunnel::up(). Over an interface that is up and not seen, wg-quick fails.
Up(p) ==
  /\ At(p, "up")
  /\ tunnel # None => Seen
  /\ tunnel' = After(p, Len(Steps(p)))
  /\ End(p, "connected")
  /\ UNCHANGED <<disk, files, conf, key, sessions, keys, released, commands,
                 overlap, cut, named>>

-----------------------------------------------------------------------------
(* Disconnecting.                                                          *)

\* Mutant: the session is released though the interface is still up.
DownRegardless(p) ==
  /\ At(p, "down")
  /\ tunnel' \in {None, tunnel}
  /\ IF Mode(Mem(p)) = "direct" THEN End(p, "down") ELSE Go(p, "release") /\ UNCHANGED last
  /\ UNCHANGED <<disk, files, conf, key, sessions, keys, released, commands,
                 overlap, cut, named>>

\* tunnel::down(): an interface that seems down is no error.
Down(p) ==
  /\ At(p, "down")
  /\ tunnel' = After(p, Len(Steps(p)))
  /\ IF Mode(Mem(p)) = "direct" THEN End(p, "down") ELSE Go(p, "release") /\ UNCHANGED last
  /\ UNCHANGED <<disk, files, conf, key, sessions, keys, released, commands,
                 overlap, cut, named>>

\* disconnect(): the session is released, whether the control plane hears of it
\* or not, and forgotten.
Release(p) ==
  /\ At(p, "release")
  /\ Mem(p).session # None => Mem(p).token # None
  /\ released' = IF Mem(p).session # None /\ Cmd(p).tunnel
                 THEN released \cup {Mem(p).session.id} ELSE released
  /\ SaveThen(p, [Mem(p) EXCEPT !.session = None], "idle")
  /\ UNCHANGED <<disk, files, conf, key, tunnel, sessions, keys, commands, overlap,
                 cut, last, named>>

-----------------------------------------------------------------------------
(* WireGuard profiles.                                                     *)

\* import(): a valid config is stored. The first becomes the one in use.
Import(p) ==
  LET x == Cmd(p).profile
      listed == [Mem(p) EXCEPT !.profiles = @ \cup {x}]
  IN
  /\ At(p, "import")
  /\ Cmd(p).text = "valid"
  /\ files' = files \cup {x}
  /\ SaveThen(p, IF Mem(p).profile = None THEN [listed EXCEPT !.profile = x] ELSE listed, "idle")
  /\ UNCHANGED <<disk, conf, key, tunnel, sessions, keys, released, commands,
                 overlap, cut, last, named>>

\* What is left when x is removed: another one is used if x was.
Unlisted(st, x) ==
  LET left == [st EXCEPT !.profiles = @ \ {x}]
  IN  IF st.profile # x THEN {left}
      ELSE IF left.profiles = {} THEN {[left EXCEPT !.profile = None]}
      ELSE {[left EXCEPT !.profile = y] : y \in left.profiles}

\* remove(): refused while the tunnel is up from it. The file goes first.
RemoveIn(p) ==
  LET x == Cmd(p).profile IN
  /\ At(p, "remove")
  /\ ~(Mem(p).profile = x /\ Seen /\ Mem(p).session = None)
  /\ x \in Mem(p).profiles \cup {Mem(p).profile}
  /\ files' = files \ {x}
  /\ \E st \in Unlisted(Mem(p), x) : SaveThen(p, st, "idle")
  /\ UNCHANGED <<disk, conf, key, tunnel, sessions, keys, released, commands,
                 overlap, cut, last, named>>

-----------------------------------------------------------------------------
Next ==
  \E p \in Procs :
    \/ StartLogin(p) \/ StartLogout(p) \/ (\E u \in Urls : StartUrl(p, u))
    \/ \E c \in ProfileCommand : StartProfile(p, c)
    \/ \E c \in Connect : StartConnect(p, c)
    \/ \E c \in Disconnect : StartDisconnect(p, c)
    \/ Save(p) \/ Stop(p)
    \/ Authenticate(p) \/ KnownDevice(p) \/ StoreKey(p) \/ Register(p)
    \/ CreateSession(p) \/ WriteConfig(p) \/ CopyProfile(p)
    \/ NoPrivilege(p) \/ RunFails(p) \/ Up(p) \/ Down(p) \/ Release(p)
    \/ Import(p) \/ RemoveIn(p)

Spec == Init /\ [][Next]_vars

-----------------------------------------------------------------------------
(* Properties.                                                             *)

Proc ==
  [pc : {"idle", "save", "auth", "device", "register", "session", "render", "copy", "up",
         "down", "release", "import", "remove"},
   cmd : Command \cup {None}, mem : State \cup {None}, own : 0 .. MaxKeys,
   then : {"idle", "device", "session", "render", "copy"}]

\* Files, sessions and keys keep their shape, and a command works on a state.
TypeOK ==
  /\ disk \in State \cup {Torn}
  /\ files \subseteq Profiles
  /\ conf \in Conf \cup {None}
  /\ tunnel \in Conf \cup {None}
  /\ key \in 0 .. MaxKeys /\ keys \in 0 .. MaxKeys
  /\ sessions \in 0 .. MaxSessions
  /\ released \subseteq 1 .. MaxSessions
  /\ proc \in [Procs -> Proc]
  /\ \A p \in Procs : At(p, "idle") \/ (Cmd(p) \in Command /\ Mem(p) \in State)
  /\ commands \in 0 .. MaxCommands
  /\ overlap \in BOOLEAN /\ cut \in BOOLEAN /\ named \in BOOLEAN

Quiet == \A p \in Procs : At(p, "idle")

\* "A token and device registration from one control plane mean nothing to
\* another": however commands overlap and whichever of them saves last, no state
\* that is saved or in use sends a token, a device or a session to a control
\* plane it is not from (set_control_url).
CredentialsStayHome ==
  LET AtHome(st) == /\ st.token \in {None, st.url}
                    /\ st.device # None => st.device.url = st.url
                    /\ st.session # None => st.session.url = st.url /\ st.token # None
  IN  /\ disk # Torn => AtHome(disk)
      /\ \A p \in Procs : ~At(p, "idle") => AtHome(Mem(p))

\* What the state names is on disk, wherever a command stopped, as long as
\* commands do not overlap: the stored private key is that of the registered
\* device, and every profile has its config, unless a removal was cut short
\* between the file and the state (ensure_device, import_in, remove_in).
StateHasItsFiles ==
  ~overlap /\ Quiet /\ disk # Torn =>
    /\ disk.device # None => key = disk.device.key
    /\ ~cut => /\ disk.profile # None => disk.profile \in disk.profiles
               /\ disk.profiles \subseteq files

\* What a command reports is so, also after earlier ones stopped half way. When
\* connect reports success, the interface runs the profile in use, or the
\* session in the state with the registered device's key, and not what an
\* earlier command left behind (connect_and_bring_up, profile::connect). When
\* disconnect does, the session is forgotten and no interface is up; on a macOS
\* that hides the interface's name, none that wsl.conf describes (disconnect).
ReportsAreTrue ==
  ~overlap =>
    /\ last = "connected" =>
         IF disk.profile # None THEN tunnel = [profile |-> disk.profile]
         ELSE /\ disk.session # None
              /\ tunnel = [id |-> disk.session.id, key |-> disk.device.key]
    /\ last = "disconnected" => disk.session = None /\ ~Seen

\* No interface is ever up on a session that was released by taking its tunnel
\* down, whatever stopped where and whatever was run since, where the interface
\* can be named: it would be "up and pointed at a gateway that has already
\* dropped the peer" (disconnect_and_tear_down).
NoTunnelOnReleased ==
  ~overlap /\ named /\ tunnel # None /\ "id" \in DOMAIN tunnel => tunnel.id \notin released
=============================================================================
