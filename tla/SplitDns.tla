------------------------------ MODULE SplitDns ------------------------------
(***************************************************************************)
(* Split DNS on macOS: the hosts file of overrides, the resolver that      *)
(* answers from it (wsl-dns server.rs), launchd, which keeps the resolver  *)
(* running, the files under /etc/resolver that route domains to it         *)
(* (resolver.rs), and the `wsl dns` commands that keep these together      *)
(* (wsl-agent dns.rs). A command may stop after any of its steps: a step   *)
(* fails, the password dialog is cancelled, the process is killed; the     *)
(* resolver may die, and the machine may restart, at any time.             *)
(*                                                                         *)
(* The file is the last of its versions, and its position stands for the   *)
(* modification time. The file may also be edited by hand, which can leave *)
(* a text that does not parse. The UDP and the TCP listener hand their     *)
(* queries to the same handler, and are not told apart.                    *)
(***************************************************************************)
EXTENDS Overrides, FiniteSets

CONSTANTS
  Commands,     \* commands that may run at once
  Handlers,     \* queries that are handled at once
  Questions,    \* the well-formed questions asked: [name, qtype]
  Edits,        \* the entries that are set and removed
  HandEdits,    \* the tables an editor may leave
  Foreign,      \* the domains something else has a file for
  MaxVersions,  \* how many versions the file has at most
  MaxFailures,  \* how often the resolver dies or the machine restarts
  Labels,       \* what names are made of
  Nothing, Typo

Entries == Edits \cup UNION HandEdits
Tables == SUBSET Entries
Domains == RoutedDomains(Entries)

ASSUME SplitDnsAssumption ==
  /\ MaxVersions \in Nat \ {0} /\ MaxFailures \in Nat
  /\ \A e \in Entries :
       /\ e = [domain |-> e.domain, wild |-> e.wild, address |-> e.address]
       /\ e.domain \in Seq(Labels) /\ e.wild \in BOOLEAN /\ Valid(e)
  /\ \A q \in Questions : q.name \in Seq(Labels)
  /\ Nothing \notin Questions /\ \A t \in Tables : t # Typo

VARIABLES
  versions,   \* the texts of the hosts file, the last one being there now
  plist,      \* whether the launchd job is installed
  job,        \* whether launchd has it loaded
  server,     \* the resolver process: "off", "loaded" its table, "up"
  table,      \* its override table, and the version it was read from
  modified,   \* the modification time the table is held under
  missed,     \* whether the file changed between the two readings of bind()
  handler,    \* the queries being handled
  routes,     \* /etc/resolver: whose file routes each domain
  command,    \* the commands that run
  failures,   \* how often something died
  overlapped, \* history: whether two commands ever ran at once
  crossed     \* history: whether one of them turned overrides off, one did not

served == <<server, table, modified, missed, handler>>
overlaps == <<overlapped, crossed>>
dnsVars == <<versions, plist, job, served, routes, command, failures, overlaps>>

Now == Len(versions)
File == versions[Now]
Parses == File # Typo

Ours == {d \in Domains : routes[d] = "ours"}

NoQuery == [pc |-> "idle", q |-> Nothing, at |-> 0, now |-> 0, used |-> 0,
            reply |-> Nothing]
Resting == [pc |-> "idle", op |-> Nothing, table |-> {}, at |-> 0, wanted |-> {}]

\* The empty table of version 1 stands for a file that does not exist.
DnsInit ==
  /\ versions = <<{}>>
  /\ plist = FALSE /\ job = FALSE
  /\ server = "off" /\ table = [entries |-> {}, of |-> 0]
  /\ modified = 0 /\ missed = FALSE
  /\ handler = [h \in Handlers |-> NoQuery]
  /\ routes = [d \in Domains |-> IF d \in Foreign THEN "foreign" ELSE "none"]
  /\ command = [p \in Commands |-> Resting]
  /\ failures = 0 /\ overlapped = FALSE /\ crossed = FALSE

\* The process ends, and the queries it was handling with it.
Gone ==
  /\ server' = "off"
  /\ missed' = FALSE
  /\ handler' = [h \in Handlers |-> NoQuery]
  /\ UNCHANGED <<table, modified>>

-----------------------------------------------------------------------------
(* The resolver process.                                                   *)

\* Mutant: a hosts file that does not exist is an error.
BindLoadNeedsFile ==
  /\ job /\ server = "off"
  /\ Parses /\ Now > 1
  /\ server' = "loaded"
  /\ table' = [entries |-> File, of |-> Now]
  /\ UNCHANGED <<versions, plist, job, modified, missed, handler, routes, command, failures, overlaps>>

\* bind(): the table is loaded. A text that does not parse ends the process,
\* as a port that something else holds does before it, and launchd starts it
\* again.
BindLoad ==
  /\ job /\ server = "off"
  /\ Parses
  /\ server' = "loaded"
  /\ table' = [entries |-> File, of |-> Now]
  /\ UNCHANGED <<versions, plist, job, modified, missed, handler, routes, command, failures, overlaps>>

\* bind(): the modification time is read after it; run() serves.
BindStat ==
  /\ server = "loaded"
  /\ server' = "up"
  /\ modified' = Now
  /\ missed' = (table.of # Now)
  /\ UNCHANGED <<versions, plist, job, table, handler, routes, command, failures, overlaps>>

Die ==
  /\ server # "off" /\ failures < MaxFailures
  /\ failures' = failures + 1
  /\ Gone
  /\ UNCHANGED <<versions, plist, job, routes, command, overlaps>>

\* The machine restarts, and at login launchd loads what is installed.
Restart ==
  /\ failures < MaxFailures
  /\ failures' = failures + 1
  /\ job' = plist
  /\ Gone
  /\ command' = [p \in Commands |-> Resting]
  /\ UNCHANGED <<versions, plist, routes, overlaps>>

Handling(h, pc) == server = "up" /\ handler[h].pc = pc

\* handle(): a datagram that is no query we can answer.
ReceiveOther(h, kind) ==
  /\ server = "up" /\ handler[h].pc \in {"idle", "done"}
  /\ handler' = [handler EXCEPT ![h] =
       [NoQuery EXCEPT !.pc = "done", !.reply = [from |-> ParseError(kind)]]]
  /\ UNCHANGED <<versions, plist, job, server, table, modified, missed, routes, command, failures, overlaps>>

Receive(h, q) ==
  /\ server = "up" /\ handler[h].pc \in {"idle", "done"}
  /\ handler' = [handler EXCEPT ![h] = [NoQuery EXCEPT !.pc = "stat", !.q = q, !.at = Now]]
  /\ UNCHANGED <<versions, plist, job, server, table, modified, missed, routes, command, failures, overlaps>>

\* refresh(): the modification time of the file is read.
Stat(h) ==
  /\ Handling(h, "stat")
  /\ handler' = [handler EXCEPT ![h].pc = "refresh", ![h].now = Now]
  /\ UNCHANGED <<versions, plist, job, server, table, modified, missed, routes, command, failures, overlaps>>

\* Mutant: the time is noted, and the table is read by nobody.
RefreshNotes(h) ==
  /\ Handling(h, "refresh")
  /\ handler' = [handler EXCEPT ![h].pc = "lookup"]
  /\ modified' = handler[h].now
  /\ UNCHANGED <<versions, plist, job, server, table, missed, routes, command, failures, overlaps>>

\* refresh(): a table held under another time is read again, under the lock.
\* A text that does not parse keeps the previous table, under the new time.
Refresh(h) ==
  /\ Handling(h, "refresh")
  /\ handler' = [handler EXCEPT ![h].pc = "lookup"]
  /\ IF modified = handler[h].now
     THEN UNCHANGED <<table, modified, missed>>
     ELSE /\ modified' = handler[h].now
          /\ IF Parses
             THEN table' = [entries |-> File, of |-> Now] /\ missed' = FALSE
             ELSE UNCHANGED <<table, missed>>
  /\ UNCHANGED <<versions, plist, job, server, routes, command, failures, overlaps>>

\* Mutant: a name without an address of the asked family is forwarded.
LookUpForwards(h) ==
  /\ Handling(h, "lookup")
  /\ LET found == Answer(Lookup(table.entries, handler[h].q.name), handler[h].q.qtype)
     IN  handler' = [handler EXCEPT
           ![h].at = 0, ![h].now = 0, ![h].used = table.of,
           ![h].pc = IF found = {} THEN "forward" ELSE "done",
           ![h].reply = IF found = {} THEN Nothing
                        ELSE [from |-> "override", addresses |-> found]]
  /\ UNCHANGED <<versions, plist, job, server, table, modified, missed, routes, command, failures, overlaps>>

\* An overridden name is answered from the table alone.
LookUp(h) ==
  /\ Handling(h, "lookup")
  /\ LET found == Lookup(table.entries, handler[h].q.name)
     IN  handler' = [handler EXCEPT
           ![h].at = 0, ![h].now = 0, ![h].used = table.of,
           ![h].pc = IF found = {} THEN "forward" ELSE "done",
           ![h].reply = IF found = {} THEN Nothing
                        ELSE [from |-> "override",
                              addresses |-> Answer(found, handler[h].q.qtype)]]
  /\ UNCHANGED <<versions, plist, job, server, table, modified, missed, routes, command, failures, overlaps>>

\* Any other is forwarded, to each upstream in turn but this resolver itself;
\* when none answers in time the reply is an error.
Forward(h) ==
  /\ Handling(h, "forward")
  /\ \E from \in {"upstream", "servfail"} :
       handler' = [handler EXCEPT ![h] = [NoQuery EXCEPT !.pc = "done", !.reply = [from |-> from]]]
  /\ UNCHANGED <<versions, plist, job, server, table, modified, missed, routes, command, failures, overlaps>>

-----------------------------------------------------------------------------
(* The hosts file and the commands.                                        *)

Write(text) == Now < MaxVersions /\ versions' = Append(versions, text)

HandEdit ==
  /\ \E text \in HandEdits \cup {Typo} : text # File /\ Write(text)
  /\ UNCHANGED <<plist, job, served, routes, command, failures, overlaps>>

Doing(p, pc) == command[p].pc = pc
Then(p, pc) == command' = [command EXCEPT ![p].pc = pc]
Keep == UNCHANGED <<versions, plist, job, served, routes, failures, overlaps>>

Op == [name : {"set", "remove"}, entry : Edits] \cup [name : {"apply", "disable"}]

UnderWay(q) == command[q].pc \notin {"idle", "ok"}

\* The outcome of a command stands until another one starts.
Outdated == [q \in Commands |-> IF Doing(q, "ok") THEN Resting ELSE command[q]]

\* A command starts, and loads the table; removing what is not there is
\* refused. Turning overrides off does not read the file. Nothing keeps it
\* from running beside another one.
Start(p, op) ==
  /\ ~UnderWay(p)
  /\ op.name # "disable" => Parses
  /\ op.name = "remove" => Records(File, op.entry.domain, op.entry.wild) # {}
  /\ command' = [Outdated EXCEPT ![p] =
       CASE op.name = "disable" -> [Resting EXCEPT !.op = op, !.pc = "unroute"]
         [] op.name = "apply" -> [Resting EXCEPT !.op = op, !.pc = "start", !.at = Now,
                                                 !.wanted = RoutedDomains(File)]
         [] OTHER -> [Resting EXCEPT !.op = op, !.pc = "save", !.table = File]]
  /\ overlapped' = (overlapped \/ \E q \in Commands : UnderWay(q))
  /\ crossed' = (crossed \/ \E q \in Commands :
       UnderWay(q) /\ ((op.name = "disable") # (command[q].op.name = "disable")))
  /\ UNCHANGED <<versions, plist, job, served, routes, failures>>

\* A command stops, by itself or not.
Cancel(p) ==
  /\ UnderWay(p)
  /\ command' = [command EXCEPT ![p] = Resting]
  /\ Keep

\* save(): the file is replaced by a rename.
SaveHosts(p) ==
  /\ Doing(p, "save")
  /\ LET e == command[p].op.entry
     IN  Write(IF command[p].op.name = "set" THEN With(command[p].table, e)
               ELSE Without(command[p].table, e.domain, e.wild))
  /\ command' = [command EXCEPT ![p] = [Resting EXCEPT !.pc = "reconcile", !.op = [name |-> "reconcile"]]]
  /\ UNCHANGED <<plist, job, served, routes, failures, overlaps>>

\* Mutant: nothing is done when the domains of the table are all routed.
ReconcileAdded(p) ==
  /\ Doing(p, "reconcile")
  /\ IF ~plist
     THEN Then(p, "ok")
     ELSE /\ Parses
          /\ command' = [command EXCEPT ![p].at = Now, ![p].wanted = RoutedDomains(File),
                 ![p].pc = IF RoutedDomains(File) \subseteq Ours THEN "ok" ELSE "start"]
  /\ Keep

\* reconcile(): only when overrides are on, and only when the domains that
\* are routed are not those of the table.
Reconcile(p) ==
  /\ Doing(p, "reconcile")
  /\ IF ~plist
     THEN Then(p, "ok")
     ELSE /\ Parses
          /\ command' = [command EXCEPT ![p].at = Now, ![p].wanted = RoutedDomains(File),
                 ![p].pc = IF Ours = RoutedDomains(File) THEN "ok" ELSE "start"]
  /\ Keep

Started(p) == IF command[p].op.name = "apply" THEN "compare" ELSE "sync"

\* start(): a job that is installed as it should be, and answers, is left
\* alone. It is written again when it is missing, when the program has moved,
\* and when it does not answer.
StartJob(p) ==
  /\ Doing(p, "start")
  /\ \/ plist /\ server = "up" /\ Then(p, Started(p)) /\ UNCHANGED plist
     \/ plist' = TRUE /\ Then(p, "bootout")
  /\ UNCHANGED <<versions, job, served, routes, failures, overlaps>>

\* The answer of bootout is not looked at: it may have failed, and left the job
\* as it was.
Bootout(p) ==
  /\ command[p].pc \in {"bootout", "stop"}
  /\ \/ job' = FALSE /\ Gone
     \/ job /\ UNCHANGED <<job, served>>
  /\ Then(p, IF Doing(p, "bootout") THEN "bootstrap" ELSE "unlink")
  /\ UNCHANGED <<versions, plist, routes, failures, overlaps>>

\* A job that is still loaded is not loaded again, and the command ends there.
Bootstrap(p) ==
  /\ Doing(p, "bootstrap")
  /\ plist /\ ~job
  /\ job' = TRUE
  /\ Then(p, "probe")
  /\ UNCHANGED <<versions, plist, served, routes, failures, overlaps>>

\* The resolver has thirty tries to answer the probe, which it answers from
\* no table and forwards to nobody.
Probe(p) ==
  /\ Doing(p, "probe") /\ server = "up"
  /\ Then(p, Started(p))
  /\ Keep

\* apply(): the domains are routed unless they already are.
Compare(p) ==
  /\ Doing(p, "compare")
  /\ Then(p, IF Ours = command[p].wanted THEN "ok" ELSE "sync")
  /\ Keep

\* Mutant: turning overrides off stops the resolver first.
UnrouteLast(p) ==
  /\ Doing(p, "unroute")
  /\ Then(p, "stop")
  /\ Keep

\* disable(): everything is unrouted, then the resolver is stopped.
Unroute(p) ==
  /\ Doing(p, "unroute")
  /\ Then(p, IF Ours = {} THEN "stop" ELSE "sync")
  /\ Keep

Unlink(p) ==
  /\ Doing(p, "unlink")
  /\ plist' = FALSE
  /\ Then(p, "ok")
  /\ UNCHANGED <<versions, job, served, routes, failures, overlaps>>

\* sync(), as root: a file for every domain that is wanted, unless something
\* else has one there.
SyncWrite(p, d) ==
  /\ Doing(p, "sync")
  /\ d \in command[p].wanted /\ routes[d] = "none"
  /\ routes' = [routes EXCEPT ![d] = "ours"]
  /\ UNCHANGED <<versions, plist, job, served, command, failures, overlaps>>

ToWrite(p) == {d \in command[p].wanted : routes[d] = "none"}

\* Then our files for domains that are no longer wanted go.
SyncRemove(p, d) ==
  /\ Doing(p, "sync")
  /\ ToWrite(p) = {}
  /\ d \in Ours \ command[p].wanted
  /\ routes' = [routes EXCEPT ![d] = "none"]
  /\ UNCHANGED <<versions, plist, job, served, command, failures, overlaps>>

Synced(p) ==
  /\ Doing(p, "sync")
  /\ ToWrite(p) = {} /\ Ours \subseteq command[p].wanted
  /\ Then(p, IF command[p].op.name = "disable" THEN "stop" ELSE "ok")
  /\ Keep

-----------------------------------------------------------------------------
Serve(h) ==
  \/ \E kind \in {"short", "opcode", "response", "questions", "name"} : ReceiveOther(h, kind)
  \/ \E q \in Questions : Receive(h, q)
  \/ Stat(h) \/ Refresh(h) \/ LookUp(h) \/ Forward(h)

CommandStep(p) ==
  \/ \E op \in Op : Start(p, op)
  \/ SaveHosts(p) \/ Reconcile(p) \/ StartJob(p) \/ Bootout(p) \/ Bootstrap(p)
  \/ Probe(p) \/ Compare(p) \/ Unroute(p) \/ Unlink(p) \/ Synced(p) \/ Cancel(p)
  \/ \E d \in Domains : SyncWrite(p, d) \/ SyncRemove(p, d)

DnsNext ==
  \/ BindLoad \/ BindStat \/ Die \/ Restart \/ HandEdit
  \/ \E h \in Handlers : Serve(h)
  \/ \E p \in Commands : CommandStep(p)

\* launchd starts the job it has loaded, again and again (KeepAlive).
DnsSpec == DnsInit /\ [][DnsNext]_dnsVars /\ WF_dnsVars(BindLoad) /\ WF_dnsVars(BindStat)

-----------------------------------------------------------------------------
(* Properties.                                                             *)

Addresses == {e.address : e \in Entries}

QueryType ==
  [pc : {"idle", "stat", "refresh", "lookup", "forward", "done"},
   q : Questions \cup {Nothing}, at : Nat, now : Nat, used : Nat,
   reply : {Nothing} \cup [from : {"none", "notimp", "formerr", "upstream", "servfail"}]
             \cup [from : {"override"}, addresses : SUBSET Addresses]]

CommandType ==
  [pc : {"idle", "save", "reconcile", "start", "bootout", "bootstrap", "probe", "compare",
         "sync", "unroute", "stop", "unlink", "ok"},
   op : Op \cup {Nothing, [name |-> "reconcile"]},
   table : Tables, at : Nat, wanted : SUBSET Domains]

\* Texts, tables, queries, commands and routes keep their shape, and no reading
\* is of the future.
DnsTypeOK ==
  /\ versions \in Seq({Typo} \cup Tables) /\ Now \in 1 .. MaxVersions
  /\ plist \in BOOLEAN /\ job \in BOOLEAN /\ missed \in BOOLEAN
  /\ server \in {"off", "loaded", "up"}
  /\ table \in [entries : Tables, of : 0 .. Now]
  /\ modified \in 0 .. Now
  /\ handler \in [Handlers -> QueryType]
  /\ \A h \in Handlers : \A t \in {handler[h].at, handler[h].now, handler[h].used} : t <= Now
  /\ routes \in [Domains -> {"none", "foreign", "ours"}]
  /\ command \in [Commands -> CommandType]
  /\ \A p \in Commands : command[p].at <= Now
  /\ failures \in 0 .. MaxFailures /\ overlapped \in BOOLEAN /\ crossed \in BOOLEAN

\* hosts.rs: an exact name beats a wildcard and a longer wildcard a shorter
\* one, and an overridden name is answered entirely from the table: every
\* reply is what the most specific entries of the version it was taken from
\* say, whatever type was asked for, and upstream is asked for no other name.
AnswersFollowTable ==
  \A h \in Handlers :
    handler[h].q # Nothing /\ handler[h].pc \in {"forward", "done"} =>
      LET found == MostSpecific(versions[handler[h].used], handler[h].q.name)
      IN  IF found = {}
          THEN handler[h].pc = "forward"
          ELSE handler[h].reply =
                 [from |-> "override", addresses |-> Answer(found, handler[h].q.qtype)]

\* server.rs, refresh(): a query is answered from the file as it was when the
\* query came in or later, however the queries and the edits interleave,
\* unless a text since then did not parse; the one way to miss an edit is
\* between the two readings of bind().
EditsTakeEffect ==
  \A h \in Handlers :
    Handling(h, "lookup") =>
      \/ table.of >= handler[h].at
      \/ \E v \in handler[h].at .. Now : versions[v] = Typo
      \/ missed

\* server.rs:8-9 has it without that exception: the table is read again when
\* the file changes, so an edit takes effect on the next query. An edit between
\* the two readings of bind() does not (see SplitDnsMissedEdit.cfg).
NextQuerySeesEdits ==
  \A h \in Handlers :
    Handling(h, "lookup") =>
      table.of >= handler[h].at \/ \E v \in handler[h].at .. Now : versions[v] = Typo

\* dns.rs:303-304, of disable(): no domain is ever routed to a resolver that is
\* not there: while a file of ours is in /etc/resolver, the launchd job is
\* installed. A command that routes beside one that turns overrides off breaks
\* it (see SplitDnsOverlap.cfg).
RoutedMeansInstalled == Ours # {} => plist

\* dns.rs, apply() and disable(): this does hold, wherever commands stop and
\* however they overlap, as long as none of them routed while another one was
\* turning overrides off.
RoutesHaveAResolver == ~crossed => RoutedMeansInstalled

\* dns.rs, reconcile() and resolver.rs, sync(): when a command has ended well
\* and the file is still the one it routed, and overrides are on, exactly the
\* domains of the table are routed, but for those with someone else's file, as
\* long as commands have run one after the other: one that read an older table
\* would take the routes of a newer one away.
RoutesFollowTable ==
  ~overlapped =>
    \A p \in Commands :
      Doing(p, "ok") /\ plist /\ command[p].at = Now =>
        Ours = {d \in RoutedDomains(File) : routes[d] # "foreign"}

\* dns.rs: launchd brings the resolver back: once the job is loaded it comes
\* to serve, unless the job is unloaded or the file does not parse.
ResolverComesBack == job ~> (server = "up" \/ ~job \/ ~Parses)
=============================================================================
