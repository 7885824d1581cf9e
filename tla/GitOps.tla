------------------------------- MODULE GitOps -------------------------------
(***************************************************************************)
(* Configuration from Git: AppState::bootstrap, which every replica of the *)
(* control plane runs when it starts, GitOpsService::apply_directory and   *)
(* apply_policy_yaml, and the decision SessionService::create takes with   *)
(* the policies they leave in the database.                                *)
(*                                                                         *)
(* Several replicas start at once (replicaCount in the Helm chart) and     *)
(* administrators apply policies meanwhile. Each SQL statement commits on  *)
(* its own and is an action of its own.                                    *)
(*                                                                         *)
(* Simplifications:                                                        *)
(*  - a file that cannot be read, parsed or stored and a database error    *)
(*    are one thing: the application ends there;                           *)
(*  - service tokens, groups and descriptions, which every replica upserts *)
(*    with the same values, are left out; routes and services of a network *)
(*    are its items;                                                       *)
(*  - git_revisions keeps the files that were applied;                     *)
(*  - an update of a user changes the role or the account, not both, and   *)
(*    people who sign in for the first time are left to module Directory.  *)
(***************************************************************************)
EXTENDS Policy, Sequences, FiniteSets

CONSTANTS
  Replicas,    \* processes of the control plane
  Editors,     \* administrators' requests that apply policies
  Requests,    \* what sessions are requested with
  Emails,      \* bootstrap.admin_emails
  People,      \* users
  Networks,    \* networks/: the name of each file
  Items,       \* the routes and services in each of them
  Seed,        \* the network that is seeded into an empty database
  SeedRoute,   \* its route
  Policies,    \* policies/: the files, one for each name
  Edits,       \* files administrators apply
  MaxFaults    \* bound on crashes, errors and administrators' requests

Files == Policies \union Edits
Names == {y.name : y \in Files}
PolicyFiles == {y.name : y \in Policies}
NetworkNames == Networks \union {Seed}
AllItems == {SeedRoute} \union (UNION {Items[n] : n \in Networks})
Appliers == Replicas \union Editors

ASSUME DirectoryAssumption ==
  /\ Replicas # {} /\ Replicas \intersect Editors = {}
  /\ Requests # {} /\ Policies \union Edits # {}
  /\ Emails \subseteq People
  /\ DOMAIN Items = Networks
  /\ \A y, z \in Policies : y.name = z.name => y = z
  /\ \A y \in Files : y.duration.n \in Int /\ y.duration.unit \in Units

ASSUME BoundAssumption == MaxFaults \in Nat

VARIABLES
  users,      \* users: the rows of the table
  admins,     \* users whose role is admin
  disabled,   \* users that are not active
  asked,      \* changes of users that have passed AdminUser and are not made yet
  changed,    \* for checking: whose role was changed since the list last set it
  networks,   \* the networks in the database
  items,      \* the routes and services of each
  current,    \* policies.current_version of each policy, 0 if it has no row
  versions,   \* policy_versions: the documents of each policy, oldest first
  revisions,  \* git_revisions
  app,        \* what each applier is doing
  decision,   \* a request for a session being decided
  faults      \* how many of the bounded events of each kind have happened

roleVars == <<users, admins, disabled, asked, changed>>
networkVars == <<networks, items>>
policyVars == <<current, versions, revisions>>
vars == <<roleVars, networkVars, policyVars, app, decision, faults>>

\* todo is what the loop a handler is in has still to visit, left the items of
\* the network it is at, file and version what it is applying.
SomeFile == CHOOSE y \in Files : TRUE

Handler(pc, todo) ==
  [pc |-> pc, todo |-> todo, net |-> Seed, left |-> {}, file |-> SomeFile, version |-> 0]

NetworkHandler(pc, todo, n) ==
  [pc |-> pc, todo |-> todo, net |-> n, left |-> Items[n], file |-> SomeFile, version |-> 0]

FileHandler(pc, todo, y, v) ==
  [pc |-> pc, todo |-> todo, net |-> Seed, left |-> {}, file |-> y, version |-> v]

NoDecision == [pc |-> "idle", in |-> CHOOSE in \in Requests : TRUE,
               name |-> CHOOSE n \in Names : TRUE, allow |-> FALSE, duration |-> 0]

Init ==
  /\ users \in SUBSET People /\ admins \in SUBSET users
  /\ disabled = {} /\ asked = {} /\ changed = {}
  /\ networks = {} /\ items = [n \in NetworkNames |-> {}]
  /\ current = [n \in Names |-> 0]
  /\ versions = [n \in Names |-> <<>>]
  /\ revisions = {}
  /\ app = [t \in Appliers |-> Handler(IF t \in Replicas THEN "down" ELSE "idle", {})]
  /\ decision = NoDecision
  /\ faults = [crash |-> 0, error |-> 0, edit |-> 0, role |-> 0]

At(t, step) == app[t].pc = step
Goto(t, step) == app' = [app EXCEPT ![t].pc = step]
Enter(t, step, todo) == app' = [app EXCEPT ![t] = Handler(step, todo)]

Spend(f) ==
  /\ faults.crash + faults.error + faults.edit + faults.role < MaxFaults
  /\ faults' = [faults EXCEPT ![f] = @ + 1]

-----------------------------------------------------------------------------
(* AppState::bootstrap. An error ends the process.                         *)

\* Without a list of administrators the roles are left alone.
Boot(r) ==
  /\ At(r, "down")
  /\ Enter(r, IF Emails = {} THEN "count" ELSE "admin", Emails)
  /\ UNCHANGED <<roleVars, networkVars, policyVars, decision, faults>>

\* reconcile_admins: the listed addresses one by one, an account that is there
\* stays disabled if it is, then everyone else.
GrantAdmin(r) ==
  /\ At(r, "admin")
  /\ \E e \in Emails :
       /\ e \in app[r].todo
       /\ users' = users \union {e}
       /\ admins' = admins \union {e}
       /\ changed' = changed \ {e}
       /\ LET todo == app[r].todo \ {e} IN
          Enter(r, IF todo = {} THEN "demote" ELSE "admin", todo)
  /\ UNCHANGED <<disabled, asked, networkVars, policyVars, decision, faults>>

\* Mutant: = ANY in place of <> ALL.
DemoteListed(r) ==
  /\ At(r, "demote")
  /\ admins' = admins \ Emails
  /\ changed' = changed \intersect Emails
  /\ Goto(r, "count")
  /\ UNCHANGED <<users, disabled, asked, networkVars, policyVars, decision, faults>>

Demote(r) ==
  /\ At(r, "demote")
  /\ admins' = admins \intersect Emails
  /\ changed' = changed \intersect Emails
  /\ Goto(r, "count")
  /\ UNCHANGED <<users, disabled, asked, networkVars, policyVars, decision, faults>>

\* Mutant: the default network is seeded without counting.
CountNothing(r) ==
  /\ At(r, "count")
  /\ Goto(r, "seed")
  /\ UNCHANGED <<roleVars, networkVars, policyVars, decision, faults>>

\* SELECT COUNT(*) FROM networks
CountNetworks(r) ==
  /\ At(r, "count")
  /\ IF networks = {} THEN Goto(r, "seed") ELSE Enter(r, "nets", Networks)
  /\ UNCHANGED <<roleVars, networkVars, policyVars, decision, faults>>

\* INSERT INTO networks: another replica may have been faster.
SeedNetwork(r) ==
  /\ At(r, "seed")
  /\ IF Seed \in networks
     THEN Enter(r, "down", {}) /\ UNCHANGED networks
     ELSE networks' = networks \union {Seed} /\ Goto(r, "route")
  /\ UNCHANGED <<roleVars, items, policyVars, decision, faults>>

SeedRoutes(r) ==
  /\ At(r, "route")
  /\ IF SeedRoute \in items[Seed]
     THEN Enter(r, "down", {}) /\ UNCHANGED items
     ELSE /\ items' = [items EXCEPT ![Seed] = @ \union {SeedRoute}]
          /\ Enter(r, "nets", Networks)
  /\ UNCHANGED <<roleVars, networks, policyVars, decision, faults>>

\* The event is recorded and the replica serves.
Serve(r) ==
  /\ At(r, "audit") /\ r \in Replicas
  /\ Goto(r, "up")
  /\ UNCHANGED <<roleVars, networkVars, policyVars, decision, faults>>

-----------------------------------------------------------------------------
(* apply_directory                                                         *)

\* An application that has ended: bootstrap only warns about a failure.
End(t) == Enter(t, IF t \in Replicas THEN "audit" ELSE "idle", {})

\* Mutant: a network that exists is skipped, its items with it.
NextNewNetwork(t) ==
  /\ At(t, "nets")
  /\ \/ \E n \in Networks :
          /\ n \in app[t].todo
          /\ app' = [app EXCEPT ![t] =
              NetworkHandler(IF n \in networks THEN "nets" ELSE "create", @.todo \ {n}, n)]
     \/ app[t].todo = {} /\ Enter(t, "files", PolicyFiles)
  /\ UNCHANGED <<roleVars, networkVars, policyVars, decision, faults>>

\* The next network, in the order of read_dir, and SELECT by its name. After the
\* last one come the policies.
NextNetwork(t) ==
  /\ At(t, "nets")
  /\ \/ \E n \in Networks :
          /\ n \in app[t].todo
          /\ app' = [app EXCEPT ![t] =
              NetworkHandler(IF n \in networks THEN "items" ELSE "create", @.todo \ {n}, n)]
     \/ app[t].todo = {} /\ Enter(t, "files", PolicyFiles)
  /\ UNCHANGED <<roleVars, networkVars, policyVars, decision, faults>>

\* INSERT INTO networks fails when the network has come to exist meanwhile.
CreateNetwork(t) ==
  /\ At(t, "create")
  /\ IF app[t].net \in networks
     THEN End(t) /\ UNCHANGED networks
     ELSE networks' = networks \union {app[t].net} /\ Goto(t, "items")
  /\ UNCHANGED <<roleVars, items, policyVars, decision, faults>>

\* INSERT ... ON CONFLICT into network_services and routes
AddItem(t) ==
  /\ At(t, "items")
  /\ \/ \E i \in app[t].left :
          /\ items' = [items EXCEPT ![app[t].net] = @ \union {i}]
          /\ app' = [app EXCEPT ![t].left = @ \ {i}]
     \/ app[t].left = {} /\ Enter(t, "nets", app[t].todo) /\ UNCHANGED items
  /\ UNCHANGED <<roleVars, networks, policyVars, decision, faults>>

\* The next file of policies/.
NextFile(t) ==
  /\ At(t, "files")
  /\ \/ \E y \in Policies :
          /\ y.name \in app[t].todo
          /\ app' = [app EXCEPT ![t] = FileHandler("upsert", @.todo, y, 0)]
     \/ app[t].todo = {} /\ End(t)
  /\ UNCHANGED <<roleVars, networkVars, policyVars, decision, faults>>

-----------------------------------------------------------------------------
(* apply_policy_yaml                                                       *)

Name(t) == app[t].file.name

\* Mutant: the version is current before its document is there.
ReadVersionPublishes(t) ==
  /\ At(t, "upsert")
  /\ app' = [app EXCEPT ![t] =
       FileHandler("insert", @.todo, @.file, Len(versions[Name(t)]) + 1)]
  /\ current' = [current EXCEPT ![Name(t)] = Len(versions[Name(t)]) + 1]
  /\ UNCHANGED <<roleVars, networkVars, versions, revisions, decision, faults>>

\* SELECT COALESCE(MAX(version), 0) + 1, after the row in policies has been
\* inserted or touched: a policy without versions is seen by nobody.
ReadVersion(t) ==
  /\ At(t, "upsert")
  /\ app' = [app EXCEPT ![t] =
       FileHandler("insert", @.todo, @.file, Len(versions[Name(t)]) + 1)]
  /\ UNCHANGED <<roleVars, networkVars, policyVars, decision, faults>>

\* INSERT INTO policy_versions: UNIQUE (policy_id, version) refuses a number
\* taken meanwhile.
InsertVersion(t) ==
  /\ At(t, "insert")
  /\ IF app[t].version <= Len(versions[Name(t)])
     THEN End(t) /\ UNCHANGED versions
     ELSE /\ versions' = [versions EXCEPT ![Name(t)] =
                            Append(@, Stored(Parse(app[t].file)))]
          /\ Goto(t, "update")
  /\ UNCHANGED <<roleVars, networkVars, current, revisions, decision, faults>>

\* UPDATE policies SET current_version
UpdateCurrent(t) ==
  /\ At(t, "update")
  /\ current' = [current EXCEPT ![Name(t)] = app[t].version]
  /\ IF app[t].todo = {} THEN End(t) ELSE Goto(t, "revision")
  /\ UNCHANGED <<roleVars, networkVars, versions, revisions, decision, faults>>

\* apply_directory: INSERT INTO git_revisions, and the loop goes on.
AddRevision(t) ==
  /\ At(t, "revision")
  /\ revisions' = revisions \union {app[t].file}
  /\ Enter(t, "files", app[t].todo \ {Name(t)})
  /\ UNCHANGED <<roleVars, networkVars, current, versions, decision, faults>>

-----------------------------------------------------------------------------
(* Administrators, and what goes wrong.                                    *)

\* Requests are served by a replica that is up.
Serving == \E r \in Replicas : At(r, "up")

\* POST /policies/apply
ApplyPolicy(t, y) ==
  /\ Serving /\ At(t, "idle")
  /\ Spend("edit")
  /\ app' = [app EXCEPT ![t] = FileHandler("upsert", {}, y, 0)]
  /\ UNCHANGED <<roleVars, networkVars, policyVars, decision>>

\* POST /gitops/apply
ApplyGitOps(t) ==
  /\ Serving /\ At(t, "idle")
  /\ Spend("edit")
  /\ Enter(t, "nets", Networks)
  /\ UNCHANGED <<roleVars, networkVars, policyVars, decision>>

Changes == {"admin", "member", "disable", "enable", "delete"}

\* PATCH and DELETE /users/{id}: the caller is an active administrator when the
\* request comes in, to a replica of this rollout or of the one before, and does
\* not lock himself out. Dropping the request here is not making the change.
AskChange(caller, p, to) ==
  /\ caller \in admins \ disabled /\ p \in users
  /\ caller = p => to \notin {"member", "disable", "delete"}
  /\ Spend("role")
  /\ asked' = asked \union {[who |-> p, to |-> to]}
  /\ UNCHANGED <<users, admins, disabled, changed, networkVars, policyVars, app, decision>>

\* The UPDATE or DELETE, WHERE id = $1: a row that is created again is another.
ChangeUser(c) ==
  /\ c \in asked
  /\ LET gone == {p \in {c.who} : c.to = "delete"} IN
     /\ users' = users \ gone
     /\ admins' = IF c.to = "admin" THEN admins \union {c.who}
                  ELSE IF c.to = "member" THEN admins \ {c.who} ELSE admins \ gone
     /\ disabled' = IF c.to = "disable" THEN disabled \union {c.who}
                    ELSE IF c.to = "enable" THEN disabled \ {c.who} ELSE disabled \ gone
     /\ asked' = {d \in asked : d # c /\ d.who \notin gone}
  /\ changed' = IF c.to \in {"admin", "member", "delete"} THEN changed \union {c.who} ELSE changed
  /\ UNCHANGED <<networkVars, policyVars, app, decision, faults>>

Applying == {"nets", "create", "items", "files", "upsert", "insert", "update", "revision"}

\* A file, a row or a statement is refused, or an administrator's request is
\* dropped.
Fail(t) ==
  /\ app[t].pc \in Applying
  /\ Spend("error")
  /\ End(t)
  /\ UNCHANGED <<roleVars, networkVars, policyVars, decision>>

\* A replica is killed.
Crash(r) ==
  /\ ~At(r, "down")
  /\ Spend("crash")
  /\ Enter(r, "down", {})
  /\ UNCHANGED <<roleVars, networkVars, policyVars, decision>>

-----------------------------------------------------------------------------
(* SessionService::create decides a request.                               *)

\* load_active_policies: the JOIN on current_version.
InForce(n) == current[n] \in DOMAIN versions[n]
DocumentOf(n) == Loaded(versions[n][current[n]])

\* The query has no ORDER BY: the rows come in any order.
Orders(S) ==
  {o \in [1..Cardinality(S) -> S] : \A i, j \in DOMAIN o : o[i] = o[j] => i = j}

\* The policies are loaded and evaluated. Without a match the request is denied.
Decide(in) ==
  /\ Serving /\ decision.pc = "idle"
  /\ \E o \in Orders({n \in Names : InForce(n)}) :
       LET docs == [i \in DOMAIN o |-> DocumentOf(o[i])] IN
       \/ \E i \in DOMAIN o :
            /\ FirstMatch(docs, in, i)
            /\ decision' = [pc |-> "meta", in |-> in, name |-> o[i],
                            allow |-> Allows(docs[i], in), duration |-> docs[i].duration]
       \/ (\A i \in DOMAIN o : ~Applies(docs[i], in)) /\ decision' = NoDecision
  /\ UNCHANGED <<roleVars, networkVars, policyVars, app, faults>>

\* policy_meta: the version that is recorded with the decision, current_version
\* by now, is read in a statement of its own. The request is denied, or goes on
\* as module Sessions models it.
PolicyMeta ==
  /\ decision.pc = "meta"
  /\ decision' = NoDecision
  /\ UNCHANGED <<roleVars, networkVars, policyVars, app, faults>>

-----------------------------------------------------------------------------
Bootstrap(r) ==
  \/ Boot(r) \/ GrantAdmin(r) \/ Demote(r) \/ CountNetworks(r)
  \/ SeedNetwork(r) \/ SeedRoutes(r) \/ Serve(r)

ApplyStep(t) ==
  \/ NextNetwork(t) \/ CreateNetwork(t) \/ AddItem(t) \/ NextFile(t)
  \/ ReadVersion(t) \/ InsertVersion(t) \/ UpdateCurrent(t) \/ AddRevision(t)

Next ==
  \/ \E r \in Replicas : Bootstrap(r) \/ Crash(r)
  \/ \E t \in Appliers : ApplyStep(t) \/ Fail(t)
  \/ \E t \in Editors : ApplyGitOps(t) \/ \E y \in Edits : ApplyPolicy(t, y)
  \/ \E caller, p \in People, to \in Changes : AskChange(caller, p, to)
  \/ \E c \in [who : People, to : Changes] : ChangeUser(c)
  \/ \E in \in Requests : Decide(in)
  \/ PolicyMeta

Spec == Init /\ [][Next]_vars

\* A replica runs, and the kubelet starts one that has ended.
FairSpec == Spec /\ \A r \in Replicas : WF_vars(Bootstrap(r) \/ ApplyStep(r))
-----------------------------------------------------------------------------
Steps == Applying \union {"idle", "down", "admin", "demote", "count", "seed", "route",
                          "audit", "up"}

Documents == {Stored(Parse(y)) : y \in Files}

Handlers == [pc : Steps, todo : SUBSET (Emails \union Networks \union PolicyFiles),
             net : NetworkNames, left : SUBSET AllItems, file : Files, version : Nat]

\* Tables, handlers and the decision keep their shape.
TypeOK ==
  /\ users \subseteq People /\ admins \subseteq People /\ disabled \subseteq People
  /\ asked \subseteq [who : People, to : Changes] /\ changed \subseteq People
  /\ networks \subseteq NetworkNames
  /\ items \in [NetworkNames -> SUBSET AllItems]
  /\ current \in [Names -> Nat]
  /\ versions \in [Names -> Seq(Documents)]
  /\ revisions \subseteq Files
  /\ app \in [Appliers -> Handlers]
  /\ decision \in [pc : {"idle", "meta"}, in : Requests, name : Names,
                   allow : BOOLEAN, duration : Int]
  /\ faults \in [crash : Nat, error : Nat, edit : Nat, role : Nat]

(***************************************************************************)
(* A policy that is in force stays in force while it is replaced: however  *)
(* appliers interleave and wherever they fail, no request is decided       *)
(* without it because its version is missing for a moment.                 *)
(***************************************************************************)
PolicyStaysInForce == [][\A n \in Names : InForce(n) => InForce(n)']_vars

(***************************************************************************)
(* A decision follows from a file somebody applied: a policy of that name  *)
(* that applies to the request, allows it or not as the file says, and for *)
(* as long as the file says, after the way of the duration through the     *)
(* JSON column. It stays so while the policy is replaced behind it.        *)
(***************************************************************************)
DecisionExplained ==
  decision.pc # "idle" =>
    \E y \in Files :
      /\ y.name = decision.name
      /\ \E v \in DOMAIN versions[y.name] : versions[y.name][v] = Stored(Parse(y))
      /\ Applies(Parse(y), decision.in)
      /\ decision.allow = Allows(Parse(y), decision.in)
      /\ decision.duration = Seconds(y.duration)

FileInForce(y) == InForce(y.name) /\ DocumentOf(y.name) = Parse(y)
NetworkApplied(n) == n \in networks /\ Items[n] \subseteq items[n]

DirectoryApplied ==
  (\A n \in Networks : NetworkApplied(n)) /\ (\A y \in Policies : FileInForce(y))

(***************************************************************************)
(* templates/deployment.yaml: "a rollout with several replicas starting at *)
(* once is safe". Replicas refuse each other's rows, and a replica that is *)
(* refused gives the directory up with a warning and serves. Still, once   *)
(* all serve, the whole directory is in force, unless an application       *)
(* failed for a reason of its own or an administrator interfered.          *)
(***************************************************************************)
ServingReplicasApplied ==
  (\A r \in Replicas : At(r, "up")) /\ faults.error = 0 /\ faults.edit = 0 => DirectoryApplied

(***************************************************************************)
(* reconcile_admins: "Make bootstrap.admin_emails the source of truth for  *)
(* who is an admin". From the moment some replica has been through it, the *)
(* listed people are administrators and nobody else is, but for those      *)
(* whose role an administrator changed after the list last set it: neither *)
(* a second replica in the middle of its own grants, nor a crash, nor a    *)
(* request that was admitted before and is carried out late disturbs it.   *)
(***************************************************************************)
Reconciled == \E r \in Replicas : app[r].pc \notin {"down", "admin", "demote"}

RolesFollowList ==
  Emails # {} /\ Reconciled =>
    \A p \in People \ changed : p \in admins <=> p \in Emails

(***************************************************************************)
(* state.rs: "a deployment with no admin cannot be recovered through the   *)
(* API". Once somebody can use the administrative API, somebody can at     *)
(* every moment after. It does not hold: see GitOpsAdmins.cfg.             *)
(***************************************************************************)
AdministratorRemains == [][admins \ disabled # {} => (admins \ disabled)' # {}]_vars

(***************************************************************************)
(* No replica restarts forever: the errors that end a process are those of *)
(* the seeding race, and they cease.                                       *)
(***************************************************************************)
RolloutCompletes == <>[](\A r \in Replicas : At(r, "up"))
=============================================================================
