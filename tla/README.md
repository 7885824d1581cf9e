# Verification of wslvpn

TLA+ models of the wslvpn control plane and data plane, the TLC runs that check
them on small instances, and TLAPS proofs of what matters most for instances of
every size. `PROJECT.json` lists components, runs, mutants, hazards, findings,
theorems and, for every definition that models code, the lines it models.

Paths below are relative to the repository unless they end in `.tla` or `.cfg`.

## The system

A control plane (`wsl-control`, axum over PostgreSQL) decides who may open a VPN
session, hands out overlay addresses and publishes a versioned peer list for
each gateway. A gateway (`wsl-gateway`) heartbeats, receives that list and
reconciles a WireGuard interface with it. Agents (`wsl-agent`, CLI, desktop,
iOS) sign users in, register devices, open sessions and bring tunnels up.

| Component | State | Operations | Interaction |
|---|---|---|---|
| Sessions, IPAM (`services/sessions.rs`, `ipam.rs`) | `sessions`, `ipam_allocations`, `wireguard_peers` | create, revoke, revoke all of a user or device, allocate, release, identity by address | asks the policies, bumps `gateways.config_version` |
| Devices, users (`devices.rs`, `users.rs`) | `devices.revoked`, `users.active` | register, revoke, disable, enable, delete | revoke sessions |
| Gateway configuration (`services/gateways.rs`) | `gateways`, `config_version` | heartbeat, config | expires sessions, answers gateways |
| Gateway enrollment (`services/gateways.rs`, `wsl-gateway/src/main.rs`, `enrollment.rs`) | `gateways.auth_token_hash`, `enrollment.json` | register, rotate, 401 recovery | HTTP, administrators |
| Gateway loop (`wsl-gateway`) | last applied version, interface peers | heartbeat, plan, apply | `wg set`, control plane HTTP |
| Audit log (`audit.rs`, migration 004) | hash-chained `audit_events` | append, verify | every service records into it |
| Bootstrap (`state.rs`) | roles, default network | grant, demote, seed | runs in every replica at start |
| GitOps (`gitops.rs`) | `policies`, `policy_versions`, networks, routes | apply a directory, apply a document | policies are read by session creation |
| Policy (`wsl-policy`) | none | parse, evaluate | called by session creation |
| User directory (`users.rs`, `routes/users.rs`, `ops.rs`, `scim.rs`) | `users`, `oidc_identities`, tokens | provision, change, disable, delete, promote, demote | directories and administrators write it, sign-ins read and extend it |
| Sign-in (`auth/oidc.rs`, `auth/opsapi.rs`, `wsl-agent/src/oidc.rs`) | `oidc_auth_states`, `oidc_cli_exchanges`, the client's loopback listener | authorize, callback, exchange, password and challenge | browser, identity provider, OpsAPI; ends in a token |
| Identity linking (`auth/oidc.rs`, `auth/opsapi.rs`) | bindings of accounts to users | resolve, link, provision | inside sign-in, over the user directory |
| Identity provider access (`auth/oidc_provider.rs`) | cached discovery document, cached key set | discover, fetch keys, verify an id_token | called by the sign-in handlers |
| Rate limiter (`middleware/rate_limit.rs`) | a window and a count per address | check, sweep | in front of sign-in and enrollment |
| Agent (`wsl-agent`: `client.rs`, `state.rs`, `tunnel.rs`, `profile.rs`; CLI and desktop) | `agent-state.json`, key file, `wsl.conf`, stored profiles, the interface | sign in, connect, disconnect, logout, change of control plane, profiles | control plane HTTP, privileged `wg-quick` |
| Split DNS (`wsl-dns`, `wsl-agent/src/dns.rs`) | hosts file, the resolver's table, launchd job, `/etc/resolver` | set, remove, apply, disable, start, stop; refresh, answer, forward | launchd, the system's resolver |

What is hard here:

- No handler of the control plane uses a transaction. Session creation is seven
  statements, revocation four, the application of a policy four; handlers of all
  replicas interleave between them, and a request may be dropped at any await.
- The version that labels a configuration and the peers in it are read by
  different statements, and gateways skip a version they have applied.
- `wg` commands fail one by one, and the hub has peers of other managers.
- A gateway's credential is shown once, in a reply that may be lost.
- Every replica bootstraps the same database at the same time.
- The audit chain must be linear although every connection appends to it.
- A sign-in passes through four programs that lose, repeat and reorder requests;
  linking an account to a user reads and writes in several statements while
  directories change the same rows.
- The signing keys are fetched without a lock held, by every request at once.
- The agent's commands are processes that load a state, work on a copy and save
  it whole; they overlap, stop half way and are killed while they save.
- The hosts file, the resolver's copy, the launchd job and the route files are
  changed by different programs and none of them waits for another.

What makes each component correct is stated in its module, and listed run by run
below.

## Modules

| Module | Models | Theorems |
|---|---|---|
| `Sessions` | `services/sessions.rs`, `ipam.rs`, parts of `devices.rs`, `users.rs`, `gateways.rs`, `auth/bearer.rs` | `SessionsProofs` |
| `Reconcile` | `wsl-gateway`: `main.rs` loop, `wg.rs`, `apply.rs` | `ReconcileProofs` |
| `Enrollment` | `gateways.rs` register and rotate, `auth/gateway.rs`, `wsl-gateway/src/main.rs` start-up, `enrollment.rs` | `EnrollmentProofs` |
| `AuditLog` | what an audit log promises: an abstract, append-only sequence of events | |
| `AuditChain` | `audit.rs`, `migrations/004_audit_integrity.sql`; implements `AuditLog` | `AuditChainProofs` |
| `Policy` | `wsl-policy/src/lib.rs`, as operators | |
| `GitOps` | `state.rs` bootstrap, `gitops.rs`, `routes/gitops.rs`, `routes/policies.rs`, the role changes of `routes/users.rs`, the decision in `sessions.rs`; uses `Policy` | `GitOpsProofs` |
| `Directory` | `users.rs`, `routes/users.rs`, `routes/ops.rs`, `routes/scim.rs`, `resolve_user` and `link` of `auth/oidc.rs`, `auth/opsapi.rs` | `DirectoryProofs` |
| `SignIn` | `authorize`, `callback`, `exchange` of `auth/oidc.rs`; `auth/opsapi.rs`; `wsl-agent`: `oidc.rs`, `opsapi.rs` | `SignInProofs` |
| `RateLimit` | `middleware/rate_limit.rs` | `SignInProofs` |
| `KeyCache` | the caches of `auth/oidc_provider.rs` and the provider behind them | `SignInProofs` |
| `Gate` | composes `RateLimit` and `KeyCache` with the requests that pass both, from discovery to `verify_id_token` | `SignInProofs` |
| `Agent` | `wsl-agent`: `client.rs`, `state.rs`, `tunnel.rs`, `profile.rs`; the commands of `wsl-cli` and `wsl-desktop` | `AgentProofs` |
| `Overrides` | `wsl-dns`: `hosts.rs`, `wire.rs`, as operators, with a reference definition of the most specific entry | `AgentProofs` |
| `SplitDns` | `wsl-dns`: `server.rs`, `resolver.rs`; `wsl-agent/src/dns.rs`; launchd; uses `Overrides` | `AgentProofs` |
| `MC...` | instances for TLC | |

### Correspondence with the code

**Granularity.** One SQL statement, one `wg` command, one HTTP exchange or one
file write is one action. Where a handler runs several statements, a program
counter per handler (`task[t].pc`, `beat[g].pc`, `conn[w].pc`, `app[t].pc`)
names the statement it is about to run, and the local variables of the handler
that are used across an await are fields beside it. A guard is the code's
condition; an error path ends the handler and leaves what it has committed.

**Sessions.** Tables are functions: `sessions` (row by id), `alloc` (address to
session), `peers` (session to allowed address), `version` (per gateway),
`active`, `revoked`. `CreateStart` ... `CreateBump` are `SessionService::create`
from the bearer check to the version bump, with `AllocateScan`/`AllocateInsert`
the snapshot and the insert of `IpamService::allocate`; `Select`, `Mark`,
`Revoke...` are revocation of one session, of a user's or of a device's;
`Heartbeat...` are the statements of `GatewayService::config`; `Abort` drops a
handler between two statements; the clock moves on its own. The policy decision
is an arbitrary allow or deny here, since `GitOps` models it.

**Reconcile.** The control plane is reduced to what `Sessions` shows of it (a
change first, the version after; version read before peers; expiry moves no
version). The interface is the set of its peers and the allowed-ips of each,
where giving an allowed-ip to a peer takes it from another, as the kernel does.
The loop sleeps, gets a version and peers, reads the interface, plans
(`wg::plan`) and applies command by command. Failures: a heartbeat, a command,
the reading of the interface, a restart with or without the kernel's peers.

**Enrollment.** One gateway name, several hosts configured with it. `row` is the
row in `gateways`, `file` is `enrollment.json`, `mem` what the process uses,
`minted` the reply of register that has not arrived. A credential stands for its
hash; a random one is one that nobody holds.

**AuditChain.** `record()` is one `INSERT` with the trigger's steps inside:
wait for the advisory lock, read the last row, insert, commit. The hash is an
injective function of what it covers. `Edit` and `Remove` change a row with the
triggers switched off; they are what verification is for.

**Policy, GitOps.** A policy file is a record, a list a set, since the code asks
only for some or all members. The duration really goes through the JSON column
(`Stored`, `Loaded`) as text in the largest unit that divides it. `Boot` ...
`Serve` are `AppState::bootstrap` with `reconcile_admins` and the seeding;
`NextNetwork` ... `AddRevision` are `apply_directory` and `apply_policy_yaml`.
`AskChange` is an administrator's request to change, disable or delete a user, up
to the check that it is not the caller's own account; `ChangeUser` is its
statement, which may run any time later. `changed` is history: whose role the API
changed since the list last set it.
An `INSERT` that a unique constraint refuses ends the application (with a
warning in a replica that boots) or, while seeding, the process. `Decide` is the
evaluation in `SessionService::create`, over every order in which the query may
return the policies.

**Directory.** `users` is the table by id, `bound` the bindings per issuer,
`tokens` the access tokens with the sign-in each came from. `SignInStep` is a
sign-in: the statements of `resolve_user` one by one, with the look-up at OpsAPI
before them where that is the issuer. The transaction runs at READ COMMITTED, so
every `SELECT` is a step of its own; its writes, which nobody sees before the
commit and which wait for conflicting ones, are one step with the commit, in
which unique indexes and foreign keys are checked. `DirectoryStep` is what SCIM
and the ops API do, `AdminStep` what an administrator does, whose own row is
read before the change. An address remembers whether it was written with
capitals, since some writers normalise it and others do not.

**SignIn.** A handshake is named by its `state`. `ClientStep` is `browser_login`
of the agent (listen, open the browser, wait, redeem) or the steps of the
password sign-in; `HandlerStep` is `callback()` from the deletion of the row to
the redirect; `BrowserStep` is a browser that follows, repeats or loses any
request it has seen. A loopback port is free again as soon as its client stops
listening. PKCE is a challenge only its client can answer. A client may wait for a
person or a reply as long as it likes; nothing is claimed about attempts ending.

**RateLimit, KeyCache, Gate.** Time is kept as ages that stop growing where no
comparison tells them apart, so time never ends and a liveness property means
something. The clock is read before the lock is taken, so what `check_at` works
with may be `Skew` old. `admitted[a][t]` is history the code does not keep: how
many requests of an address got through in this tick and the `t` before it, for
every span shorter than a window less the clock's lateness (`Span`). A key fetch
reads the provider in one step and stores in another; `fetched[t]` is history
again, the fetches stored in this tick and the `t` before it. `Gate` joins both
modules: a request passes the limiter, discovers, exchanges, gets keys and is
verified, while the provider rotates and withdraws keys and fails to answer. Of
`verify_id_token` only the search for the key depends on what other requests do;
its checks of algorithm, issuer, audience, expiry, nonce and address are one
arbitrary answer.

**Agent.** A command (`proc[p]`) holds the copy of the state it loaded when it
started (`Mem`) and the list of what it has still to do. Every HTTP exchange,
file write and privileged call is a step after which it may `Stop`. `Save`
writes the whole copy; a process killed in it leaves `Torn`, which the next
`load` refuses. `tunnel` is the config the interface was really brought up from,
`conf` the one in `wsl.conf`; `Seen` is what an unprivileged `state()` can tell
of it, which on macOS depends on the name file (`named`).

**Overrides, SplitDns.** A name is its labels with the top one first, a table a
set of entries. `Lookup` walks the labels as the code does and is checked against
`MostSpecific`, which says what the documentation promises. The root name, which
has no labels, is a legal question, meets no entry and is forwarded. The hosts file is the
sequence of its versions, whose length stands for the modification time.
`BindLoad` and `BindStat` are the two readings of `bind()`; `Serve` is the
handling of a query, from `refresh()` to the reply; `CommandStep` is one step of a
`wsl dns` command. `launchctl bootout`, whose failure the code ignores, may leave
the job loaded, and `bootstrap` is refused while it is. `overlapped` and `crossed`
are history: whether two commands ever ran at once, and whether one of them turned
overrides off while the other did not.

## Runs

All passing runs finish within about four minutes each with two workers.
`PROJECT.json` has the cfg of each.

| Run | Shows |
|---|---|
| `sessions_race` | With one address for two sessions, so that creations find the pool empty: an address an active session has, in its row and in its peer, is allocated to it (`LiveSessionOwnsAddress`); an address is taken from a session only after it has stopped being active, and is free in between (`AddressHandover`); a gateway that holds its current version holds the current peers (`VersionCoversPeers`). |
| `sessions_expiry` | `VersionCoversPeers` with two gateways and a clock that passes the expiry between any two statements |
| `sessions_disable_race` | violated: a session inserted after the disabling handler selected what to revoke is served |
| `reconcile` | Once the current version is applied, what it serves routes (`DesiredOnWire`) and what was revoked does not (`RevokedLeavesWire`); peers of others are never touched (`ForeignUntouched`); after the last change the interface converges (`Converges`). |
| `enrollment` | Of the hosts with one name at most one is served (`OneHostServed`), a served one has its credential on disk (`ServedSurvivesRestart`), and an administrator who follows the documented recovery gets the gateway back for good (`AttendedGatewayReturns`) |
| `audit_chain` | A log nobody went behind verifies (`UntouchedVerifies`); a changed row is what verification points at (`ChangeIsReported`); the table implements `AuditLog` (`ImplementsLog`); every writer finishes (`RecordCompletes`) |
| `gitops` | When all replicas serve, the whole directory is in force (`ServingReplicasApplied`); a policy in force stays so while it is replaced (`PolicyStaysInForce`); each decision is that of an applied file (`DecisionExplained`); after a start the roles are those of the list but for what the API changed since (`RolesFollowList`); all replicas come up (`RolloutCompletes`) |
| `directory` | Whatever addresses move between accounts and whoever signs in at the same time, a token is for the user its account is bound to (`TokensNameTheirSubject`), no user is reached by two accounts of one issuer although check and insert are two statements (`OneSubjectPerIssuer`), and an address never links an OpsAPI account (`OpsapiLinksById`) |
| `signin` | A client ends up only as a person who signed in in its own handshake (`SignedInAsOwnPerson`), a handshake is worth one token (`OneTokenPerHandshake`) and none if it expired (`ExpiredIsWorthless`) or its client gave up (`AbandonedIsWorthless`) |
| `gate` | At most two budgets pass in less than a window, sweep and late locks included (`AtMostTwiceBudget`); in less than a cooldown the key set is fetched at most once per concurrent handler (`RefetchesLimited`); a new key is picked up although older fetches may be stored over newer ones (`RotationPickedUp`); a spent budget comes back (`BudgetComesBack`) |
| `agent` | However commands overlap, no token, device or session goes to another control plane (`CredentialsStayHome`). While they do not overlap, wherever they stop: the stored key is the device's and the profiles have their files (`StateHasItsFiles`), a successful connect runs what it says and a successful disconnect leaves nothing it could see (`ReportsAreTrue`), and nothing stays up on a session given back (`NoTunnelOnReleased`) |
| `splitdns` | Every answer is the most specific entry of one version of the file (`AnswersFollowTable`), a query sees the edits made before it, but for one between the two readings of `bind()` (`EditsTakeEffect`), no domain is routed without a resolver installed unless a command routed beside one that turns overrides off (`RoutesHaveAResolver`), a command that succeeds and was not overlapped leaves the table's domains routed (`RoutesFollowTable`), and launchd brings the resolver back (`ResolverComesBack`) |

Five more instances are kept as cfg files beside these runs, for the module `MC...`
of their component.

| Instance | Shows |
|---|---|
| `SplitDnsCommands.cfg` | passes: `RoutesHaveAResolver` and `RoutesFollowTable` with two commands that overlap, where their guards come into play (1.1 million states) |
| `SplitDnsOverlap.cfg` | violated: a `disable` between the comparison and the privileged step of an `apply` leaves domains routed to no resolver (`RoutedMeansInstalled`) |
| `SplitDnsMissedEdit.cfg` | violated: an edit between the two readings of `bind()` is not seen by later queries (`NextQuerySeesEdits`) |
| `EnrollmentRace.cfg` | violated: of two first enrollments that pass the check of `register()` together, the second takes the name without the first one's credential (`TakeoverNeedsProof`) |
| `GitOpsAdmins.cfg` | violated: an administrator's demotion of the listed one, between the grant and the demotions of a starting replica, leaves nobody (`AdministratorRemains`) |

`TypeOK` (`GateTypeOK`, `DnsTypeOK`) states the shape of each module's state. It,
the strengthenings `HandlersOwnTheirRows` and `LoopInv`, and the consequences
`IdentityUnambiguous`, `ReplyAddressesDistinct` and `NumberIsFree` are in no run:
a theorem has them for every instance.

Every property of a passing run has a mutant in `PROJECT.json`: a version of one
definition with a plausible bug, next to the original in the module, under which
TLC finds the property violated.

### Bounds

- `Sessions`: `sessions_race` (2.3 million states) has a range with one usable
  address, the last before the /24 ends (`Usable` skips .0, .1 and .255), so of two
  creations the second finds none until the first session is released, and sessions
  that ended or failed half way hold on to it. Two handlers are enough for every
  pair of statements to meet; which handler runs is symmetric. One dropped handler,
  because a second one meets nothing the first does not leave behind. The clock
  reaches the end of a lifetime, where a gateway is no longer served the peer. In
  `sessions_expiry`, on a /30 with two usable addresses and with two gateways, it
  goes on to where heartbeats mark the session and purge the peer: before, between
  and after the statements of another handler.
- `Reconcile`: two keys and two managed addresses let an address move from one
  peer to the other, which is the interesting order of `wg set` and removal; a
  foreign peer may straddle the managed range. Three changes allow a creation, a
  revocation and the reuse of the address; one failure of each kind.
- `Enrollment`: two hosts; two faults of any kind. `EnoughAssumption` makes sure
  a new credential always exists (a random value is one that nobody holds);
  unused ones are used again.
- `AuditChain`: two writers, four rows of which two may be older than the
  migration, two faults (a lost connection and an edit).
- `GitOps` (340 thousand states): two replicas; two people of whom one is listed,
  so that an administrator who is not can act while the list is applied; one
  network that is also seeded and one that is not; two policies that both apply to
  one request; one crash, error, application or change of a user. The proofs are
  for any numbers.
- `Directory` (350 thousand states): two requests at once, which is every pair of
  statements; two sign-ins and two other requests, which is enough to move an
  address from one account to another and sign both in; five ids, so that no
  insert is refused for want of one.
- `SignIn` (375 thousand states): two clients and two ports, so a port is used
  again; two handshakes, so codes and states can be swapped; two people.
- `Gate` (540 thousand states): one address with a budget of two, so that a window
  can be opened, spent and overspent, over a window of three ticks with a clock
  one tick late; a threshold of zero, so that every request sweeps; two keys, a
  cooldown of two ticks, one rotation, one outage, two requests at once. Addresses
  share nothing but the sweep, and the theorem is about any number of them.
- `Agent` (860 thousand states): two commands at once and four in all, which
  reaches every state a command finds after three others stopped anywhere; two
  control planes, two profiles.
- `SplitDns` (1.8 million states): two queries at once, one command, three
  versions of the file, one death or restart. The names have a wildcard, a
  longer wildcard and an exact entry below each other and a domain someone else
  has a file for. With two commands as well the state space is out of reach; they
  have an instance of their own without queries, which change nothing a command
  reads (`SplitDnsCommands.cfg`), and the theorems are about any number.

Deadlock is checked in every run but `directory`, `signin` and `agent`, whose
bounded numbers of requests, handshakes and commands run out: their systems rest
when nobody asks for anything.

### Fairness

- `Reconcile`: the loop and the statement that moves the version run on. The
  loop is a tokio interval that awaits the reply to its heartbeat, from a client
  without a timeout (`wsl-gateway/src/main.rs:84`): a reply comes or the connection
  fails, and a control plane that accepts a request and then keeps silent for ever
  is assumed away. The handler's last statement waits only for the database.
- `Enrollment`: a process runs on and is started again (`Restart=always` in
  `wsl-gateway.service`), with the same assumption about its requests. The
  administrator's steps are fair in `AttendedSpec` only, whose property is about
  an administrator who follows the documentation; they are strongly fair, since
  the gateway keeps disabling them by restarting.
- `AuditChain`: a statement that is not blocked runs on, and a waiting
  connection gets the lock in the end, since PostgreSQL queues waiters in order
  (strong fairness of `Lock`).
- `GitOps`: a replica runs on and the kubelet starts one that ended. Nothing is
  assumed of administrators.
- `Gate`: handlers go on, which assumes that the provider answers a request or
  its connection fails (the client that asks it has no timeout), and time passes.
  That an address asks again and again, and is heard when it may be, is the premise
  of `BudgetComesBack` and of `RotationPickedUp` (strong fairness of `Enter`).
- `SplitDns`: launchd starts a loaded job again (`KeepAlive` in the job) and a
  process that has started goes on. A start that finds the port taken ends the
  process (`server.rs:104`) and launchd tries again; that the port is free in the
  end is assumed. Nothing is assumed of commands and queries.

`Sessions`, `Directory`, `SignIn` and `Agent` state safety only. In particular no
sign-in is claimed to end: a person may leave the prompt for the second factor
(`wsl-cli/src/main.rs:297`) open, and `redeem()` may wait for its reply without limit.

## Proofs

The theorems hold for every value of the constants that satisfies the `ASSUME`s
of the component's module: any number of users, devices, handlers, replicas,
keys, files and rows, and any bounds on faults. Every safety property a passing
run checks is one of them. The proofs about `Gate` stand beside those about
`SignIn`, whose requests it guards, and those about `SplitDns` beside those about
`Agent`, whose crate has the commands.

**SessionsProofs.** The inductive invariant is `TypeOK`,
`LiveSessionOwnsAddress` and `HandlersOwnTheirRows`. The first two are not
inductive: a handler that is about to write an address into a row must still own
it, which is what the third says about each point between two statements. From
it follow `AddressOwned`, `IdentityIsUnambiguous`, `RepliesAreDistinct` and the
action property `HandoverIsClean`. `VersionIsEnough` (`VersionCoversPeers`) needs
`Fresh` beside it: no reply and no heartbeat in flight carries a version from the
future, every peer that was sent belongs to a session that exists, and a creation
moves the version of the gateway its session is on. A step then either leaves
what a gateway is served alone, expired sessions aside (`CoverKeeps`), or leaves
behind a handler that has still to announce the change (`Pends`), and that
handler's bump takes the version past every reply (`BumpCovers`).

**ReconcileProofs.** The invariant is `TypeOK`, `LoopInv` and `OnWire`. `LoopInv`
says that a configuration at hand is what was served at its version or later, so
a version that is still current labels current peers; `OnWire` says how much of
the plan is already on the interface at each point of its application. They give
`DesiredIsOnWire`, `RevokedIsOffWire` (while every reading of the interface
succeeded) and the action property `ForeignIsUntouched`.

**AuditChainProofs.** The invariant says that whoever is past the lock holds it
(`Holding`), that what it has read is still the last row (`ReadIsCurrent`), that
numbers are dense while nothing was removed (`Dense`), and that rows are linked
except at the row that was changed behind the triggers (`BreakAt`). It gives
`UntouchedLogVerifies`, `NumbersAreFree`, `ChangesAreReported` and, with the
sequence of events as the refinement mapping, `LogIsImplemented`.

**GitOpsProofs.** Two layers. `TableInv`: a version that is current has a
document; a handler about to make one current has stored its own document under
that number; every document comes from a file of that name; a replica about to
take roles away has granted the listed ones, and whoever lost one since lost it to
the API (`ListedGranted`). It gives `TypeCorrect`, `DecisionsAreExplained` (with
`LoadedStored`: a duration survives the JSON column), `PoliciesStayInForce` and
`RolesAreThoseListed`. `Progress`: what an
applier's loop has left behind it is applied and, while nothing failed for a
reason of its own and no administrator interfered, either the directory is
applied or some replica is fresh, that is, will not be refused unless somebody
overtakes it first; and whoever overtakes it is fresh from then on. When all
replicas serve none is fresh, which gives `RolloutApplies`.

**EnrollmentProofs.** Both properties are about processes the control plane
accepts, and neither is inductive. The invariant follows the one credential the
row accepts: a process that uses it has it on its own disk (`InUseIsStored`), at
most one host has it there (`OneFile`), and while it is still in a reply to
register neither a disk nor the administrator has it (`MintedIsNowhereElse`). It
rests on `EnoughAssumption` for the credential a rotation or a registration
draws: it is one that nobody holds. It gives `ServedGatewayResumes` and
`AtMostOneHostIsServed`.

**DirectoryProofs.** The invariant is `TypeOK`, the three properties,
`BoundIsThere` (a binding never outlives its user, which is the foreign key's
cascade), and `TaskOK`, which says what a request may rely on between two
statements: whom it has found has been a user, and if that user is still there,
an account it knows or has linked is bound to it, and one it is about to link by
its OpsAPI uuid has that uuid. `TaskOK` survives the other requests because an id
is never used again, an external id is never replaced (`RowsMove`) and a binding
goes only with its user (`BindingsMove`).

**SignInProofs.** The invariant says how far a handshake has come: its row, the
handler that took it, the code and the token follow one another and are never
there together (`Progress`); the person and the challenge are passed on unchanged
(`PersonIsPassedOn`, `CodesAreApproved`); and a client about to get a token, or
with one, has used up a code of its own (`MintingIsOwn`, `SignedInByOwnCode`).
It gives `OwnPersonOnly`, `OneTokenAtMost` and `ExpiredStaysWorthless`.
`AbandonedStaysWorthless` adds that a challenge never changes once its row is there
(`RowsAreKept`), that the code a client has read stays with it (`CodeIsKept`), and
that a handshake without a redirect has no challenge (`ChallengeHasPort`).

*Gate.* `AtMostTwiceBudget` is not inductive: that a new window may begin says
nothing about what the last one let through. `LimiterInv` adds what a window that is
held has counted. It bounds a span that reaches back before the window by the
window's count and one budget more, and a span inside it by the count alone; an
address without a window has at most one budget in any span. A window begins as
late as the clock was, so "inside" means younger than its age less `Skew`. An
expired window has therefore seen all of every span (`ExpiredSawAll`), and whether
the sweep, a new request or nothing replaces it makes no difference. The assumption
is that the clock is late by less than a window. `RefetchesLimited` is not
inductive either: nothing in it bounds the fetches that are under way. `FetchesInv`
counts those together with the recent ones, against the number of handlers, and
says that while a fetch is recent what it brought is held and no older, so no
further handler sets out. `NewestPublished` keeps the choice of the signing key
defined. The theorems are `GateTypeCorrect`, `TwiceBudgetAtMost` and
`FetchesAreLimited`.

**AgentProofs.** Two layers. `Basic` holds however commands overlap: every copy of
the state, on disk or in a process, is one of a single control plane, and each
process is at a step of its own command. It gives `TypeCorrect` and
`NothingLeavesHome`. `Alone` holds while no two commands have run at once: what a
command has done and still relies on at each of its steps (`Going`), also where
an earlier one stopped. It gives `FilesAreThere`, `ReportsHold` and
`ReleasedHasNoTunnel`. `AgentAssumption` only keeps the marker `None` apart from
control planes, profiles, devices and sessions, and grants one key.

*SplitDns.* First the algorithm: the walk of `lookup()` is a recursive function over
the labels of a name. Its closed form, the wildcard at the last position that has
one (`WalkUpMeets`), is proved without an induction theorem: the least position at
which the two differ (`Least`, from the well-foundedness of the naturals) would not
be one. With it `Lookup` equals `MostSpecific` for every table and every name
(`LookupIsMostSpecific`). Then the state: `DnsInv` says that the table in the
resolver is the text of the version it is labelled with and no older than the last
reading of the modification time unless an edit was missed or did not parse
(`TableOK`), what a query has read and replied (`QueryOK`), and what a command has
read (`CommandOK`). It gives `DnsTypeCorrect`, `RepliesFollowTable` and
`QueriesSeeEdits`, for any number of overlapping commands. `RoutedToAResolver`
needs `InstalledInv`: as long as nothing crossed, the commands under way all turn
overrides off or none does, one that is to route has the job installed, and one
that is to remove the job has removed the routes. `RoutedIsTheTable` needs
`RoutedInv`: as long as nothing overlapped, one command at most is running or has
just ended, and one that ended well has routed what it read. Without those guards
both are false, as `SplitDnsOverlap.cfg` shows for the first.
`SplitDnsAssumption` says that entries, tables and questions have the shape the
parser gives them and that the markers are none of them.

**Only model-checked.** Liveness (`Converges`, `AttendedGatewayReturns`,
`RecordCompletes`, `RolloutCompletes`, `RotationPickedUp`, `BudgetComesBack`,
`ResolverComesBack`) is outside what TLAPS proves here. For the limiter and the
resolver TLC shows it on one instance each: a budget of two and a window of three
ticks, and a single death or restart.

## Findings

A creation that was authenticated before its user was disabled may insert its
session after the sessions to revoke were selected, and the disabled user is
served (`sessions.rs:134`; run `sessions_disable_race`). `PROJECT.json` quotes the
line that promises otherwise.

Four more disagreements between a comment and the code, each with an instance:

- `EnrollmentRace.cfg`: two first enrollments may pass the check of `register()`
  together (`gateways.rs:86`); the second takes the name, key and endpoint of the
  first without its credential, although `gateways.rs:70` says that re-enrolling an
  existing name "requires that gateway's current credential". `OneHostServed` still
  holds: the first is refused from then on.
- `GitOpsAdmins.cfg`: an administrator who is not listed demotes the listed one between
  the grant and the demotions of a starting replica, and both end up without the
  role (`state.rs:193`). Nobody can use the administrative API until the next start;
  `state.rs:152` and `routes/users.rs:55` mean to prevent that.
- `SplitDnsOverlap.cfg`: a `disable` between the comparison and the privileged step of
  an `apply` leaves domains routed to a resolver that is gone (`dns.rs:305`);
  the comment above it says "no domain is ever routed to a resolver that is not
  there".
- `SplitDnsMissedEdit.cfg`: an edit between the two readings of `bind()` is missed
  until the next one (`server.rs:119`); `server.rs:8` says "an edit takes effect on
  the next query".

Met while modelling, without a run of their own. Control plane and gateway:

- An expired session never gives its address back (`gateways.rs:261`;
  `docs/WIREGUARD.md:10` says it does). An expired peer stays on the interface
  until another change moves the version (`wsl-gateway/src/main.rs:123`).
- One failed `wg show` counts as an empty interface, so a revocation is hidden
  for good (`apply.rs:47`): `RevokedLeavesWire` is about readings that succeed.
- A gateway without a configured key pair generates a new one at every start and
  keeps its registration with the old one (`wsl-gateway/src/main.rs:50`).
- The event about a deleted user is always refused, so deletions are never in
  the audit log (`routes/users.rs:102`).
- A revocation that overtakes a creation leaves an address allocated to a
  revoked session. Two live sessions of one device share a key, so only the
  address set last is on the wire (`wg.rs:134`).
- After a rotation the gateway discards its credential and registers without
  one, which `register()` refuses; `docs/OPERATIONS.md:282` says it re-enrolls.
  A token placed in `enrollment.json` under a running gateway is deleted at the
  next rejected heartbeat (`main.rs:104`): it has to be restarted, as
  `AttendedSpec` does.
- A user an audit row refers to cannot be deleted: `ON DELETE SET NULL` is an
  update, which the trigger refuses. `docs/OPERATIONS.md:200` says that removing an
  entry "invalidates every hash after it"; the newest rows have no hash after them,
  so removing only those is invisible to `audit_verify`, and `ChangeIsReported`
  excludes it. The hash covers `created_at::text`, which depends on the session's
  TimeZone.
- The policies are loaded without `ORDER BY` although the first match decides.
  The version recorded with a decision is read after the evaluation and may not
  be the evaluated one. Two applications of one policy may leave the older
  version current. A file removed from Git stays in force; an existing network's
  range and DNS are never updated. A device block that does not mention
  `compliant` drops the default requirement. Replicas with different
  `admin_emails` could demote each other's administrators. A crash between the
  seeding of the default network and its route leaves it without one unless the
  directory has it.

Identity:

- Two administrators can also demote or disable each other at once and leave none:
  only changes to one's own account are refused (`routes/users.rs:58`). A listed
  administrator who is disabled has the role and cannot use it; no start enables
  the account. An administrator's `create` stores an address as written, where
  sign-ins compare it in lower case. A user disabled and enabled again has their
  old tokens back.
- Expired rows of `oidc_auth_states` and `oidc_cli_exchanges` that nobody presents
  are never deleted. Neither the agent's `redeem()` nor the requests to the
  provider have an HTTP timeout, and the prompt for a code waits without limit, so
  an attempt to sign in need not end. A connection to the loopback port that says
  nothing holds the listener up to `LOGIN_TIMEOUT`.
- A signing key once held is trusted without a limit in time, so a withdrawn one
  is accepted until the next fetch. Fetches are not single-flight: a slow old one
  may overwrite a newer set, which the cooldown then delays. An unknown key id is
  not remembered as unknown. A fetch that fails starts no cooldown: while the
  provider's key set cannot be had, every token asks for it again, and
  `RefetchesLimited` is about fetches that succeed.
- The SCIM routes have no rate limiter.

Agent:

- Where macOS keeps the name file from users, an interface whose `wsl.conf` was
  rewritten is not seen: a reconnect fails with "already exists" in spite of the
  comment in `tunnel.rs`, and a disconnect releases the session and leaves the
  interface up. `ReportsAreTrue` and `NoTunnelOnReleased` say what is left.
- A bring-up that fails after `wsl.conf` was rewritten leaves the old interface up
  and the status saying "Connected". `profile use`, logout and a change of the
  control plane leave the tunnel and the session as they are.
- `agent-state.json` is not written atomically, and a torn one makes every command
  fail. Of two commands that overlap, the one that saves last undoes the other;
  most properties of `Agent` are therefore about commands one after another.
- The guard that keeps the profile in use from being removed is skipped while a
  session is recorded, stale or not.

Split DNS:

- A file that does not parse keeps a running resolver on its last table, but a
  restarted one does not come up.
- Of two overlapping `wsl dns` commands the one that read an older table may take
  away the routes of a newer one (`RoutesFollowTable` excludes it). A file of
  somebody else for a wanted domain makes every `reconcile` ask for the password
  again. Routes follow an edit made by hand only at the next command.

## Not modelled

- Firewall rendering and configuration parsing (`config.rs`): text without state.
- Device posture: probes of the platform that keep no state. The iOS client: a
  Swift client of the same API. The shared types: plain data.
- The Windows service and script of the tunnel, which run the steps of `up` and
  `down`; quoting and the paths of programs; the bytes of DNS messages.
- Group rows and membership, also through SCIM: they change no user, and a
  decision reads the names once (`Policy` takes them as part of the request).
- Within modelled components: reads that change nothing (`list`), texts of errors
  and reasons, service tokens, the value of `Retry-After`, windows and prompts of
  the front ends.

## Plan

1. Done: `Sessions`, `Reconcile`, `Enrollment`, `AuditChain`, `GitOps`, each with
   its runs; `Directory`, `SignIn`, `Gate`, `Agent`, `SplitDns`.
2. Done: proofs for all of them. Every safety property the passing runs check is
   a theorem.
3. Left to TLC: the liveness properties.
4. Not planned: a composition in which `Sessions` drives `Reconcile`. The product
   is out of TLC's reach at bounds where both are interesting; `Reconcile` keeps
   the reduced control plane, whose assumptions `VersionCoversPeers` backs.
