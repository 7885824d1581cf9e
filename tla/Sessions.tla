------------------------------ MODULE Sessions ------------------------------
(***************************************************************************)
(* The session lifecycle of the control plane: SessionService, IpamService *)
(* and the parts of DeviceService, UserService and GatewayService that     *)
(* touch sessions, over the tables devices, users, sessions,               *)
(* ipam_allocations, wireguard_peers and gateways.config_version.          *)
(*                                                                         *)
(* Every SQL statement autocommits and every statement is an await point,  *)
(* so each is one action and handlers interleave between them.  A handler  *)
(* is a task; it may be dropped between two statements (a failed query, a  *)
(* client that disconnects, a restart of the process), leaving what it has *)
(* committed.                                                              *)
(*                                                                         *)
(* Simplifications:                                                        *)
(*  - one network; the policy decision is a nondeterministic allow or deny *)
(*    (module Policy models the decision itself);                          *)
(*  - a peer row's key and expiry are those of its session's device and    *)
(*    session, as the handler inserts them, so only its address is kept;   *)
(*  - the caller of a revocation is its owner or an administrator.         *)
(***************************************************************************)
EXTENDS Integers, FiniteSets

CONSTANTS
  Users, Devices, Gateways,  \* rows that exist from the start
  Owner,                     \* devices.user_id: ON CONFLICT never changes it
  Sids,                      \* session ids Uuid::new_v4 may return
  Tasks,                     \* request handlers that may run at once
  Cidr,                      \* host numbers of the network, as cidr.iter()
  Lifetimes,                 \* session durations a policy may grant
  NoSession,                 \* an address nobody holds
  MaxTime,                   \* bound on the clock
  MaxAborts                  \* bound on handlers dropped half way

ASSUME SetsAssumption ==
  /\ Users # {} /\ Devices # {} /\ Gateways # {} /\ Sids # {} /\ Tasks # {}
  /\ Owner \in [Devices -> Users]
  /\ NoSession \notin Sids

ASSUME NumbersAssumption ==
  /\ Cidr \subseteq Nat
  /\ Lifetimes \subseteq Nat
  /\ MaxTime \in Nat /\ MaxAborts \in Nat

VARIABLES
  now,        \* NOW()
  active,     \* users.active
  revoked,    \* devices.revoked
  sessions,   \* the sessions table
  alloc,      \* ipam_allocations: address -> session
  peers,      \* wireguard_peers: session -> allowed address
  version,    \* gateways.config_version
  task,       \* the handlers in flight
  beat,       \* the heartbeat handler of each gateway
  reply,      \* the last configuration each gateway was sent
  aborts      \* how many handlers were dropped half way

dirVars  == <<active, revoked>>
netVars  == <<sessions, alloc, peers, version>>
beatVars == <<beat, reply>>
vars == <<now, dirVars, netVars, task, beatVars, aborts>>

-----------------------------------------------------------------------------
(* Addresses: the order of cidr.iter() is the order of host numbers.       *)

\* '0.0.0.0'::inet, the placeholder of a session that has no address yet,
\* and the absence of a peer row. Host 0 is never handed out.
NoAddr == 0

\* .0 and .255 are skipped, and .1 is kept for the gateway.
Usable(a) == a % 256 \notin {0, 1, 255}

Pool == {a \in Cidr : Usable(a)}

Used == {a \in Pool : alloc[a] # NoSession}

\* a is the address the scan of allocate() stops at.
FirstFree(a) == a \in Pool \ Used /\ \A b \in Pool \ Used : a <= b

-----------------------------------------------------------------------------
(* Rows and handler states.                                                *)

SomeDevice  == CHOOSE d \in Devices : TRUE
SomeGateway == CHOOSE g \in Gateways : TRUE

Statuses == {"none", "active", "revoked", "expired"}

NoRow == [status |-> "none", device |-> SomeDevice, gateway |-> SomeGateway,
          ip |-> NoAddr, expires |-> 0]

Row == [status : Statuses, device : Devices, gateway : Gateways,
        ip : Pool \union {NoAddr}, expires : Nat]

CreateSteps == {"device", "insert", "scan", "alloc", "ip", "peer", "bump"}
RevokeSteps == {"select", "mark", "unpeer", "release", "rbump"}

\* sid is the session a handler works on, addr the address it picked, scope the
\* devices whose sessions it revokes (one, or all of a user's), todo the ids it
\* has still to revoke.
Task == [pc : {"idle"} \union CreateSteps \union RevokeSteps,
         device : Devices, gateway : Gateways, sid : Sids \union {NoSession},
         addr : Pool \union {NoAddr}, scope : SUBSET Devices, todo : SUBSET Sids]

IdleTask == [pc |-> "idle", device |-> SomeDevice, gateway |-> SomeGateway,
             sid |-> NoSession, addr |-> NoAddr, scope |-> {}, todo |-> {}]

Peer == [sid : Sids, addr : Pool]

IdleBeat == [pc |-> "idle", version |-> 0]

At(t, step) == task[t].pc = step
Goto(t, step) == task' = [task EXCEPT ![t].pc = step]
Finish(t) == task' = [task EXCEPT ![t] = IdleTask]
SetStatus(s, st) == sessions' = [sessions EXCEPT ![s].status = st]
Bump(g) == version' = [version EXCEPT ![g] = @ + 1]

-----------------------------------------------------------------------------
Init ==
  /\ now = 0
  /\ active = [u \in Users |-> TRUE]
  /\ revoked = [d \in Devices |-> FALSE]
  /\ sessions = [s \in Sids |-> NoRow]
  /\ alloc = [a \in Pool |-> NoSession]
  /\ peers = [s \in Sids |-> NoAddr]
  /\ version = [g \in Gateways |-> 0]
  /\ task = [t \in Tasks |-> IdleTask]
  /\ beat = [g \in Gateways |-> IdleBeat]
  /\ reply = [g \in Gateways |-> [version |-> -1, peers |-> {}]]
  /\ aborts = 0

Tick ==
  /\ now < MaxTime
  /\ now' = now + 1
  /\ UNCHANGED <<dirVars, netVars, task, beatVars, aborts>>

-----------------------------------------------------------------------------
(* POST /sessions                                                          *)

\* AuthUser: the token resolves only while the account is active.
CreateStart(t, d) ==
  /\ At(t, "idle")
  /\ active[Owner[d]]
  /\ task' = [task EXCEPT ![t] = [IdleTask EXCEPT !.pc = "device", !.device = d]]
  /\ UNCHANGED <<now, dirVars, netVars, beatVars, aborts>>

\* SELECT ... FROM devices; a revoked device is Forbidden.
CreateDevice(t) ==
  /\ At(t, "device")
  /\ IF revoked[task[t].device] THEN Finish(t) ELSE Goto(t, "insert")
  /\ UNCHANGED <<now, dirVars, netVars, beatVars, aborts>>

\* OpsAPI no longer lists the user (verify_on_connect, before the device is
\* looked up), there is no gateway, or the policies deny: the handler ends.
CreateDeny(t) ==
  /\ At(t, "insert")
  /\ Finish(t)
  /\ UNCHANGED <<now, dirVars, netVars, beatVars, aborts>>

\* The policies allow: INSERT INTO sessions with the placeholder address, on
\* the gateway that had the latest heartbeat when the handler looked, which may
\* be any of them. Uuid::new_v4 never repeats an id.
CreateInsert(t, s, g, life) ==
  /\ At(t, "insert")
  /\ sessions[s].status = "none"
  /\ sessions' = [sessions EXCEPT ![s] =
       [status |-> "active", device |-> task[t].device, gateway |-> g,
        ip |-> NoAddr, expires |-> now + life]]
  /\ task' = [task EXCEPT ![t].pc = "scan", ![t].sid = s, ![t].gateway = g]
  /\ UNCHANGED <<now, dirVars, alloc, peers, version, beatVars, aborts>>

\* allocate(): SELECT the used addresses and take the first free one. With none
\* left the request fails, and the session row stays.
AllocateScan(t) ==
  /\ At(t, "scan")
  /\ \/ \E a \in Pool : /\ FirstFree(a)
                        /\ task' = [task EXCEPT ![t].pc = "alloc", ![t].addr = a]
     \/ Pool \ Used = {} /\ Finish(t)
  /\ UNCHANGED <<now, dirVars, netVars, beatVars, aborts>>

\* Mutant: the allocation is upserted, so the later writer takes the address.
AllocateInsertUpsert(t) ==
  /\ At(t, "alloc")
  /\ alloc' = [alloc EXCEPT ![task[t].addr] = task[t].sid]
  /\ Goto(t, "ip")
  /\ UNCHANGED <<now, dirVars, sessions, peers, version, beatVars, aborts>>

\* allocate(): INSERT INTO ipam_allocations. The primary key refuses an address
\* taken since the scan; the request fails, and the session row stays.
AllocateInsert(t) ==
  /\ At(t, "alloc")
  /\ IF alloc[task[t].addr] = NoSession
     THEN /\ alloc' = [alloc EXCEPT ![task[t].addr] = task[t].sid]
          /\ Goto(t, "ip")
     ELSE Finish(t) /\ UNCHANGED alloc
  /\ UNCHANGED <<now, dirVars, sessions, peers, version, beatVars, aborts>>

\* UPDATE sessions SET assigned_ip, whatever the status is by now.
CreateSetIp(t) ==
  /\ At(t, "ip")
  /\ sessions' = [sessions EXCEPT ![task[t].sid].ip = task[t].addr]
  /\ Goto(t, "peer")
  /\ UNCHANGED <<now, dirVars, alloc, peers, version, beatVars, aborts>>

\* INSERT INTO wireguard_peers, whatever the status is by now.
CreatePeer(t) ==
  /\ At(t, "peer")
  /\ peers' = [peers EXCEPT ![task[t].sid] = task[t].addr]
  /\ Goto(t, "bump")
  /\ UNCHANGED <<now, dirVars, sessions, alloc, version, beatVars, aborts>>

\* The configuration version moves, the event is audited and the client gets
\* its tunnel parameters.
CreateBump(t) ==
  /\ At(t, "bump")
  /\ Bump(task[t].gateway)
  /\ Finish(t)
  /\ UNCHANGED <<now, dirVars, sessions, alloc, peers, beatVars, aborts>>

-----------------------------------------------------------------------------
(* Revocation                                                              *)

\* Where a handler that still has S to revoke continues.
Revoking(t, S) ==
  IF S = {} THEN Finish(t)
  ELSE task' = [task EXCEPT ![t] = [IdleTask EXCEPT !.pc = "mark", !.todo = S]]

\* SELECT id FROM sessions WHERE device_id or user_id ... AND status = 'active'
ActiveSessions(scope) ==
  {s \in Sids : sessions[s].status = "active" /\ sessions[s].device \in scope}

DevicesOf(u) == {d \in Devices : Owner[d] = u}

Select(t, scope) ==
  task' = [task EXCEPT ![t] = [IdleTask EXCEPT !.pc = "select", !.scope = scope]]

\* DeviceService::revoke: the flag first, the sessions after it.
RevokeDevice(t, d) ==
  /\ At(t, "idle")
  /\ revoked' = [revoked EXCEPT ![d] = TRUE]
  /\ Select(t, {d})
  /\ UNCHANGED <<now, active, netVars, beatVars, aborts>>

\* UserService::update with active = false: the flag first, the sessions after it.
DisableUser(t, u) ==
  /\ At(t, "idle")
  /\ active' = [active EXCEPT ![u] = FALSE]
  /\ Select(t, DevicesOf(u))
  /\ UNCHANGED <<now, revoked, netVars, beatVars, aborts>>

\* UserService::delete: the sessions first. The DELETE after them changes
\* nothing for a user who has sessions: an audit event names them, and clearing
\* that reference is an UPDATE the audit log's trigger refuses.
DeleteUser(t, u) ==
  /\ At(t, "idle")
  /\ Select(t, DevicesOf(u))
  /\ UNCHANGED <<now, dirVars, netVars, beatVars, aborts>>

RevokeSelect(t) ==
  /\ At(t, "select")
  /\ Revoking(t, ActiveSessions(task[t].scope))
  /\ UNCHANGED <<now, dirVars, netVars, beatVars, aborts>>

\* revoke(): UPDATE ... WHERE status = 'active'. No row updated: nothing more is
\* done for this session. rest is what the handler revokes after it.
Mark(t, s, rest) ==
  /\ IF sessions[s].status = "active"
     THEN /\ SetStatus(s, "revoked")
          /\ task' = [task EXCEPT ![t] =
               [IdleTask EXCEPT !.pc = "unpeer", !.sid = s, !.todo = rest]]
     ELSE Revoking(t, rest) /\ UNCHANGED sessions
  /\ UNCHANGED <<now, dirVars, alloc, peers, version, beatVars, aborts>>

RevokeMark(t, s) ==
  /\ At(t, "mark")
  /\ s \in task[t].todo
  /\ Mark(t, s, task[t].todo \ {s})

\* DELETE /sessions/{id}
RevokeSession(t, s) ==
  /\ At(t, "idle")
  /\ sessions[s].status # "none"
  /\ Mark(t, s, {})

RevokePeer(t) ==
  /\ At(t, "unpeer")
  /\ peers' = [peers EXCEPT ![task[t].sid] = NoAddr]
  /\ Goto(t, "release")
  /\ UNCHANGED <<now, dirVars, sessions, alloc, version, beatVars, aborts>>

\* Mutant: the DELETE lost its WHERE session_id and empties the network.
ReleaseNetwork(t) ==
  /\ At(t, "release")
  /\ alloc' = [a \in Pool |-> NoSession]
  /\ Goto(t, "rbump")
  /\ UNCHANGED <<now, dirVars, sessions, peers, version, beatVars, aborts>>

\* release_session(): DELETE FROM ipam_allocations WHERE session_id
RevokeRelease(t) ==
  /\ At(t, "release")
  /\ alloc' = [a \in Pool |-> IF alloc[a] = task[t].sid THEN NoSession ELSE alloc[a]]
  /\ Goto(t, "rbump")
  /\ UNCHANGED <<now, dirVars, sessions, peers, version, beatVars, aborts>>

\* Mutant: the revocation does not move the configuration version.
RevokeBumpMissing(t) ==
  /\ At(t, "rbump")
  /\ Revoking(t, task[t].todo)
  /\ UNCHANGED <<now, dirVars, netVars, beatVars, aborts>>

RevokeBump(t) ==
  /\ At(t, "rbump")
  /\ Bump(sessions[task[t].sid].gateway)
  /\ Revoking(t, task[t].todo)
  /\ UNCHANGED <<now, dirVars, sessions, alloc, peers, beatVars, aborts>>

\* A handler is dropped between two statements.
Abort(t) ==
  /\ ~At(t, "idle")
  /\ aborts < MaxAborts
  /\ aborts' = aborts + 1
  /\ Finish(t)
  /\ UNCHANGED <<now, dirVars, netVars, beatVars>>

-----------------------------------------------------------------------------
(* Administration that gives access back.                                  *)

\* UserService::update with active = true.
EnableUser(u) ==
  /\ ~active[u]
  /\ active' = [active EXCEPT ![u] = TRUE]
  /\ UNCHANGED <<now, revoked, netVars, task, beatVars, aborts>>

\* DeviceService::register with a known key, by any active user: ON CONFLICT
\* sets revoked = FALSE and leaves the owner.
Reregister(d) ==
  /\ revoked[d]
  /\ \E u \in Users : active[u]
  /\ revoked' = [revoked EXCEPT ![d] = FALSE]
  /\ UNCHANGED <<now, active, netVars, task, beatVars, aborts>>

-----------------------------------------------------------------------------
(* POST /gateways/{id}/heartbeat: one outstanding per gateway.             *)

BeatTo(g, step) == beat' = [beat EXCEPT ![g].pc = step]
BeatDone(g) == beat' = [beat EXCEPT ![g] = IdleBeat]

\* The gateway row is read: the version the reply will carry is fixed here,
\* before the peers are read.
HeartbeatStart(g) ==
  /\ beat[g].pc = "idle"
  /\ beat' = [beat EXCEPT ![g] = [pc |-> "expire", version |-> version[g]]]
  /\ UNCHANGED <<now, dirVars, netVars, task, reply, aborts>>

\* Mutant: sessions are expired two units ahead of time.
ConfigExpireEarly(g) ==
  /\ beat[g].pc = "expire"
  /\ sessions' = [s \in Sids |->
       IF /\ sessions[s].status = "active"
          /\ sessions[s].gateway = g
          /\ sessions[s].expires < now + 2
       THEN [sessions[s] EXCEPT !.status = "expired"] ELSE sessions[s]]
  /\ BeatTo(g, "purge")
  /\ UNCHANGED <<now, dirVars, alloc, peers, version, task, reply, aborts>>

\* UPDATE sessions SET status = 'expired' WHERE ... expires_at < NOW()
ConfigExpire(g) ==
  /\ beat[g].pc = "expire"
  /\ sessions' = [s \in Sids |->
       IF /\ sessions[s].status = "active"
          /\ sessions[s].gateway = g
          /\ sessions[s].expires < now
       THEN [sessions[s] EXCEPT !.status = "expired"] ELSE sessions[s]]
  /\ BeatTo(g, "purge")
  /\ UNCHANGED <<now, dirVars, alloc, peers, version, task, reply, aborts>>

\* DELETE FROM wireguard_peers WHERE ... expires_at < NOW()
ConfigPurge(g) ==
  /\ beat[g].pc = "purge"
  /\ peers' = [s \in Sids |->
       IF sessions[s].gateway = g /\ sessions[s].expires < now
       THEN NoAddr ELSE peers[s]]
  /\ BeatTo(g, "select")
  /\ UNCHANGED <<now, dirVars, sessions, alloc, version, task, reply, aborts>>

\* The peers of g's active sessions that have not expired.
Served(g) ==
  {p \in [sid : Sids, addr : Pool] :
     /\ peers[p.sid] = p.addr
     /\ sessions[p.sid].gateway = g
     /\ sessions[p.sid].status = "active"
     /\ sessions[p.sid].expires > now}

ConfigSelect(g) ==
  /\ beat[g].pc = "select"
  /\ reply' = [reply EXCEPT ![g] = [version |-> beat[g].version, peers |-> Served(g)]]
  /\ BeatDone(g)
  /\ UNCHANGED <<now, dirVars, netVars, task, aborts>>

\* The heartbeat is dropped: the gateway hears nothing and will ask again.
HeartbeatLost(g) ==
  /\ beat[g].pc # "idle"
  /\ BeatDone(g)
  /\ UNCHANGED <<now, dirVars, netVars, task, reply, aborts>>

-----------------------------------------------------------------------------
CreateStep(t) ==
  \/ CreateDevice(t) \/ CreateDeny(t)
  \/ \E s \in Sids, g \in Gateways, life \in Lifetimes : CreateInsert(t, s, g, life)
  \/ AllocateScan(t) \/ AllocateInsert(t)
  \/ CreateSetIp(t) \/ CreatePeer(t) \/ CreateBump(t)

RevokeStep(t) ==
  \/ RevokeSelect(t)
  \/ \E s \in Sids : RevokeMark(t, s)
  \/ RevokePeer(t) \/ RevokeRelease(t) \/ RevokeBump(t)

Request(t) ==
  \/ \E d \in Devices : CreateStart(t, d)
  \/ \E s \in Sids : RevokeSession(t, s)
  \/ \E d \in Devices : RevokeDevice(t, d)
  \/ \E u \in Users : DisableUser(t, u) \/ DeleteUser(t, u)

BeatStep(g) == ConfigExpire(g) \/ ConfigPurge(g) \/ ConfigSelect(g)

Next ==
  \/ Tick
  \/ \E t \in Tasks : Request(t) \/ CreateStep(t) \/ RevokeStep(t) \/ Abort(t)
  \/ \E u \in Users : EnableUser(u)
  \/ \E d \in Devices : Reregister(d)
  \/ \E g \in Gateways : HeartbeatStart(g) \/ BeatStep(g) \/ HeartbeatLost(g)

Spec == Init /\ [][Next]_vars

-----------------------------------------------------------------------------
\* Every variable holds rows, handler states and configurations of its shape.
TypeOK ==
  /\ now \in Nat /\ aborts \in Nat
  /\ active \in [Users -> BOOLEAN]
  /\ revoked \in [Devices -> BOOLEAN]
  /\ sessions \in [Sids -> Row]
  /\ alloc \in [Pool -> Sids \union {NoSession}]
  /\ peers \in [Sids -> Pool \union {NoAddr}]
  /\ version \in [Gateways -> Nat]
  /\ task \in [Tasks -> Task]
  /\ beat \in [Gateways -> [pc : {"idle", "expire", "purge", "select"}, version : Nat]]
  /\ reply \in [Gateways -> [version : Int, peers : SUBSET Peer]]

\* identity_by_ip(a): the sessions the query behind the edge proxies' lookup
\* matches.
IdentityByIp(a) ==
  {s \in Sids :
     /\ sessions[s].ip = a
     /\ sessions[s].status = "active"
     /\ sessions[s].expires > now
     /\ active[Owner[sessions[s].device]]}

(***************************************************************************)
(* An overlay address identifies one session: identity_by_ip never has two *)
(* candidates, whatever creations and revocations raced for the address    *)
(* ("one client cannot borrow another's identity", sessions.rs).           *)
(***************************************************************************)
IdentityUnambiguous ==
  \A a \in Pool : \A s1, s2 \in IdentityByIp(a) : s1 = s2

(***************************************************************************)
(* A live session's address is allocated to it, in the sessions row and in *)
(* the peer row: no release that raced the creation took it away.          *)
(***************************************************************************)
LiveSessionOwnsAddress ==
  \A s \in Sids : sessions[s].status = "active" =>
    /\ sessions[s].ip # NoAddr => alloc[sessions[s].ip] = s
    /\ peers[s] # NoAddr => peers[s] = sessions[s].ip

(***************************************************************************)
(* What the handlers in flight rely on between two statements. A creation  *)
(* that has inserted its session is the only one working on it, and finds  *)
(* the row as it left it; the address it allocated is still its own unless *)
(* the session was revoked meanwhile. A revocation past its first          *)
(* statement works on a session that is no longer active. This is the      *)
(* strengthening that makes LiveSessionOwnsAddress inductive.              *)
(***************************************************************************)
Creating(t) == task[t].pc \in {"scan", "alloc", "ip", "peer", "bump"}

CreationOwnsRow(t) ==
  LET s == task[t].sid IN
  Creating(t) =>
    /\ s \in Sids
    /\ sessions[s].status # "none"
    /\ task[t].pc # "bump" => peers[s] = NoAddr
    /\ task[t].pc \in {"scan", "alloc", "ip"} => sessions[s].ip = NoAddr
    /\ task[t].pc \in {"alloc", "ip", "peer"} => task[t].addr \in Pool
    /\ task[t].pc = "ip" /\ sessions[s].status = "active" => alloc[task[t].addr] = s
    /\ task[t].pc = "peer" => sessions[s].ip = task[t].addr

Revoked(t) == task[t].pc \in {"unpeer", "release", "rbump"}

HandlersOwnTheirRows ==
  /\ \A t \in Tasks : CreationOwnsRow(t)
  /\ \A t1, t2 \in Tasks :
       Creating(t1) /\ Creating(t2) /\ task[t1].sid = task[t2].sid => t1 = t2
  /\ \A t \in Tasks : Revoked(t) =>
       task[t].sid \in Sids /\ sessions[task[t].sid].status = "revoked"
  /\ \A s \in Sids : sessions[s].status = "none" => peers[s] = NoAddr

(***************************************************************************)
(* No configuration gives one overlay address to two peers: the gateway's  *)
(* allowed-ips would route it to whichever was set last.                   *)
(***************************************************************************)
ReplyAddressesDistinct ==
  \A g \in Gateways : \A p, q \in reply[g].peers : p.addr = q.addr => p = q

\* A handler that has changed g's served set and not yet moved its version.
PendingBump(g) ==
  \E t \in Tasks :
    \/ At(t, "bump") /\ task[t].gateway = g
    \/ /\ Revoked(t)
       /\ sessions[task[t].sid].gateway = g

(***************************************************************************)
(* A gateway whose configuration carries the current version has the       *)
(* current peers, expired ones aside: a creation or revocation is never    *)
(* hidden behind a version number the gateway already holds. The gateway   *)
(* skips a configuration whose version it has applied, so this is what     *)
(* makes revocation reach the data plane. It needs every handler that      *)
(* changed the peers to have reached its bump.                             *)
(***************************************************************************)
VersionCoversPeers ==
  \A g \in Gateways :
    /\ aborts = 0
    /\ reply[g].version = version[g]
    /\ ~PendingBump(g)
    => {p \in reply[g].peers : sessions[p.sid].expires > now} = Served(g)

(***************************************************************************)
(* An address leaves a session only once that session has stopped being    *)
(* active, and never passes to another session without being free first.   *)
(***************************************************************************)
AddressHandover ==
  [][\A a \in Pool : alloc[a] # NoSession /\ alloc'[a] # alloc[a] =>
        alloc'[a] = NoSession /\ sessions[alloc[a]].status # "active"]_vars

Quiet == \A t \in Tasks : At(t, "idle")

(***************************************************************************)
(* docs/SECURITY.md: sessions are "revoked on user disable". With no       *)
(* handler in flight and none ever dropped, no gateway is served a peer of *)
(* a disabled account.                                                     *)
(***************************************************************************)
DisabledUserUnserved ==
  Quiet /\ aborts = 0 =>
    \A g \in Gateways : \A p \in Served(g) : active[Owner[sessions[p.sid].device]]
=============================================================================
