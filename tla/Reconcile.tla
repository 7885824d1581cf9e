----------------------------- MODULE Reconcile -----------------------------
(***************************************************************************)
(* The gateway: the heartbeat loop of main.rs, the diff of wg.rs between   *)
(* the peers the control plane serves and those on the interface, and its  *)
(* application command by command in apply.rs.                             *)
(*                                                                         *)
(* The control plane is reduced to what module Sessions shows of it: the   *)
(* peers it serves have distinct addresses; a handler changes them first   *)
(* and moves the version after; a reply's version is read before its       *)
(* peers; expiry moves no version and frees no address.                    *)
(*                                                                         *)
(* Simplifications:                                                        *)
(*  - manage_interface = true (otherwise the plan is only logged);         *)
(*  - the kernel keeps peers in a table keyed by public key; an allowed-ip *)
(*    belongs to one peer, and giving it to a peer takes it from another;  *)
(*  - the peers of one configuration come in no particular order, as the   *)
(*    query that reads them states none.                                   *)
(***************************************************************************)
EXTENDS Integers, FiniteSets

CONSTANTS
  Keys,             \* public keys of devices
  ForeignKeys,      \* public keys of the hub's other peers
  Managed,          \* addresses inside the managed range
  Outside,          \* all other allowed-ips
  MaxChanges,       \* bound on creations and revocations
  MaxExpiries,      \* bound on expiries
  MaxFailures,      \* bound on failed heartbeats and commands
  MaxReadFailures,  \* bound on failures of wg show
  MaxRestarts       \* bound on restarts of the gateway

ASSUME KeysAssumption ==
  /\ Keys \intersect ForeignKeys = {}
  /\ Managed \intersect Outside = {}

ASSUME BoundsAssumption ==
  {MaxChanges, MaxExpiries, MaxFailures, MaxReadFailures, MaxRestarts} \subseteq Nat

VARIABLES
  served,   \* the peers config() would select now
  version,  \* gateways.config_version
  pending,  \* handlers that changed served and have not moved the version yet
  expired,  \* the peers that left served by expiring
  on,       \* the keys of the peers on the interface
  routes,   \* the allowed-ips of each, {} for a key that is not there
  pc,       \* where the loop is
  got,      \* the configuration the loop is working on
  plan,     \* what is left of the ReconcilePlan
  last,     \* last_version
  faults    \* how often each bounded fault has happened

controlVars == <<served, version, pending, expired>>
wireVars    == <<on, routes>>
loopVars    == <<pc, got, plan, last>>
vars == <<controlVars, wireVars, loopVars, faults>>

AllKeys == Keys \union ForeignKeys
Addrs   == Managed \union Outside

\* A GatewayPeer: create() gives every peer exactly one allowed-ip, its address.
GatewayPeer == [key : Keys, addr : Managed]

NoPlan == [add |-> {}, update |-> {}, remove |-> {}]

Faults == {"change", "expiry", "failure", "read", "restart"}

Limit == [f \in Faults |->
  CASE f = "change" -> MaxChanges [] f = "expiry" -> MaxExpiries
    [] f = "failure" -> MaxFailures [] f = "read" -> MaxReadFailures
    [] f = "restart" -> MaxRestarts]

Spend(f) == faults[f] < Limit[f] /\ faults' = [faults EXCEPT ![f] = @ + 1]

KeysOf(P) == {p.key : p \in P}

Init ==
  /\ served = {} /\ version = 0 /\ pending = 0 /\ expired = {}
  /\ on = ForeignKeys
  \* A hub's own peer may straddle the boundary of the managed range.
  /\ routes \in [AllKeys -> SUBSET Addrs]
  /\ \A k \in Keys : routes[k] = {}
  /\ \A k \in ForeignKeys : ~ routes[k] \subseteq Managed
  /\ \A j, k \in AllKeys : j # k => routes[j] \intersect routes[k] = {}
  /\ pc = "sleep" /\ got = [version |-> -1, peers |-> {}] /\ plan = NoPlan
  /\ last = -1
  /\ faults = [f \in Faults |-> 0]

-----------------------------------------------------------------------------
(* The control plane.                                                      *)

\* create() adds the peer row. No address is used twice, and the address of an
\* expired session is still allocated.
Serve(p) ==
  /\ \A q \in served \union expired : q.addr # p.addr
  /\ Spend("change")
  /\ served' = served \union {p}
  /\ pending' = pending + 1
  /\ UNCHANGED <<version, expired, wireVars, loopVars>>

\* revoke() marks the session, and config() stops selecting its peer.
Revoke(p) ==
  /\ p \in served
  /\ Spend("change")
  /\ served' = served \ {p}
  /\ pending' = pending + 1
  /\ UNCHANGED <<version, expired, wireVars, loopVars>>

\* The handler reaches its last statement.
MoveVersion ==
  /\ pending > 0
  /\ pending' = pending - 1
  /\ version' = version + 1
  /\ UNCHANGED <<served, expired, wireVars, loopVars, faults>>

\* expires_at passes: config() expires the session and deletes the peer row.
Expire(p) ==
  /\ p \in served
  /\ Spend("expiry")
  /\ served' = served \ {p}
  /\ expired' = expired \union {p}
  /\ UNCHANGED <<version, pending, wireVars, loopVars>>

-----------------------------------------------------------------------------
(* The interface: wg set ... peer <k> allowed-ips <A>, and ... remove.     *)

SetPeer(k, A) ==
  /\ on' = on \union {k}
  /\ routes' = [j \in AllKeys |-> IF j = k THEN A ELSE routes[j] \ A]

RemovePeer(k) ==
  /\ on' = on \ {k}
  /\ routes' = [routes EXCEPT ![k] = {}]

\* Whoever else manages the hub, in a range disjoint from the managed one and
\* without taking an allowed-ip from another peer of the hub.
ForeignChange(k) ==
  /\ \/ \E A \in SUBSET Outside :
          /\ A # {} /\ \A j \in ForeignKeys \ {k} : A \intersect routes[j] = {}
          /\ SetPeer(k, A)
     \/ RemovePeer(k)
  /\ UNCHANGED <<controlVars, loopVars, faults>>

-----------------------------------------------------------------------------
(* The loop.                                                               *)

Sleep == pc' = "sleep" /\ got' = [version |-> -1, peers |-> {}] /\ plan' = NoPlan

\* The heartbeat reaches config(), which reads the gateway's row.
HeartbeatVersion ==
  /\ pc = "sleep"
  /\ pc' = "reply"
  /\ got' = [version |-> version, peers |-> {}]
  /\ UNCHANGED <<controlVars, wireVars, plan, last, faults>>

\* config() reads the peers and the gateway gets the reply: a version it has
\* applied is not looked at again.
HeartbeatPeers ==
  /\ pc = "reply"
  /\ IF got.version = last
     THEN Sleep
     ELSE pc' = "read" /\ got' = [got EXCEPT !.peers = served] /\ UNCHANGED plan
  /\ UNCHANGED <<controlVars, wireVars, last, faults>>

\* The heartbeat failed, or the configuration or one of its peers had expired by
\* the time it was looked at.
Refuse ==
  /\ pc \in {"reply", "read"}
  /\ Spend("failure")
  /\ Sleep
  /\ UNCHANGED <<controlVars, wireVars, last>>

\* Mutant: one allowed-ip inside the range is enough.
IsManagedAny(k) == routes[k] \intersect Managed # {}

\* is_managed(): every allowed-ip lies inside the range, and there is one. With
\* no range (Managed = {}) nothing is managed.
IsManaged(k) == routes[k] # {} /\ routes[k] \subseteq Managed

\* Mutant: a peer that is already there counts as up to date.
PlanNoUpdate(desired, live) ==
  [add    |-> {p \in desired : p.key \notin live},
   update |-> {},
   remove |-> {k \in live : k \notin KeysOf(desired) /\ IsManaged(k)}]

\* Mutant: the keys to remove are looked up among the peers to add.
PlanNoRemove(desired, live) ==
  [add    |-> {p \in desired : p.key \notin live},
   update |-> {p \in desired : p.key \in live /\ routes[p.key] # {p.addr}},
   remove |-> {k \in KeysOf({p \in desired : p.key \notin live}) : IsManaged(k)}]

\* wg::plan
Plan(desired, live) ==
  [add    |-> {p \in desired : p.key \notin live},
   update |-> {p \in desired : p.key \in live /\ routes[p.key] # {p.addr}},
   remove |-> {k \in live : k \notin KeysOf(desired) /\ IsManaged(k)}]

ReadLive ==
  /\ pc = "read"
  /\ plan' = Plan(got.peers, on)
  /\ pc' = "apply"
  /\ UNCHANGED <<controlVars, wireVars, got, last, faults>>

\* wg show fails: the interface is taken to be empty.
ReadFails ==
  /\ pc = "read"
  /\ Spend("read")
  /\ plan' = Plan(got.peers, {})
  /\ pc' = "apply"
  /\ UNCHANGED <<controlVars, wireVars, got, last>>

\* plan.add, then plan.update.
ApplySet ==
  /\ pc = "apply"
  /\ \/ \E p \in plan.add :
          SetPeer(p.key, {p.addr}) /\ plan' = [plan EXCEPT !.add = @ \ {p}]
     \/ /\ plan.add = {}
        /\ \E p \in plan.update :
             SetPeer(p.key, {p.addr}) /\ plan' = [plan EXCEPT !.update = @ \ {p}]
  /\ UNCHANGED <<controlVars, pc, got, last, faults>>

ApplyRemove ==
  /\ pc = "apply"
  /\ plan.add = {} /\ plan.update = {}
  /\ \E k \in plan.remove :
       RemovePeer(k) /\ plan' = [plan EXCEPT !.remove = @ \ {k}]
  /\ UNCHANGED <<controlVars, pc, got, last, faults>>

\* Mutant: the version counts as applied although a command failed.
ApplyFailForgets ==
  /\ pc = "apply" /\ plan # NoPlan
  /\ Spend("failure")
  /\ last' = got.version
  /\ Sleep
  /\ UNCHANGED <<controlVars, wireVars>>

\* A command fails: the rest of the plan is dropped, last_version stays.
ApplyFail ==
  /\ pc = "apply" /\ plan # NoPlan
  /\ Spend("failure")
  /\ Sleep
  /\ UNCHANGED <<controlVars, wireVars, last>>

ApplyDone ==
  /\ pc = "apply" /\ plan = NoPlan
  /\ last' = got.version
  /\ Sleep
  /\ UNCHANGED <<controlVars, wireVars, faults>>

\* Mutant: last_version survives the restart.
RestartResumes ==
  /\ Spend("restart")
  /\ Sleep
  /\ on' \in {on, on \intersect ForeignKeys}
  /\ routes' = [k \in AllKeys |-> IF k \in on' THEN routes[k] ELSE {}]
  /\ UNCHANGED <<controlVars, last>>

\* The process restarts, at any point; the host may have restarted with it, and
\* then the hub has put back its own peers only.
Restart ==
  /\ Spend("restart")
  /\ Sleep
  /\ last' = -1
  /\ on' \in {on, on \intersect ForeignKeys}
  /\ routes' = [k \in AllKeys |-> IF k \in on' THEN routes[k] ELSE {}]
  /\ UNCHANGED controlVars

-----------------------------------------------------------------------------
Control == \/ \E p \in GatewayPeer : Serve(p) \/ Revoke(p) \/ Expire(p)
           \/ MoveVersion

Apply == ApplySet \/ ApplyRemove \/ ApplyFail \/ ApplyDone

Loop == HeartbeatVersion \/ HeartbeatPeers \/ Refuse \/ ReadLive \/ ReadFails \/ Apply

Next ==
  \/ Control
  \/ \E k \in ForeignKeys : ForeignChange(k)
  \/ Loop
  \/ Restart

Spec == Init /\ [][Next]_vars

\* The loop keeps running and a handler reaches its last statement; neither is
\* ever blocked by another process.
Fairness == WF_vars(Loop) /\ WF_vars(MoveVersion)

FairSpec == Spec /\ Fairness

-----------------------------------------------------------------------------
\* Peers, plans and the interface keep their shape.
TypeOK ==
  /\ served \subseteq GatewayPeer /\ expired \subseteq GatewayPeer
  /\ version \in Nat /\ pending \in Nat
  /\ on \subseteq AllKeys
  /\ routes \in [AllKeys -> SUBSET Addrs]
  /\ pc \in {"sleep", "reply", "read", "apply"}
  /\ got \in [version : Int, peers : SUBSET GatewayPeer]
  /\ plan \in [add : SUBSET GatewayPeer, update : SUBSET GatewayPeer,
               remove : SUBSET AllKeys]
  /\ last \in Int
  /\ faults \in [Faults -> Nat]

\* The gateway has applied the version the control plane is at, and no handler
\* is about to move it.
Settled == last = version /\ pending = 0

(***************************************************************************)
(* Once the gateway has settled on a version, every device that is served  *)
(* has its peer on the interface with one address, served or expired, of   *)
(* its own, whatever failed, restarted or raced on the way.                *)
(***************************************************************************)
DesiredOnWire ==
  Settled => \A p \in served : \E q \in served \union expired :
               q.key = p.key /\ p.key \in on /\ routes[p.key] = {q.addr}

(***************************************************************************)
(* apply.rs calls removal the step "that makes revocation real". Once the  *)
(* gateway has settled on a version, a device that is not served and did   *)
(* not expire routes nothing.                                              *)
(***************************************************************************)
RevokedOffWire ==
  Settled => \A k \in Keys \ KeysOf(served \union expired) : routes[k] = {}

(***************************************************************************)
(* As long as every reading of the interface has succeeded, that is so: no *)
(* lost heartbeat, failed command, restart or race loses a revocation.     *)
(***************************************************************************)
RevokedLeavesWire == faults["read"] = 0 => RevokedOffWire

(***************************************************************************)
(* What the loop relies on between two of its commands, and why the two    *)
(* properties above hold: versions only grow and the loop never works on   *)
(* one it has applied; peers read under the current version are the        *)
(* current ones; what is not yet right on the interface is still in the    *)
(* plan; a device's peer is always inside the managed range and a peer of  *)
(* the hub never is.                                                       *)
(***************************************************************************)
VersionsGrow ==
  /\ -1 <= last /\ last <= version
  /\ pc # "sleep" => last <= got.version /\ got.version <= version
  /\ pc \in {"read", "apply"} => last < got.version

AddressesDistinct ==
  /\ \A p, q \in served \union expired : p.addr = q.addr => p = q
  /\ \A p, q \in got.peers : p.addr = q.addr => p = q

GotIsCurrent ==
  pc \in {"read", "apply"} /\ got.version = version /\ pending = 0 =>
    served \subseteq got.peers /\ got.peers \subseteq served \union expired

PlanCoversRest ==
  pc = "apply" =>
    /\ plan.add \union plan.update \subseteq got.peers
    /\ \A p \in got.peers :
         \/ \E q \in plan.add \union plan.update : q.key = p.key
         \/ \E q \in got.peers : q.key = p.key /\ p.key \in on /\ routes[p.key] = {q.addr}
    /\ faults["read"] = 0 =>
         \A k \in Keys \ KeysOf(got.peers) : routes[k] = {} \/ k \in plan.remove

WireScoped ==
  /\ \A k \in Keys : routes[k] \subseteq Managed /\ (k \notin on => routes[k] = {})
  /\ \A k \in ForeignKeys \intersect on : ~ routes[k] \subseteq Managed
  /\ plan.remove \intersect ForeignKeys = {}
  /\ pc = "apply" => plan.remove \intersect KeysOf(got.peers) = {}

LoopInv ==
  VersionsGrow /\ AddressesDistinct /\ GotIsCurrent /\ PlanCoversRest /\ WireScoped

(***************************************************************************)
(* Reconciling never deletes a peer of the hub, nor takes from it an       *)
(* allowed-ip outside the managed range ("foreign: none, ever").           *)
(***************************************************************************)
ForeignUntouched ==
  [][Apply => \A k \in ForeignKeys :
       /\ k \in on => k \in on'
       /\ routes'[k] \intersect Outside = routes[k] \intersect Outside]_vars

(***************************************************************************)
(* Convergence: once creations, revocations and faults cease, every served *)
(* device keeps a peer on the interface and, unless the interface could    *)
(* not be read at some point, no revoked one routes anything.              *)
(***************************************************************************)
Converges ==
  <>[](/\ KeysOf(served) \subseteq on
       /\ \A k \in KeysOf(served) : routes[k] # {}
       /\ faults["read"] = 0 =>
            \A k \in Keys \ KeysOf(served \union expired) : routes[k] = {})
=============================================================================
