-------------------------- MODULE ReconcileProofs --------------------------
(***************************************************************************)
(* Proofs about Reconcile, for any number of devices, hub peers, addresses *)
(* and faults. The inductive invariant is TypeOK /\ LoopInv /\ OnWire,     *)
(* where OnWire is DesiredOnWire together with RevokedOffWire for a loop   *)
(* whose reads of the interface have not failed.                           *)
(***************************************************************************)
EXTENDS Reconcile, TLAPS

OnWire ==
  /\ DesiredOnWire
  /\ faults["read"] = 0 => RevokedOffWire

Inv == TypeOK /\ LoopInv /\ OnWire

-----------------------------------------------------------------------------
\* Every bounded fault is counted by a natural number.
LEMMA SpendType ==
  ASSUME NEW f \in Faults, faults \in [Faults -> Nat], Spend(f)
  PROVE  /\ faults' \in [Faults -> Nat]
         /\ f # "read" => faults'["read"] = faults["read"]
         /\ f = "read" => faults'["read"] # 0
BY DEF Spend, Faults

\* The plan of wg::plan is a plan.
LEMMA PlanType ==
  ASSUME NEW desired \in SUBSET GatewayPeer, NEW live \in SUBSET AllKeys
  PROVE  Plan(desired, live) \in [add : SUBSET GatewayPeer, update : SUBSET GatewayPeer,
                                  remove : SUBSET AllKeys]
BY DEF Plan

\* wg set and wg remove keep the interface a table of allowed-ips.
LEMMA WireType ==
  ASSUME on \subseteq AllKeys, routes \in [AllKeys -> SUBSET Addrs],
         NEW k \in AllKeys, NEW A \in SUBSET Addrs,
         SetPeer(k, A) \/ RemovePeer(k)
  PROVE  on' \subseteq AllKeys /\ routes' \in [AllKeys -> SUBSET Addrs]
BY DEF SetPeer, RemovePeer

LEMMA EmptyPlanType ==
  NoPlan \in [add : SUBSET GatewayPeer, update : SUBSET GatewayPeer, remove : SUBSET AllKeys]
BY DEF NoPlan

LEMMA TypeInit == Init => TypeOK
BY EmptyPlanType DEF Init, TypeOK, AllKeys, Addrs, Faults

LEMMA TypeNext == TypeOK /\ [Next]_vars => TypeOK'
<1> SUFFICES ASSUME TypeOK, [Next]_vars PROVE TypeOK'
  OBVIOUS
<1>1. ASSUME NEW p \in GatewayPeer, Serve(p) \/ Revoke(p) \/ Expire(p) PROVE TypeOK'
  <2>1. faults' \in [Faults -> Nat]
    BY <1>1, SpendType DEF TypeOK, Serve, Revoke, Expire, Faults
  <2> QED BY <1>1, <2>1 DEF TypeOK, Serve, Revoke, Expire, wireVars, loopVars
<1>2. CASE MoveVersion
  BY <1>2 DEF TypeOK, MoveVersion, wireVars, loopVars
<1>3. ASSUME NEW k \in ForeignKeys, ForeignChange(k) PROVE TypeOK'
  <2>1. k \in AllKeys /\ SUBSET Outside \subseteq SUBSET Addrs
    BY DEF AllKeys, Addrs
  <2>2. on' \subseteq AllKeys /\ routes' \in [AllKeys -> SUBSET Addrs]
    BY <1>3, <2>1, WireType DEF ForeignChange, TypeOK
  <2> QED BY <1>3, <2>2 DEF ForeignChange, TypeOK, controlVars, loopVars
<1>4. CASE HeartbeatVersion
  BY <1>4 DEF HeartbeatVersion, TypeOK, controlVars, wireVars
<1>5. CASE HeartbeatPeers
  BY <1>5, EmptyPlanType DEF HeartbeatPeers, Sleep, TypeOK, controlVars, wireVars
<1>6. CASE Refuse
  <2>1. faults' \in [Faults -> Nat]
    BY <1>6, SpendType DEF TypeOK, Refuse, Faults
  <2> QED BY <1>6, <2>1, EmptyPlanType DEF Refuse, Sleep, TypeOK, controlVars, wireVars
<1>7. CASE ReadLive
  BY <1>7, PlanType DEF ReadLive, TypeOK, controlVars, wireVars
<1>8. CASE ReadFails
  <2>1. faults' \in [Faults -> Nat]
    BY <1>8, SpendType DEF TypeOK, ReadFails, Faults
  <2> QED BY <1>8, <2>1, PlanType DEF ReadFails, TypeOK, controlVars, wireVars
<1>9. CASE ApplySet
  <2>1. PICK p \in plan.add \union plan.update :
           /\ SetPeer(p.key, {p.addr})
           /\ \/ plan' = [plan EXCEPT !.add = @ \ {p}]
              \/ plan' = [plan EXCEPT !.update = @ \ {p}]
    BY <1>9 DEF ApplySet
  <2>2. p.key \in AllKeys /\ {p.addr} \in SUBSET Addrs
    BY DEF TypeOK, GatewayPeer, AllKeys, Addrs
  <2>3. on' \subseteq AllKeys /\ routes' \in [AllKeys -> SUBSET Addrs]
    BY <2>1, <2>2, WireType DEF TypeOK
  <2> QED BY <1>9, <2>1, <2>3 DEF ApplySet, TypeOK, controlVars
<1>10. CASE ApplyRemove
  <2>1. PICK k \in plan.remove : RemovePeer(k) /\ plan' = [plan EXCEPT !.remove = @ \ {k}]
    BY <1>10 DEF ApplyRemove
  <2>2. on' \subseteq AllKeys /\ routes' \in [AllKeys -> SUBSET Addrs]
    BY <2>1, WireType DEF TypeOK
  <2> QED BY <1>10, <2>1, <2>2 DEF ApplyRemove, TypeOK, controlVars
<1>11. CASE ApplyFail
  <2>1. faults' \in [Faults -> Nat]
    BY <1>11, SpendType DEF TypeOK, ApplyFail, Faults
  <2> QED BY <1>11, <2>1, EmptyPlanType DEF ApplyFail, Sleep, TypeOK, controlVars, wireVars
<1>12. CASE ApplyDone
  BY <1>12, EmptyPlanType DEF ApplyDone, Sleep, TypeOK, controlVars, wireVars
<1>13. CASE Restart
  <2>1. faults' \in [Faults -> Nat]
    BY <1>13, SpendType DEF TypeOK, Restart, Faults
  <2>2. on' \subseteq AllKeys /\ routes' \in [AllKeys -> SUBSET Addrs]
    BY <1>13 DEF Restart, TypeOK
  <2> QED BY <1>13, <2>1, <2>2, EmptyPlanType DEF Restart, Sleep, TypeOK, controlVars
<1>14. CASE UNCHANGED vars
  BY <1>14 DEF TypeOK, vars, controlVars, wireVars, loopVars
<1> QED
  BY <1>1, <1>2, <1>3, <1>4, <1>5, <1>6, <1>7, <1>8, <1>9, <1>10, <1>11, <1>12, <1>13, <1>14
     DEF Next, Control, Loop, Apply

-----------------------------------------------------------------------------
(* Each part of LoopInv, over the steps that can disturb it.               *)

LEMMA InvInit == Init => Inv
<1> SUFFICES ASSUME Init PROVE LoopInv /\ OnWire
  BY TypeInit DEF Inv
<1>1. VersionsGrow /\ AddressesDistinct /\ GotIsCurrent /\ PlanCoversRest
  BY DEF Init, VersionsGrow, AddressesDistinct, GotIsCurrent, PlanCoversRest
<1>2. WireScoped
  BY KeysAssumption DEF Init, WireScoped, NoPlan
<1>3. ~Settled
  BY DEF Init, Settled
<1> QED BY <1>1, <1>2, <1>3 DEF LoopInv, OnWire, DesiredOnWire, RevokedOffWire

\* Serve, Revoke and Expire change what is served, and nothing on the gateway.
LEMMA ServedStep ==
  ASSUME Inv, NEW p \in GatewayPeer, Serve(p) \/ Revoke(p) \/ Expire(p)
  PROVE  LoopInv' /\ OnWire'
<1> USE DEF Inv, LoopInv
<1>0. /\ UNCHANGED <<version, wireVars, loopVars>>
      /\ faults'["read"] = faults["read"]
  BY SpendType DEF TypeOK, Serve, Revoke, Expire, Faults
<1>1. VersionsGrow'
  BY <1>0 DEF VersionsGrow, loopVars
<1>2. AddressesDistinct'
  BY <1>0 DEF AddressesDistinct, Serve, Revoke, Expire, loopVars
<1>3. PlanCoversRest' /\ WireScoped'
  BY <1>0 DEF PlanCoversRest, WireScoped, KeysOf, loopVars, wireVars
<1>4. CASE pending' # 0
  BY <1>0, <1>1, <1>2, <1>3, <1>4 DEF GotIsCurrent, OnWire, DesiredOnWire, RevokedOffWire, Settled
<1>5. CASE pending' = 0
  <2>1. Expire(p) /\ pending' = pending
    BY <1>5 DEF Serve, Revoke, Expire, TypeOK
  <2>2. served' \union expired' = served \union expired /\ served' \subseteq served
    BY <2>1 DEF Expire
  <2>3. GotIsCurrent'
    BY <1>0, <2>1, <2>2 DEF GotIsCurrent, loopVars
  <2>4. DesiredOnWire'
    BY <1>0, <2>1, <2>2 DEF OnWire, DesiredOnWire, Settled, loopVars, wireVars
  <2>5. KeysOf(served' \union expired') = KeysOf(served \union expired)
    BY <2>2
  <2>6. OnWire'
    BY <1>0, <2>1, <2>4, <2>5 DEF OnWire, RevokedOffWire, Settled, loopVars, wireVars
  <2> QED BY <1>1, <1>2, <1>3, <2>3, <2>6
<1> QED BY <1>4, <1>5

\* A version that moves is one the gateway has not applied.
LEMMA MoveVersionStep ==
  ASSUME Inv, MoveVersion
  PROVE  LoopInv' /\ OnWire'
<1> USE DEF Inv, LoopInv
<1>1. VersionsGrow' /\ last # version'
  BY DEF VersionsGrow, MoveVersion, TypeOK, loopVars
<1>2. AddressesDistinct' /\ PlanCoversRest' /\ WireScoped'
  BY DEF AddressesDistinct, PlanCoversRest, WireScoped, KeysOf, MoveVersion, loopVars, wireVars
<1>3. GotIsCurrent'
  BY DEF GotIsCurrent, VersionsGrow, MoveVersion, TypeOK, loopVars
<1>4. OnWire'
  BY <1>1 DEF OnWire, DesiredOnWire, RevokedOffWire, Settled, MoveVersion, loopVars
<1> QED BY <1>1, <1>2, <1>3, <1>4

\* The hub's other manager works outside the managed range.
LEMMA ForeignStep ==
  ASSUME Inv, NEW f \in ForeignKeys, ForeignChange(f)
  PROVE  LoopInv' /\ OnWire'
<1> USE DEF Inv, LoopInv
<1>1. UNCHANGED <<controlVars, loopVars, faults>>
  BY DEF ForeignChange
<1>a. f \notin Keys /\ f \in AllKeys /\ Keys \subseteq AllKeys /\ ForeignKeys \subseteq AllKeys
  BY KeysAssumption DEF AllKeys
<1>b. \A k \in Keys : routes[k] \subseteq Managed
  BY DEF WireScoped
<1>2. /\ \A k \in Keys : routes'[k] = routes[k] /\ (k \in on' <=> k \in on)
      /\ \A k \in ForeignKeys \intersect on' : ~ routes'[k] \subseteq Managed
  <2>1. ASSUME NEW A \in SUBSET Outside, A # {}, SetPeer(f, A),
               \A j \in ForeignKeys \ {f} : A \intersect routes[j] = {}
        PROVE  /\ \A k \in Keys : routes'[k] = routes[k] /\ (k \in on' <=> k \in on)
               /\ \A k \in ForeignKeys \intersect on' : ~ routes'[k] \subseteq Managed
    <3>1. \A k \in AllKeys : routes'[k] = IF k = f THEN A ELSE routes[k] \ A
      BY <2>1 DEF SetPeer
    <3>2. A \intersect Managed = {}
      BY <2>1, KeysAssumption
    <3>3. \A k \in Keys : routes'[k] = routes[k]
      BY <1>a, <1>b, <3>1, <3>2
    <3>4. ASSUME NEW k \in ForeignKeys \intersect on' PROVE ~ routes'[k] \subseteq Managed
      BY <1>a, <2>1, <3>1, <3>2 DEF WireScoped, SetPeer
    <3> QED BY <1>a, <2>1, <3>3, <3>4 DEF SetPeer
  <2>2. ASSUME RemovePeer(f)
        PROVE  /\ \A k \in Keys : routes'[k] = routes[k] /\ (k \in on' <=> k \in on)
               /\ \A k \in ForeignKeys \intersect on' : ~ routes'[k] \subseteq Managed
    BY <1>a, <2>2 DEF RemovePeer, WireScoped, TypeOK
  <2> QED BY <2>1, <2>2 DEF ForeignChange
<1>3. \A k \in ForeignKeys \intersect on' : ~ routes'[k] \subseteq Managed
  BY <1>2
<1>4. \A p \in got.peers \union served : p.key \in Keys
  BY DEF TypeOK, GatewayPeer
<1>5. VersionsGrow' /\ AddressesDistinct' /\ GotIsCurrent'
  BY <1>1 DEF VersionsGrow, AddressesDistinct, GotIsCurrent, controlVars, loopVars
<1>6. PlanCoversRest'
  <2> SUFFICES ASSUME pc = "apply" PROVE PlanCoversRest'
    BY <1>1 DEF PlanCoversRest, loopVars
  <2>1. plan.add \union plan.update \subseteq got.peers
    BY DEF PlanCoversRest
  <2>2. ASSUME NEW p \in got.peers
        PROVE  \/ \E q \in plan.add \union plan.update : q.key = p.key
               \/ \E q \in got.peers : q.key = p.key /\ p.key \in on' /\ routes'[p.key] = {q.addr}
    BY <1>2, <1>4 DEF PlanCoversRest
  <2>3. ASSUME faults["read"] = 0, NEW k \in Keys \ KeysOf(got.peers)
        PROVE  routes'[k] = {} \/ k \in plan.remove
    BY <1>2, <2>3 DEF PlanCoversRest
  <2>4. UNCHANGED <<pc, got, plan, faults>>
    BY <1>1 DEF loopVars
  <2> HIDE DEF Inv, LoopInv
  <2> QED BY <2>1, <2>2, <2>3, <2>4 DEF PlanCoversRest, KeysOf
<1>7. WireScoped'
  BY <1>1, <1>2, <1>3 DEF WireScoped, KeysOf, loopVars
<1>8. OnWire'
  BY <1>1, <1>2, <1>4
     DEF OnWire, DesiredOnWire, RevokedOffWire, Settled, KeysOf, controlVars, loopVars
<1> QED BY <1>5, <1>6, <1>7, <1>8

\* The loop goes back to sleep, or starts over, without having applied anything.
LEMMA SleepStep ==
  ASSUME Inv, Sleep, UNCHANGED <<controlVars, wireVars, last>>,
         faults'["read"] = faults["read"]
  PROVE  LoopInv' /\ OnWire'
<1> USE DEF Inv, LoopInv
<1>1. VersionsGrow' /\ AddressesDistinct' /\ GotIsCurrent' /\ PlanCoversRest'
  BY DEF VersionsGrow, AddressesDistinct, GotIsCurrent, PlanCoversRest, Sleep, controlVars
<1>2. WireScoped'
  BY DEF WireScoped, Sleep, NoPlan, KeysOf, wireVars
<1>3. OnWire'
  BY DEF OnWire, DesiredOnWire, RevokedOffWire, Settled, controlVars, wireVars
<1> QED BY <1>1, <1>2, <1>3

LEMMA HeartbeatVersionStep ==
  ASSUME Inv, HeartbeatVersion
  PROVE  LoopInv' /\ OnWire'
<1> USE DEF Inv, LoopInv
<1>1. VersionsGrow' /\ AddressesDistinct' /\ GotIsCurrent' /\ PlanCoversRest'
  BY DEF VersionsGrow, AddressesDistinct, GotIsCurrent, PlanCoversRest, HeartbeatVersion,
         controlVars, TypeOK
<1>2. WireScoped'
  BY DEF WireScoped, HeartbeatVersion, KeysOf, wireVars
<1>3. OnWire'
  BY DEF OnWire, DesiredOnWire, RevokedOffWire, Settled, HeartbeatVersion, controlVars, wireVars
<1> QED BY <1>1, <1>2, <1>3

LEMMA HeartbeatPeersStep ==
  ASSUME Inv, HeartbeatPeers
  PROVE  LoopInv' /\ OnWire'
<1> USE DEF Inv, LoopInv
<1>1. CASE got.version = last
  BY <1>1, SleepStep DEF HeartbeatPeers
<1>2. CASE got.version # last
  <2>0. /\ pc = "reply" /\ pc' = "read"
        /\ got'.version = got.version /\ got'.peers = served
        /\ UNCHANGED <<controlVars, wireVars, plan, last, faults>>
    BY <1>2 DEF HeartbeatPeers, TypeOK
  <2>a. last \in Int /\ got.version \in Int
    BY DEF TypeOK
  <2>1. VersionsGrow'
    BY <1>2, <2>0, <2>a DEF VersionsGrow, controlVars
  <2>2. AddressesDistinct' /\ GotIsCurrent' /\ PlanCoversRest'
    BY <2>0 DEF AddressesDistinct, GotIsCurrent, PlanCoversRest, controlVars
  <2>3. WireScoped'
    BY <2>0 DEF WireScoped, KeysOf, wireVars
  <2>4. OnWire'
    BY <2>0 DEF OnWire, DesiredOnWire, RevokedOffWire, Settled, controlVars, wireVars
  <2> QED BY <2>1, <2>2, <2>3, <2>4
<1> QED BY <1>1, <1>2

\* The plan made from a read of the interface, or from none.
LEMMA PlanStep ==
  ASSUME Inv, ReadLive \/ ReadFails
  PROVE  LoopInv' /\ OnWire'
<1> USE DEF Inv, LoopInv
<1>0. /\ pc = "read" /\ pc' = "apply"
      /\ UNCHANGED <<controlVars, wireVars, got, last>>
  BY DEF ReadLive, ReadFails
<1>1. VersionsGrow' /\ AddressesDistinct' /\ GotIsCurrent'
  BY <1>0 DEF VersionsGrow, AddressesDistinct, GotIsCurrent, controlVars
<1>2. OnWire'
  <2>1. ~Settled
    BY <1>0 DEF VersionsGrow, Settled, TypeOK
  <2> QED BY <1>0, <2>1 DEF OnWire, DesiredOnWire, RevokedOffWire, Settled, controlVars
<1>3. PICK live \in {on, {}} : /\ plan' = Plan(got.peers, live)
                               /\ faults'["read"] = 0 => live = on
  <2>1. CASE ReadLive
    BY <2>1 DEF ReadLive
  <2>2. CASE ReadFails
    <3>1. faults'["read"] # 0
      BY <2>2, SpendType DEF ReadFails, TypeOK, Faults
    <3> QED BY <2>2, <3>1 DEF ReadFails
  <2> QED BY <2>1, <2>2
<1>4. /\ plan'.add = {p \in got.peers : p.key \notin live}
      /\ plan'.update = {p \in got.peers : p.key \in live /\ routes[p.key] # {p.addr}}
      /\ plan'.remove = {k \in live : k \notin KeysOf(got.peers) /\ IsManaged(k)}
  BY <1>3 DEF Plan
<1>5. ASSUME NEW p \in got.peers
      PROVE  \/ \E q \in plan'.add \union plan'.update : q.key = p.key
             \/ p.key \in on /\ routes[p.key] = {p.addr}
  BY <1>3, <1>4
<1>6. ASSUME NEW k \in Keys \ KeysOf(got.peers), live = on
      PROVE  routes[k] = {} \/ k \in plan'.remove
  BY <1>4, <1>6 DEF WireScoped, IsManaged
<1>7. PlanCoversRest'
  BY <1>0, <1>3, <1>4, <1>5, <1>6 DEF PlanCoversRest, wireVars
<1>8. WireScoped'
  BY <1>0, <1>3, <1>4 DEF WireScoped, IsManaged, wireVars
<1> QED BY <1>1, <1>2, <1>7, <1>8

\* wg set of a planned peer: the addresses of one configuration are distinct,
\* so no peer that is already right loses its own.
LEMMA ApplySetStep ==
  ASSUME Inv, ApplySet
  PROVE  LoopInv' /\ OnWire'
<1> USE DEF Inv, LoopInv
<1>0. pc = "apply" /\ UNCHANGED <<controlVars, pc, got, last, faults>>
  BY DEF ApplySet
<1>1. PICK p \in plan.add \union plan.update :
         /\ SetPeer(p.key, {p.addr})
         /\ \/ plan' = [plan EXCEPT !.add = @ \ {p}]
            \/ plan' = [plan EXCEPT !.update = @ \ {p}]
  BY DEF ApplySet
<1>2. /\ plan'.remove = plan.remove
      /\ plan'.add \union plan'.update \subseteq plan.add \union plan.update
      /\ \A q \in plan.add \union plan.update : q # p => q \in plan'.add \union plan'.update
  BY <1>1 DEF TypeOK
<1>3. p \in got.peers /\ p.key \in Keys /\ p.addr \in Managed
  BY <1>0 DEF PlanCoversRest, TypeOK, GatewayPeer
<1>4. /\ on' = on \union {p.key}
      /\ \A j \in AllKeys : routes'[j] = IF j = p.key THEN {p.addr} ELSE routes[j] \ {p.addr}
  BY <1>1 DEF SetPeer
<1>5. Keys \subseteq AllKeys /\ ForeignKeys \subseteq AllKeys
  BY DEF AllKeys
<1>6. VersionsGrow' /\ AddressesDistinct' /\ GotIsCurrent'
  BY <1>0 DEF VersionsGrow, AddressesDistinct, GotIsCurrent, controlVars
<1>7. OnWire'
  <2>1. ~Settled
    BY <1>0 DEF VersionsGrow, Settled, TypeOK
  <2> QED BY <1>0, <2>1 DEF OnWire, DesiredOnWire, RevokedOffWire, Settled, controlVars
<1>8. ASSUME NEW q \in got.peers
      PROVE  \/ \E r \in plan'.add \union plan'.update : r.key = q.key
             \/ \E r \in got.peers : r.key = q.key /\ q.key \in on' /\ routes'[q.key] = {r.addr}
  <2>1. CASE q.key = p.key
    BY <1>3, <1>4, <1>5, <2>1
  <2>2. CASE q.key # p.key
    <3>1. q.key \in AllKeys
      BY <1>5 DEF TypeOK, GatewayPeer
    <3>2. CASE \E r \in plan.add \union plan.update : r.key = q.key
      BY <1>2, <2>2, <3>2
    <3>3. ASSUME NEW r \in got.peers, r.key = q.key, q.key \in on, routes[q.key] = {r.addr}
          PROVE  q.key \in on' /\ routes'[q.key] = {r.addr}
      <4>1. r.addr # p.addr
        BY <1>3, <2>2, <3>3 DEF AddressesDistinct
      <4> QED BY <1>4, <2>2, <3>1, <3>3, <4>1
    <3> QED BY <1>0, <3>2, <3>3 DEF PlanCoversRest
  <2> QED BY <2>1, <2>2
<1>9. ASSUME NEW k \in Keys \ KeysOf(got.peers), routes[k] = {} \/ k \in plan.remove
      PROVE  routes'[k] = {} \/ k \in plan'.remove
  <2>1. k # p.key
    BY <1>3 DEF KeysOf
  <2> QED BY <1>2, <1>4, <1>5, <1>9, <2>1
<1>10. PlanCoversRest'
  BY <1>0, <1>2, <1>8, <1>9 DEF PlanCoversRest
<1>11. WireScoped'
  <2>1. ASSUME NEW k \in Keys PROVE routes'[k] \subseteq Managed /\ (k \notin on' => routes'[k] = {})
    <3>1. routes[k] \subseteq Managed /\ (k \notin on => routes[k] = {})
      BY DEF WireScoped
    <3>2. routes'[k] = IF k = p.key THEN {p.addr} ELSE routes[k] \ {p.addr}
      BY <1>4, <1>5
    <3> QED BY <1>3, <1>4, <3>1, <3>2
  <2>2. ASSUME NEW k \in ForeignKeys \intersect on' PROVE ~ routes'[k] \subseteq Managed
    <3>1. k # p.key /\ k \in on /\ k \in AllKeys
      BY <1>3, <1>4, <1>5, KeysAssumption
    <3> QED BY <1>3, <1>4, <3>1 DEF WireScoped
  <2> QED BY <1>0, <1>2, <2>1, <2>2 DEF WireScoped
<1> QED BY <1>6, <1>7, <1>10, <1>11

\* wg remove of a planned key: a device of this configuration is never among
\* them.
LEMMA ApplyRemoveStep ==
  ASSUME Inv, ApplyRemove
  PROVE  LoopInv' /\ OnWire'
<1> USE DEF Inv, LoopInv
<1>0. /\ pc = "apply" /\ plan.add = {} /\ plan.update = {}
      /\ UNCHANGED <<controlVars, pc, got, last, faults>>
  BY DEF ApplyRemove
<1>1. PICK k \in plan.remove : RemovePeer(k) /\ plan' = [plan EXCEPT !.remove = @ \ {k}]
  BY DEF ApplyRemove
<1>2. /\ plan'.remove = plan.remove \ {k}
      /\ plan'.add = {} /\ plan'.update = {}
  BY <1>0, <1>1 DEF TypeOK
<1>3. /\ on' = on \ {k}
      /\ \A j \in AllKeys : routes'[j] = IF j = k THEN {} ELSE routes[j]
  BY <1>1 DEF RemovePeer, TypeOK
<1>4. /\ Keys \subseteq AllKeys /\ ForeignKeys \subseteq AllKeys
      /\ k \notin ForeignKeys /\ k \notin KeysOf(got.peers)
  BY <1>0, <1>1 DEF AllKeys, WireScoped
<1>5. VersionsGrow' /\ AddressesDistinct' /\ GotIsCurrent'
  BY <1>0 DEF VersionsGrow, AddressesDistinct, GotIsCurrent, controlVars
<1>6. OnWire'
  <2>1. ~Settled
    BY <1>0 DEF VersionsGrow, Settled, TypeOK
  <2> QED BY <1>0, <2>1 DEF OnWire, DesiredOnWire, RevokedOffWire, Settled, controlVars
<1>7. ASSUME NEW p \in got.peers
      PROVE  \E q \in got.peers : q.key = p.key /\ p.key \in on' /\ routes'[p.key] = {q.addr}
  <2>1. p.key # k /\ p.key \in AllKeys
    BY <1>4 DEF KeysOf, TypeOK, GatewayPeer
  <2>2. \E q \in got.peers : q.key = p.key /\ p.key \in on /\ routes[p.key] = {q.addr}
    BY <1>0 DEF PlanCoversRest
  <2> QED BY <1>3, <2>1, <2>2
<1>8. ASSUME NEW j \in Keys, routes[j] = {} \/ j \in plan.remove
      PROVE  routes'[j] = {} \/ j \in plan'.remove
  BY <1>2, <1>3, <1>4, <1>8
<1>9. PlanCoversRest'
  BY <1>0, <1>2, <1>7, <1>8 DEF PlanCoversRest
<1>10. WireScoped'
  <2>1. ASSUME NEW j \in Keys PROVE routes'[j] \subseteq Managed /\ (j \notin on' => routes'[j] = {})
    <3>1. routes[j] \subseteq Managed /\ (j \notin on => routes[j] = {})
      BY DEF WireScoped
    <3> QED BY <1>3, <1>4, <3>1
  <2>2. ASSUME NEW j \in ForeignKeys \intersect on' PROVE ~ routes'[j] \subseteq Managed
    BY <1>3, <1>4 DEF WireScoped
  <2> QED BY <1>0, <1>2, <2>1, <2>2 DEF WireScoped
<1> QED BY <1>5, <1>6, <1>9, <1>10

\* The plan is done: everything the configuration asks for is on the interface.
LEMMA ApplyDoneStep ==
  ASSUME Inv, ApplyDone
  PROVE  LoopInv' /\ OnWire'
<1> USE DEF Inv, LoopInv
<1>0. /\ pc = "apply" /\ plan.add = {} /\ plan.update = {} /\ plan.remove = {}
      /\ last' = got.version /\ Sleep
      /\ UNCHANGED <<controlVars, wireVars, faults>>
  BY DEF ApplyDone, NoPlan
<1>1. VersionsGrow' /\ AddressesDistinct' /\ GotIsCurrent' /\ PlanCoversRest'
  BY <1>0 DEF VersionsGrow, AddressesDistinct, GotIsCurrent, PlanCoversRest, Sleep, controlVars, TypeOK
<1>2. WireScoped'
  BY <1>0 DEF WireScoped, Sleep, NoPlan, wireVars
<1>3. ASSUME Settled'
      PROVE  DesiredOnWire' /\ (faults["read"] = 0 => RevokedOffWire')
  <2>1. served \subseteq got.peers /\ got.peers \subseteq served \union expired
    BY <1>0, <1>3 DEF Settled, GotIsCurrent, controlVars
  <2>2. \A p \in served : \E q \in served \union expired :
          q.key = p.key /\ p.key \in on /\ routes[p.key] = {q.addr}
    BY <1>0, <2>1 DEF PlanCoversRest
  <2>3. KeysOf(got.peers) \subseteq KeysOf(served \union expired)
    BY <2>1 DEF KeysOf
  <2>4. faults["read"] = 0 => \A k \in Keys \ KeysOf(served \union expired) : routes[k] = {}
    BY <1>0, <2>3 DEF PlanCoversRest
  <2>5. KeysOf(served' \union expired') = KeysOf(served \union expired)
    BY <1>0 DEF controlVars
  <2> QED BY <1>0, <2>2, <2>4, <2>5 DEF DesiredOnWire, RevokedOffWire, controlVars, wireVars
<1>4. OnWire'
  BY <1>0, <1>3 DEF OnWire, DesiredOnWire, RevokedOffWire
<1> QED BY <1>1, <1>2, <1>4

\* A restarted gateway has applied nothing.
LEMMA RestartStep ==
  ASSUME Inv, Restart
  PROVE  LoopInv' /\ OnWire'
<1> USE DEF Inv, LoopInv
<1>0. /\ Sleep /\ last' = -1 /\ UNCHANGED controlVars
      /\ on' \in {on, on \intersect ForeignKeys}
      /\ \A k \in AllKeys : routes'[k] = IF k \in on' THEN routes[k] ELSE {}
  BY DEF Restart
<1>1. VersionsGrow' /\ AddressesDistinct' /\ GotIsCurrent' /\ PlanCoversRest'
  BY <1>0 DEF VersionsGrow, AddressesDistinct, GotIsCurrent, PlanCoversRest, Sleep, controlVars, TypeOK
<1>2. WireScoped'
  <2>1. \A k \in Keys : routes'[k] \subseteq Managed /\ (k \notin on' => routes'[k] = {})
    BY <1>0 DEF WireScoped, AllKeys
  <2>2. \A k \in ForeignKeys \intersect on' : ~ routes'[k] \subseteq Managed
    BY <1>0 DEF WireScoped, AllKeys
  <2> QED BY <1>0, <2>1, <2>2 DEF WireScoped, Sleep, NoPlan
<1>3. ~Settled'
  BY <1>0 DEF Settled, controlVars, TypeOK
<1> QED BY <1>1, <1>2, <1>3 DEF OnWire, DesiredOnWire, RevokedOffWire

LEMMA InvNext == Inv /\ [Next]_vars => Inv'
<1> SUFFICES ASSUME Inv, [Next]_vars PROVE LoopInv' /\ OnWire'
  BY TypeNext DEF Inv
<1>1. CASE Control
  BY <1>1, ServedStep, MoveVersionStep DEF Control
<1>2. ASSUME NEW k \in ForeignKeys, ForeignChange(k) PROVE LoopInv' /\ OnWire'
  BY <1>2, ForeignStep
<1>3. CASE Refuse \/ ApplyFail
  <2>1. faults'["read"] = faults["read"]
    BY <1>3, SpendType DEF Refuse, ApplyFail, Inv, TypeOK, Faults
  <2> QED BY <1>3, <2>1, SleepStep DEF Refuse, ApplyFail
<1>4. CASE HeartbeatVersion \/ HeartbeatPeers \/ ReadLive \/ ReadFails
  BY <1>4, HeartbeatVersionStep, HeartbeatPeersStep, PlanStep
<1>5. CASE ApplySet \/ ApplyRemove \/ ApplyDone
  BY <1>5, ApplySetStep, ApplyRemoveStep, ApplyDoneStep
<1>6. CASE Restart
  BY <1>6, RestartStep
<1>7. CASE UNCHANGED vars
  BY <1>7 DEF vars, controlVars, wireVars, loopVars, Inv, LoopInv, OnWire, VersionsGrow,
     AddressesDistinct, GotIsCurrent, PlanCoversRest, WireScoped, DesiredOnWire,
     RevokedOffWire, Settled, KeysOf
<1> QED BY <1>1, <1>2, <1>3, <1>4, <1>5, <1>6, <1>7 DEF Next, Loop, Apply

LEMMA InvHolds == Spec => []Inv
BY InvInit, InvNext, PTL DEF Spec

-----------------------------------------------------------------------------
(***************************************************************************)
(* Peers, plans and the interface of the gateway keep their shape.         *)
(***************************************************************************)
THEOREM TypeCorrect == Spec => []TypeOK
<1>1. Inv => TypeOK
  BY DEF Inv
<1> QED BY <1>1, InvHolds, PTL

(***************************************************************************)
(* Once the gateway has applied the current version, every served device   *)
(* is on the interface, whatever commands, heartbeats or reads failed and  *)
(* whenever the gateway restarted.                                         *)
(***************************************************************************)
THEOREM DesiredIsOnWire == Spec => []DesiredOnWire
<1>1. Inv => DesiredOnWire
  BY DEF Inv, OnWire
<1> QED BY <1>1, InvHolds, PTL

(***************************************************************************)
(* As long as no reading of the interface has failed: once the gateway has *)
(* applied the current version no revoked device routes anything, whatever *)
(* commands or heartbeats failed and whenever the gateway restarted.       *)
(***************************************************************************)
THEOREM RevokedIsOffWire == Spec => []RevokedLeavesWire
<1>1. Inv => RevokedLeavesWire
  BY DEF Inv, OnWire, RevokedLeavesWire
<1> QED BY <1>1, InvHolds, PTL

(***************************************************************************)
(* No reconciliation deletes a peer of the hub or takes an allowed-ip      *)
(* outside the managed range from it.                                      *)
(***************************************************************************)
THEOREM ForeignIsUntouched == Spec => ForeignUntouched
<1>1. ASSUME Inv, Apply, NEW k \in ForeignKeys
      PROVE  /\ k \in on => k \in on'
             /\ routes'[k] \intersect Outside = routes[k] \intersect Outside
  <2>0. k \in AllKeys /\ k \notin Keys
    BY KeysAssumption DEF AllKeys
  <2>1. CASE ApplySet
    <3>1. PICK p \in plan.add \union plan.update : SetPeer(p.key, {p.addr})
      BY <2>1 DEF ApplySet
    <3>2. p.key \in Keys /\ p.addr \in Managed
      BY <1>1 DEF Inv, TypeOK, GatewayPeer
    <3>3. k \in on => k \in on'
      BY <3>1 DEF SetPeer
    <3>4. routes'[k] = routes[k] \ {p.addr}
      BY <2>0, <3>1, <3>2 DEF SetPeer
    <3>5. p.addr \notin Outside
      BY <3>2, KeysAssumption
    <3> QED BY <3>3, <3>4, <3>5
  <2>2. CASE ApplyRemove
    <3>1. PICK j \in plan.remove : RemovePeer(j)
      BY <2>2 DEF ApplyRemove
    <3>2. j # k
      BY <1>1 DEF Inv, LoopInv, WireScoped
    <3>3. routes'[k] = routes[k]
      BY <1>1, <2>0, <3>1, <3>2 DEF RemovePeer, Inv, TypeOK
    <3> QED BY <3>1, <3>2, <3>3 DEF RemovePeer
  <2>3. CASE ApplyFail \/ ApplyDone
    BY <2>3 DEF ApplyFail, ApplyDone, wireVars
  <2> QED BY <1>1, <2>1, <2>2, <2>3 DEF Apply
<1>2. Inv /\ [Next]_vars => [Apply => \A k \in ForeignKeys :
         /\ k \in on => k \in on'
         /\ routes'[k] \intersect Outside = routes[k] \intersect Outside]_vars
  BY <1>1
<1> QED BY <1>2, InvHolds, PTL DEF Spec, ForeignUntouched
=============================================================================
