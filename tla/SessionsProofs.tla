--------------------------- MODULE SessionsProofs ---------------------------
(* Proofs about Sessions, for any numbers of users, devices, gateways,     *)
(* sessions, handlers and addresses, any clock and any number of handlers  *)
(* dropped half way.                                                       *)
EXTENDS Sessions, TLAPS

LEMMA SomeRows ==
  /\ SomeDevice \in Devices
  /\ SomeGateway \in Gateways
  BY SetsAssumption DEF SomeDevice, SomeGateway

LEMMA PoolFacts == /\ Pool \subseteq Cidr /\ Pool \subseteq Nat
                   /\ NoAddr \notin Pool
  <1>1. \A a \in Pool : a \in Cidr /\ Usable(a) BY DEF Pool
  <1>2. 0 % 256 = 0 OBVIOUS
  <1>3. ~Usable(0) BY <1>2 DEF Usable
  <1> QED BY <1>1, <1>3, NumbersAssumption DEF NoAddr

LEMMA IdleTaskType == IdleTask \in Task
  BY SomeRows DEF IdleTask, Task

LEMMA NoRowType == NoRow \in Row
  BY SomeRows DEF NoRow, Row, Statuses

LEMMA FinishType ==
  ASSUME TypeOK, NEW t \in Tasks, Finish(t)
  PROVE  task' \in [Tasks -> Task]
  BY IdleTaskType DEF TypeOK, Finish

LEMMA GotoType ==
  ASSUME TypeOK, NEW t \in Tasks,
         NEW step \in {"idle"} \union CreateSteps \union RevokeSteps, Goto(t, step)
  PROVE  task' \in [Tasks -> Task]
  <1>1. task[t] \in Task BY DEF TypeOK
  <1>2. [task[t] EXCEPT !.pc = step] \in Task BY <1>1 DEF Task
  <1>3. task' = [task EXCEPT ![t] = [task[t] EXCEPT !.pc = step]] BY DEF Goto
  <1> QED BY <1>2, <1>3 DEF TypeOK

LEMMA StatusType ==
  ASSUME TypeOK, NEW s \in Sids, NEW st \in Statuses
  PROVE  [sessions[s] EXCEPT !.status = st] \in Row
  <1>1. sessions[s] \in Row BY DEF TypeOK
  <1> QED BY <1>1 DEF Row

LEMMA SetStatusType ==
  ASSUME TypeOK, NEW s \in Sids, SetStatus(s, "revoked")
  PROVE  sessions' \in [Sids -> Row]
  <1>1. [sessions[s] EXCEPT !.status = "revoked"] \in Row
    BY StatusType DEF Statuses
  <1>2. sessions' = [sessions EXCEPT ![s] = [sessions[s] EXCEPT !.status = "revoked"]]
    BY DEF SetStatus
  <1> QED BY <1>1, <1>2 DEF TypeOK

LEMMA RevokingType ==
  ASSUME TypeOK, NEW t \in Tasks, NEW S \in SUBSET Sids, Revoking(t, S)
  PROVE  task' \in [Tasks -> Task]
  <1>1. CASE S = {} BY <1>1, FinishType DEF Revoking
  <1>2. CASE S # {}
    <2>1. [IdleTask EXCEPT !.pc = "mark", !.todo = S] \in Task
      BY IdleTaskType DEF Task, RevokeSteps
    <2> QED BY <1>2, <2>1 DEF Revoking, TypeOK
  <1> QED BY <1>1, <1>2

LEMMA BumpType ==
  ASSUME TypeOK, NEW g, Bump(g)
  PROVE  version' \in [Gateways -> Nat]
  <1>1. CASE g \in Gateways BY <1>1 DEF Bump, TypeOK
  <1>2. CASE g \notin Gateways
    <2>1. version' = version BY <1>2 DEF Bump, TypeOK
    <2> QED BY <2>1 DEF TypeOK
  <1> QED BY <1>1, <1>2

-----------------------------------------------------------------------------
(* Every step keeps every variable in its type.                            *)
LEMMA TypeNext == TypeOK /\ [Next]_vars => TypeOK'
  <1> SUFFICES ASSUME TypeOK, [Next]_vars PROVE TypeOK'
    OBVIOUS
  <1>1. CASE Tick
    BY <1>1 DEF Tick, TypeOK, dirVars, netVars, beatVars
  <1>2. ASSUME NEW t \in Tasks, Request(t) PROVE TypeOK'
    <2>1. ASSUME NEW d \in Devices, CreateStart(t, d) PROVE TypeOK'
      <3>1. [IdleTask EXCEPT !.pc = "device", !.device = d] \in Task
        BY IdleTaskType DEF Task, CreateSteps
      <3> QED BY <2>1, <3>1 DEF CreateStart, TypeOK, dirVars, netVars, beatVars
    <2>2. ASSUME NEW s \in Sids, RevokeSession(t, s) PROVE TypeOK'
      <3>1. CASE sessions[s].status = "active"
        <4>1. [IdleTask EXCEPT !.pc = "unpeer", !.sid = s, !.todo = {}] \in Task
          BY IdleTaskType DEF Task, RevokeSteps
        <4>2. sessions' \in [Sids -> Row]
          BY <2>2, <3>1, SetStatusType DEF RevokeSession, Mark
        <4> QED BY <2>2, <3>1, <4>1, <4>2
          DEF RevokeSession, Mark, TypeOK, dirVars, netVars, beatVars
      <3>2. CASE sessions[s].status # "active"
        <4>1. Revoking(t, {}) /\ UNCHANGED sessions
          BY <2>2, <3>2 DEF RevokeSession, Mark
        <4> QED BY <2>2, <4>1, RevokingType
          DEF RevokeSession, Mark, TypeOK, dirVars, netVars, beatVars
      <3> QED BY <3>1, <3>2
    <2>3. ASSUME NEW S \in SUBSET Devices, Select(t, S)
          PROVE  task' \in [Tasks -> Task]
      <3>1. [IdleTask EXCEPT !.pc = "select", !.scope = S] \in Task
        BY IdleTaskType DEF Task, RevokeSteps
      <3> QED BY <2>3, <3>1 DEF Select, TypeOK
    <2>4. ASSUME NEW d \in Devices, RevokeDevice(t, d) PROVE TypeOK'
      BY <2>4, <2>3 DEF RevokeDevice, TypeOK, netVars, beatVars
    <2>5. ASSUME NEW u \in Users, DisableUser(t, u) PROVE TypeOK'
      BY <2>5, <2>3 DEF DisableUser, DevicesOf, TypeOK, netVars, beatVars
    <2>6. ASSUME NEW u \in Users, DeleteUser(t, u) PROVE TypeOK'
      BY <2>6, <2>3 DEF DeleteUser, DevicesOf, TypeOK, dirVars, netVars, beatVars
    <2> QED BY <1>2, <2>1, <2>2, <2>4, <2>5, <2>6 DEF Request
  <1>3. ASSUME NEW t \in Tasks, CreateStep(t) PROVE TypeOK'
    <2>1. CASE CreateDevice(t)
      <3>1. Finish(t) \/ Goto(t, "insert") BY <2>1 DEF CreateDevice
      <3> QED BY <2>1, <3>1, FinishType, GotoType
        DEF CreateDevice, CreateSteps, TypeOK, dirVars, netVars, beatVars
    <2>2. CASE CreateDeny(t)
      BY <2>2, FinishType DEF CreateDeny, TypeOK, dirVars, netVars, beatVars
    <2>3. ASSUME NEW s \in Sids, NEW g \in Gateways, NEW life \in Lifetimes,
                 CreateInsert(t, s, g, life)
          PROVE  TypeOK'
      <3> DEFINE new == [task[t] EXCEPT !.pc = "scan", !.sid = s, !.gateway = g]
                 row == [status |-> "active", device |-> task[t].device,
                         gateway |-> g, ip |-> NoAddr, expires |-> now + life]
      <3>0. new \in Task
        <4>1. task[t] \in Task BY DEF TypeOK
        <4> QED BY <4>1 DEF Task, CreateSteps
      <3>1. task' \in [Tasks -> Task]
        <4>1. task' = [task EXCEPT ![t] = new] BY <2>3 DEF CreateInsert
        <4> QED BY <3>0, <4>1 DEF TypeOK
      <3>2. row \in Row
        <4>1. life \in Nat /\ now + life \in Nat BY NumbersAssumption DEF TypeOK
        <4>2. task[t].device \in Devices BY DEF TypeOK, Task
        <4> QED BY <4>1, <4>2 DEF Row, Statuses
      <3>3. sessions' \in [Sids -> Row]
        <4>1. sessions' = [sessions EXCEPT ![s] = row] BY <2>3 DEF CreateInsert
        <4> QED BY <3>2, <4>1 DEF TypeOK
      <3> QED BY <2>3, <3>1, <3>3 DEF CreateInsert, TypeOK, dirVars, beatVars
    <2>4. CASE AllocateScan(t)
      <3>1. ASSUME NEW a \in Pool,
                   task' = [task EXCEPT ![t].pc = "alloc", ![t].addr = a]
            PROVE  task' \in [Tasks -> Task]
        <4>1. [task[t] EXCEPT !.pc = "alloc", !.addr = a] \in Task
          <5>1. task[t] \in Task BY DEF TypeOK
          <5> QED BY <5>1 DEF Task, CreateSteps
        <4>2. task' = [task EXCEPT ![t] = [task[t] EXCEPT !.pc = "alloc", !.addr = a]]
          BY <3>1
        <4> QED BY <4>1, <4>2 DEF TypeOK
      <3>2. task' \in [Tasks -> Task]
        BY <2>4, <3>1, FinishType DEF AllocateScan
      <3> QED BY <2>4, <3>2 DEF AllocateScan, TypeOK, dirVars, netVars, beatVars
    <2>5. CASE AllocateInsert(t)
      <3>1. task' \in [Tasks -> Task]
        BY <2>5, FinishType, GotoType DEF AllocateInsert, CreateSteps
      <3>2. alloc' \in [Pool -> Sids \union {NoSession}]
        BY <2>5 DEF AllocateInsert, TypeOK, Task
      <3> QED BY <2>5, <3>1, <3>2 DEF AllocateInsert, TypeOK, dirVars, beatVars
    <2>6. CASE CreateSetIp(t)
      <3>1. task' \in [Tasks -> Task]
        BY <2>6, GotoType DEF CreateSetIp, CreateSteps
      <3>2. sessions' \in [Sids -> Row]
        <4> DEFINE s == task[t].sid
        <4>1. CASE s \in Sids
          <5>1. [sessions[s] EXCEPT !.ip = task[t].addr] \in Row
            <6>1. sessions[s] \in Row BY <4>1 DEF TypeOK
            <6>2. task[t].addr \in Pool \union {NoAddr} BY DEF TypeOK, Task
            <6> QED BY <6>1, <6>2 DEF Row
          <5>2. sessions' = [sessions EXCEPT ![s] = [sessions[s] EXCEPT !.ip = task[t].addr]]
            BY <2>6 DEF CreateSetIp
          <5> QED BY <4>1, <5>1, <5>2 DEF TypeOK
        <4>2. CASE s \notin Sids
          BY <2>6, <4>2 DEF CreateSetIp, TypeOK
        <4> QED BY <4>1, <4>2
      <3> QED BY <2>6, <3>1, <3>2 DEF CreateSetIp, TypeOK, dirVars, beatVars
    <2>7. CASE CreatePeer(t)
      <3>1. task' \in [Tasks -> Task]
        BY <2>7, GotoType DEF CreatePeer, CreateSteps
      <3> QED BY <2>7, <3>1 DEF CreatePeer, TypeOK, Task, dirVars, beatVars
    <2>8. CASE CreateBump(t)
      <3>1. version' \in [Gateways -> Nat]
        BY <2>8, BumpType DEF CreateBump
      <3> QED BY <2>8, <3>1, FinishType DEF CreateBump, TypeOK, dirVars, beatVars
    <2> QED BY <1>3, <2>1, <2>2, <2>3, <2>4, <2>5, <2>6, <2>7, <2>8 DEF CreateStep
  <1>4. ASSUME NEW t \in Tasks, RevokeStep(t) PROVE TypeOK'
    <2> task[t].todo \in SUBSET Sids BY DEF TypeOK, Task
    <2>1. CASE RevokeSelect(t)
      <3>1. ActiveSessions(task[t].scope) \in SUBSET Sids BY DEF ActiveSessions
      <3> QED BY <2>1, <3>1, RevokingType
        DEF RevokeSelect, TypeOK, dirVars, netVars, beatVars
    <2>2. ASSUME NEW s \in Sids, RevokeMark(t, s) PROVE TypeOK'
      <3> DEFINE rest == task[t].todo \ {s}
      <3>0. rest \in SUBSET Sids OBVIOUS
      <3>1. CASE sessions[s].status = "active"
        <4>1. [IdleTask EXCEPT !.pc = "unpeer", !.sid = s, !.todo = rest] \in Task
          BY <3>0, IdleTaskType DEF Task, RevokeSteps
        <4>2. sessions' \in [Sids -> Row]
          BY <2>2, <3>1, SetStatusType DEF RevokeMark, Mark
        <4> QED BY <2>2, <3>1, <4>1, <4>2
          DEF RevokeMark, Mark, TypeOK, dirVars, netVars, beatVars
      <3>2. CASE sessions[s].status # "active"
        <4>1. Revoking(t, rest) /\ UNCHANGED sessions
          BY <2>2, <3>2 DEF RevokeMark, Mark
        <4> QED BY <2>2, <4>1, <3>0, RevokingType
          DEF RevokeMark, Mark, TypeOK, dirVars, netVars, beatVars
      <3> QED BY <3>1, <3>2
    <2>3. CASE RevokePeer(t)
      <3>1. task' \in [Tasks -> Task]
        BY <2>3, GotoType DEF RevokePeer, RevokeSteps
      <3> QED BY <2>3, <3>1 DEF RevokePeer, TypeOK, dirVars, beatVars
    <2>4. CASE RevokeRelease(t)
      <3>1. task' \in [Tasks -> Task]
        BY <2>4, GotoType DEF RevokeRelease, RevokeSteps
      <3> QED BY <2>4, <3>1 DEF RevokeRelease, TypeOK, dirVars, beatVars
    <2>5. CASE RevokeBump(t)
      <3>1. version' \in [Gateways -> Nat]
        BY <2>5, BumpType DEF RevokeBump
      <3> QED BY <2>5, <3>1, RevokingType DEF RevokeBump, TypeOK, dirVars, beatVars
    <2> QED BY <1>4, <2>1, <2>2, <2>3, <2>4, <2>5 DEF RevokeStep
  <1>5. ASSUME NEW t \in Tasks, Abort(t) PROVE TypeOK'
    BY <1>5, FinishType DEF Abort, TypeOK, dirVars, netVars, beatVars
  <1>6. ASSUME NEW u \in Users, EnableUser(u) PROVE TypeOK'
    BY <1>6 DEF EnableUser, TypeOK, netVars, beatVars
  <1>7. ASSUME NEW d \in Devices, Reregister(d) PROVE TypeOK'
    BY <1>7 DEF Reregister, TypeOK, netVars, beatVars
  <1>8. ASSUME NEW g \in Gateways,
               HeartbeatStart(g) \/ BeatStep(g) \/ HeartbeatLost(g)
        PROVE  TypeOK'
    <2>1. CASE HeartbeatStart(g)
      BY <2>1 DEF HeartbeatStart, TypeOK, dirVars, netVars
    <2>2. CASE ConfigExpire(g)
      <3>1. sessions' \in [Sids -> Row]
        <4>1. \A s \in Sids : [sessions[s] EXCEPT !.status = "expired"] \in Row
          BY StatusType DEF Statuses
        <4> QED BY <2>2, <4>1 DEF ConfigExpire, TypeOK
      <3> QED BY <2>2, <3>1 DEF ConfigExpire, BeatTo, TypeOK, dirVars
    <2>3. CASE ConfigPurge(g)
      BY <2>3 DEF ConfigPurge, BeatTo, TypeOK, dirVars
    <2>4. CASE ConfigSelect(g)
      <3>1. Served(g) \in SUBSET Peer BY DEF Served, Peer
      <3>2. beat[g].version \in Int BY DEF TypeOK
      <3> QED BY <2>4, <3>1, <3>2
        DEF ConfigSelect, BeatDone, IdleBeat, TypeOK, dirVars, netVars
    <2>5. CASE HeartbeatLost(g)
      BY <2>5 DEF HeartbeatLost, BeatDone, IdleBeat, TypeOK, dirVars, netVars
    <2> QED BY <1>8, <2>1, <2>2, <2>3, <2>4, <2>5 DEF BeatStep
  <1>9. CASE UNCHANGED vars
    BY <1>9 DEF TypeOK, vars, dirVars, netVars, beatVars
  <1> QED BY <1>1, <1>2, <1>3, <1>4, <1>5, <1>6, <1>7, <1>8, <1>9 DEF Next

LEMMA TypeInit == Init => TypeOK
  BY IdleTaskType, NoRowType DEF Init, TypeOK, IdleBeat

(* In every behaviour of the control plane, rows, handlers and             *)
(* configurations keep their shape.                                        *)
THEOREM TypeCorrect == Spec => []TypeOK
  BY TypeInit, TypeNext, PTL DEF Spec

-----------------------------------------------------------------------------
(* The inductive invariant behind the address properties.                  *)

Inv == TypeOK /\ LiveSessionOwnsAddress /\ HandlersOwnTheirRows

Rows == <<sessions, alloc, peers>>

LEMMA GotoFields ==
  ASSUME TypeOK, NEW t \in Tasks, NEW step, Goto(t, step)
  PROVE  /\ task'[t].pc = step
         /\ task'[t].sid = task[t].sid
         /\ task'[t].addr = task[t].addr
         /\ task'[t].gateway = task[t].gateway
         /\ \A u \in Tasks \ {t} : task'[u] = task[u]
  <1>1. task[t] \in Task BY DEF TypeOK
  <1>2. task'[t] = [task[t] EXCEPT !.pc = step] BY DEF Goto, TypeOK
  <1>3. /\ task'[t].pc = step /\ task'[t].sid = task[t].sid
        /\ task'[t].addr = task[t].addr /\ task'[t].gateway = task[t].gateway
    BY <1>1, <1>2 DEF Task
  <1> QED BY <1>3 DEF Goto, TypeOK

\* A handler that ends, starts over or only reads disturbs nothing.
LEMMA HandlerMoves ==
  ASSUME Inv, NEW t \in Tasks, NEW x, task' = [task EXCEPT ![t] = x],
         x.pc \in {"idle", "device", "insert", "select", "mark"}, UNCHANGED Rows
  PROVE  LiveSessionOwnsAddress' /\ HandlersOwnTheirRows'
  <1>1. task'[t] = x /\ \A u \in Tasks \ {t} : task'[u] = task[u]
    BY DEF Inv, TypeOK
  <1>2. ~Creating(t)' /\ ~Revoked(t)' BY <1>1 DEF Creating, Revoked
  <1>3. \A u \in Tasks \ {t} : /\ CreationOwnsRow(u)'
                               /\ Creating(u)' <=> Creating(u)
                               /\ Revoked(u)' <=> Revoked(u)
    BY <1>1 DEF Inv, HandlersOwnTheirRows, CreationOwnsRow, Creating, Revoked, Rows
  <1>4. CreationOwnsRow(t)' BY <1>2 DEF CreationOwnsRow
  <1>5. HandlersOwnTheirRows'
    BY <1>1, <1>2, <1>3, <1>4 DEF Inv, HandlersOwnTheirRows, Rows
  <1> QED BY <1>5 DEF Inv, LiveSessionOwnsAddress, Rows

LEMMA FinishMoves ==
  ASSUME Inv, NEW t \in Tasks, Finish(t), UNCHANGED Rows
  PROVE  LiveSessionOwnsAddress' /\ HandlersOwnTheirRows'
  <1>1. IdleTask.pc = "idle" BY DEF IdleTask
  <1> QED BY <1>1, HandlerMoves DEF Finish

LEMMA RevokingMoves ==
  ASSUME Inv, NEW t \in Tasks, NEW S \in SUBSET Sids, Revoking(t, S), UNCHANGED Rows
  PROVE  LiveSessionOwnsAddress' /\ HandlersOwnTheirRows'
  <1>1. CASE S = {} BY <1>1, FinishMoves DEF Revoking
  <1>2. CASE S # {}
    <2>1. [IdleTask EXCEPT !.pc = "mark", !.todo = S].pc = "mark" BY DEF IdleTask
    <2> QED BY <1>2, <2>1, HandlerMoves DEF Revoking
  <1> QED BY <1>1, <1>2

LEMMA InsertKeeps ==
  ASSUME Inv, NEW t \in Tasks, NEW s \in Sids, NEW g \in Gateways,
         NEW life \in Lifetimes, CreateInsert(t, s, g, life)
  PROVE  LiveSessionOwnsAddress' /\ HandlersOwnTheirRows'
  <1> DEFINE row == [status |-> "active", device |-> task[t].device,
                     gateway |-> g, ip |-> NoAddr, expires |-> now + life]
  <1>1. /\ sessions[s].status = "none"
        /\ sessions'[s] = row
        /\ \A r \in Sids \ {s} : sessions'[r] = sessions[r]
        /\ UNCHANGED <<alloc, peers>>
    BY DEF CreateInsert, Inv, TypeOK
  <1>2. row.status = "active" /\ row.ip = NoAddr OBVIOUS
  <1>3. peers[s] = NoAddr BY <1>1 DEF Inv, HandlersOwnTheirRows
  <1>4. /\ task'[t].pc = "scan" /\ task'[t].sid = s
        /\ \A u \in Tasks \ {t} : task'[u] = task[u]
    <2>1. task[t] \in Task BY DEF Inv, TypeOK
    <2>2. task'[t] = [task[t] EXCEPT !.pc = "scan", !.sid = s, !.gateway = g]
      BY DEF CreateInsert, Inv, TypeOK
    <2>3. task'[t].pc = "scan" /\ task'[t].sid = s BY <2>1, <2>2 DEF Task
    <2> QED BY <2>3 DEF CreateInsert, Inv, TypeOK
  <1>5. CreationOwnsRow(t)' BY <1>1, <1>2, <1>3, <1>4 DEF CreationOwnsRow, Creating
  <1>6. \A u \in Tasks : Creating(u) => task[u].sid # s
    BY <1>1 DEF Inv, HandlersOwnTheirRows, CreationOwnsRow
  <1>7. \A u \in Tasks \ {t} : CreationOwnsRow(u)'
    BY <1>1, <1>4, <1>6 DEF Inv, HandlersOwnTheirRows, CreationOwnsRow, Creating
  <1>8. \A t1, t2 \in Tasks :
          Creating(t1)' /\ Creating(t2)' /\ task'[t1].sid = task'[t2].sid => t1 = t2
    BY <1>4, <1>6 DEF Inv, HandlersOwnTheirRows, Creating
  <1>9. \A u \in Tasks : Revoked(u)' =>
          task'[u].sid \in Sids /\ sessions'[task'[u].sid].status = "revoked"
    BY <1>1, <1>4 DEF Inv, HandlersOwnTheirRows, Revoked
  <1>10. \A r \in Sids : sessions'[r].status = "none" => peers'[r] = NoAddr
    BY <1>1, <1>2, <1>3 DEF Inv, HandlersOwnTheirRows
  <1>11. HandlersOwnTheirRows'
    BY <1>5, <1>7, <1>8, <1>9, <1>10 DEF HandlersOwnTheirRows
  <1>12. LiveSessionOwnsAddress'
    BY <1>1, <1>2, <1>3 DEF Inv, LiveSessionOwnsAddress
  <1> QED BY <1>11, <1>12

\* The steps of a creation after its INSERT move the same handler on with the
\* same session: what is left to show is what each writes.
LEMMA CreationMoves ==
  ASSUME Inv, NEW t \in Tasks, Creating(t),
         task'[t].sid = task[t].sid,
         \A u \in Tasks \ {t} : task'[u] = task[u],
         Creating(t)',
         \A s \in Sids : sessions'[s].status = sessions[s].status
  PROVE  /\ \A t1, t2 \in Tasks :
              Creating(t1)' /\ Creating(t2)' /\ task'[t1].sid = task'[t2].sid => t1 = t2
         /\ \A u \in Tasks : Revoked(u)' =>
              task'[u].sid \in Sids /\ sessions'[task'[u].sid].status = "revoked"
         /\ \A u \in Tasks \ {t} : Creating(u) => task[u].sid # task[t].sid
  BY DEF Inv, HandlersOwnTheirRows, Creating, Revoked

LEMMA ScanKeeps ==
  ASSUME Inv, NEW t \in Tasks, AllocateScan(t)
  PROVE  LiveSessionOwnsAddress' /\ HandlersOwnTheirRows'
  <1>0. UNCHANGED Rows BY DEF AllocateScan, netVars, Rows
  <1>1. ASSUME NEW a \in Pool, At(t, "scan"),
               task' = [task EXCEPT ![t].pc = "alloc", ![t].addr = a]
        PROVE  LiveSessionOwnsAddress' /\ HandlersOwnTheirRows'
    <2>1. /\ task'[t].pc = "alloc" /\ task'[t].addr = a /\ task'[t].sid = task[t].sid
          /\ \A u \in Tasks \ {t} : task'[u] = task[u]
      <3>1. task[t] \in Task BY DEF Inv, TypeOK
      <3>2. task'[t] = [task[t] EXCEPT !.pc = "alloc", !.addr = a]
        BY <1>1 DEF Inv, TypeOK
      <3>3. task'[t].pc = "alloc" /\ task'[t].addr = a /\ task'[t].sid = task[t].sid
        BY <3>1, <3>2 DEF Task
      <3> QED BY <1>1, <3>3 DEF Inv, TypeOK
    <2>2. Creating(t) /\ Creating(t)' BY <1>1, <2>1 DEF At, Creating
    <2>3. CreationOwnsRow(t)'
      BY <1>0, <1>1, <2>1, <2>2
      DEF Inv, HandlersOwnTheirRows, CreationOwnsRow, Creating, At, Rows
    <2>4. \A u \in Tasks \ {t} : CreationOwnsRow(u)'
      BY <1>0, <2>1 DEF Inv, HandlersOwnTheirRows, CreationOwnsRow, Creating, Rows
    <2>5. HandlersOwnTheirRows'
      BY <1>0, <2>1, <2>2, <2>3, <2>4, CreationMoves DEF Inv, HandlersOwnTheirRows, Rows
    <2> QED BY <1>0, <2>5 DEF Inv, LiveSessionOwnsAddress, Rows
  <1>2. CASE Finish(t) BY <1>0, <1>2, FinishMoves
  <1> QED BY <1>1, <1>2 DEF AllocateScan

LEMMA AllocateKeeps ==
  ASSUME Inv, NEW t \in Tasks, AllocateInsert(t)
  PROVE  LiveSessionOwnsAddress' /\ HandlersOwnTheirRows'
  <1> DEFINE s == task[t].sid  a == task[t].addr
  <1>0. At(t, "alloc") /\ UNCHANGED <<sessions, peers>> BY DEF AllocateInsert
  <1>1. /\ Creating(t) /\ s \in Sids /\ a \in Pool
        /\ sessions[s].ip = NoAddr /\ peers[s] = NoAddr
        /\ sessions[s].status # "none"
    BY <1>0 DEF Inv, HandlersOwnTheirRows, CreationOwnsRow, Creating, At
  <1>2. CASE alloc[a] = NoSession
    <2>1. Goto(t, "ip") /\ alloc' = [alloc EXCEPT ![a] = s]
      BY <1>2 DEF AllocateInsert
    <2>2. /\ task'[t].pc = "ip" /\ task'[t].sid = s /\ task'[t].addr = a
          /\ \A u \in Tasks \ {t} : task'[u] = task[u]
      BY <2>1, GotoFields DEF Inv
    <2>3. /\ alloc'[a] = s
          /\ \A b \in Pool : alloc[b] \in Sids => alloc'[b] = alloc[b]
      BY <1>1, <1>2, <2>1, SetsAssumption DEF Inv, TypeOK
    <2>4. Creating(t)' BY <2>2 DEF Creating
    <2>5. CreationOwnsRow(t)'
      BY <1>0, <1>1, <2>2, <2>3 DEF CreationOwnsRow, Creating
    <2>6. \A u \in Tasks \ {t} : CreationOwnsRow(u)'
      BY <1>0, <2>2, <2>3 DEF Inv, HandlersOwnTheirRows, CreationOwnsRow, Creating
    <2>7. HandlersOwnTheirRows'
      BY <1>0, <1>1, <2>2, <2>4, <2>5, <2>6, CreationMoves DEF Inv, HandlersOwnTheirRows
    <2>8. \A r \in Sids : sessions[r].ip \in Pool \union {NoAddr}
      BY DEF Inv, TypeOK, Row
    <2>9. LiveSessionOwnsAddress'
      BY <1>0, <2>3, <2>8 DEF Inv, LiveSessionOwnsAddress
    <2> QED BY <2>7, <2>9
  <1>3. CASE alloc[a] # NoSession
    <2>1. Finish(t) /\ UNCHANGED Rows BY <1>0, <1>3 DEF AllocateInsert, Rows
    <2> QED BY <2>1, FinishMoves
  <1> QED BY <1>2, <1>3

LEMMA SetIpKeeps ==
  ASSUME Inv, NEW t \in Tasks, CreateSetIp(t)
  PROVE  LiveSessionOwnsAddress' /\ HandlersOwnTheirRows'
  <1> DEFINE s == task[t].sid  a == task[t].addr
  <1>0. At(t, "ip") /\ Goto(t, "peer") /\ UNCHANGED <<alloc, peers>> BY DEF CreateSetIp
  <1>1. /\ Creating(t) /\ s \in Sids /\ a \in Pool /\ peers[s] = NoAddr
        /\ sessions[s].status # "none"
        /\ sessions[s].status = "active" => alloc[a] = s
    BY <1>0 DEF Inv, HandlersOwnTheirRows, CreationOwnsRow, Creating, At
  <1>2. /\ task'[t].pc = "peer" /\ task'[t].sid = s /\ task'[t].addr = a
        /\ \A u \in Tasks \ {t} : task'[u] = task[u]
    BY <1>0, GotoFields DEF Inv
  <1>3. /\ sessions'[s].ip = a /\ sessions'[s].status = sessions[s].status
        /\ \A r \in Sids \ {s} : sessions'[r] = sessions[r]
    <2>1. sessions[s] \in Row BY <1>1 DEF Inv, TypeOK
    <2>2. sessions'[s] = [sessions[s] EXCEPT !.ip = a]
      BY <1>1 DEF CreateSetIp, Inv, TypeOK
    <2>3. sessions'[s].ip = a /\ sessions'[s].status = sessions[s].status
      BY <2>1, <2>2 DEF Row
    <2> QED BY <2>3, <1>1 DEF CreateSetIp, Inv, TypeOK
  <1>4. Creating(t)' BY <1>2 DEF Creating
  <1>5. CreationOwnsRow(t)' BY <1>0, <1>1, <1>2, <1>3 DEF CreationOwnsRow, Creating
  <1>6. \A u \in Tasks \ {t} : Creating(u) => task[u].sid # s
    BY <1>1, <1>2, <1>3, <1>4, CreationMoves
  <1>7. \A u \in Tasks \ {t} : CreationOwnsRow(u)'
    BY <1>0, <1>2, <1>3, <1>6 DEF Inv, HandlersOwnTheirRows, CreationOwnsRow, Creating
  <1>8. HandlersOwnTheirRows'
    BY <1>0, <1>1, <1>2, <1>3, <1>4, <1>5, <1>7, CreationMoves DEF Inv, HandlersOwnTheirRows
  <1>9. LiveSessionOwnsAddress'
    BY <1>0, <1>1, <1>3 DEF Inv, LiveSessionOwnsAddress
  <1> QED BY <1>8, <1>9

LEMMA PeerKeeps ==
  ASSUME Inv, NEW t \in Tasks, CreatePeer(t)
  PROVE  LiveSessionOwnsAddress' /\ HandlersOwnTheirRows'
  <1> DEFINE s == task[t].sid  a == task[t].addr
  <1>0. At(t, "peer") /\ Goto(t, "bump") /\ UNCHANGED <<sessions, alloc>> BY DEF CreatePeer
  <1>1. /\ Creating(t) /\ s \in Sids /\ a \in Pool
        /\ sessions[s].status # "none" /\ sessions[s].ip = a
    BY <1>0 DEF Inv, HandlersOwnTheirRows, CreationOwnsRow, Creating, At
  <1>2. /\ task'[t].pc = "bump" /\ task'[t].sid = s
        /\ \A u \in Tasks \ {t} : task'[u] = task[u]
    BY <1>0, GotoFields DEF Inv
  <1>3. peers'[s] = a /\ \A r \in Sids \ {s} : peers'[r] = peers[r]
    BY <1>1 DEF CreatePeer, Inv, TypeOK
  <1>4. Creating(t)' BY <1>2 DEF Creating
  <1>5. CreationOwnsRow(t)' BY <1>0, <1>1, <1>2 DEF CreationOwnsRow, Creating
  <1>6. \A u \in Tasks \ {t} : Creating(u) => task[u].sid # s
    BY <1>0, <1>1, <1>2, <1>4, CreationMoves
  <1>7. \A u \in Tasks \ {t} : CreationOwnsRow(u)'
    BY <1>0, <1>2, <1>3, <1>6 DEF Inv, HandlersOwnTheirRows, CreationOwnsRow, Creating
  <1>8. HandlersOwnTheirRows'
    BY <1>0, <1>1, <1>2, <1>3, <1>4, <1>5, <1>7, CreationMoves DEF Inv, HandlersOwnTheirRows
  <1>9. LiveSessionOwnsAddress'
    BY <1>0, <1>1, <1>3 DEF Inv, LiveSessionOwnsAddress
  <1> QED BY <1>8, <1>9

\* Sessions that stop being active, and peers that disappear, disturb no handler
\* that stays where it is.
LEMMA OthersKeep ==
  ASSUME Inv, NEW T \in SUBSET Tasks,
         \A u \in T : task'[u] = task[u],
         \A s \in Sids :
           /\ sessions'[s].ip = sessions[s].ip
           /\ \/ sessions'[s].status = sessions[s].status
              \/ sessions[s].status = "active" /\ sessions'[s].status \in {"revoked", "expired"},
         \A s \in Sids : peers'[s] = peers[s] \/ peers'[s] = NoAddr,
         \A a \in Pool : \A s \in Sids :
           alloc[a] = s /\ sessions'[s].status = "active" => alloc'[a] = s
  PROVE  /\ \A u \in T : CreationOwnsRow(u)'
         /\ \A u \in T : Revoked(u)' =>
              task'[u].sid \in Sids /\ sessions'[task'[u].sid].status = "revoked"
         /\ \A s \in Sids : sessions'[s].status = "none" => peers'[s] = NoAddr
         /\ LiveSessionOwnsAddress'
  <1>1. \A u \in T : CreationOwnsRow(u)'
    <2> SUFFICES ASSUME NEW u \in T, Creating(u)' PROVE CreationOwnsRow(u)'
      BY DEF CreationOwnsRow
    <2>1. task'[u] = task[u] /\ Creating(u) BY DEF Creating
    <2>2. CreationOwnsRow(u) BY DEF Inv, HandlersOwnTheirRows
    <2> QED BY <2>1, <2>2 DEF CreationOwnsRow
  <1>2. \A u \in T : Revoked(u)' =>
          task'[u].sid \in Sids /\ sessions'[task'[u].sid].status = "revoked"
    BY DEF Inv, HandlersOwnTheirRows, Revoked
  <1>3. \A s \in Sids : sessions'[s].status = "none" => peers'[s] = NoAddr
    BY DEF Inv, HandlersOwnTheirRows
  <1>4. \A s \in Sids : sessions[s].ip \in Pool \union {NoAddr}
    BY DEF Inv, TypeOK, Row
  <1>5. LiveSessionOwnsAddress'
    BY <1>4 DEF Inv, LiveSessionOwnsAddress
  <1> QED BY <1>1, <1>2, <1>3, <1>5

LEMMA MarkKeeps ==
  ASSUME Inv, NEW t \in Tasks, NEW s \in Sids, NEW rest \in SUBSET Sids,
         Mark(t, s, rest)
  PROVE  LiveSessionOwnsAddress' /\ HandlersOwnTheirRows'
  <1>0. UNCHANGED <<alloc, peers>> BY DEF Mark
  <1>1. CASE sessions[s].status = "active"
    <2> DEFINE x == [IdleTask EXCEPT !.pc = "unpeer", !.sid = s, !.todo = rest]
    <2>1. x.pc = "unpeer" /\ x.sid = s BY DEF IdleTask
    <2>2. /\ task'[t].pc = "unpeer" /\ task'[t].sid = s
          /\ \A u \in Tasks \ {t} : task'[u] = task[u]
      <3>1. task'[t] = x /\ \A u \in Tasks \ {t} : task'[u] = task[u]
        BY <1>1 DEF Mark, Inv, TypeOK
      <3> QED BY <2>1, <3>1
    <2> HIDE DEF x
    <2>3. /\ sessions'[s].status = "revoked" /\ sessions'[s].ip = sessions[s].ip
          /\ \A r \in Sids \ {s} : sessions'[r] = sessions[r]
      <3>1. sessions[s] \in Row BY DEF Inv, TypeOK
      <3>2. sessions'[s] = [sessions[s] EXCEPT !.status = "revoked"]
        BY <1>1 DEF Mark, SetStatus, Inv, TypeOK
      <3>3. sessions'[s].status = "revoked" /\ sessions'[s].ip = sessions[s].ip
        BY <3>1, <3>2 DEF Row
      <3> QED BY <3>3, <1>1 DEF Mark, SetStatus, Inv, TypeOK
    <2>4. /\ \A u \in Tasks \ {t} : CreationOwnsRow(u)'
          /\ \A u \in Tasks \ {t} : Revoked(u)' =>
               task'[u].sid \in Sids /\ sessions'[task'[u].sid].status = "revoked"
          /\ \A r \in Sids : sessions'[r].status = "none" => peers'[r] = NoAddr
          /\ LiveSessionOwnsAddress'
      <3> DEFINE T == Tasks \ {t}
      <3>1. T \in SUBSET Tasks /\ \A u \in T : task'[u] = task[u] BY <2>2
      <3>2. \A r \in Sids :
             /\ sessions'[r].ip = sessions[r].ip
             /\ \/ sessions'[r].status = sessions[r].status
                \/ sessions[r].status = "active" /\ sessions'[r].status \in {"revoked", "expired"}
        BY <1>1, <2>3
      <3> QED BY <1>0, <3>1, <3>2, OthersKeep
    <2>5. ~Creating(t)' BY <2>2 DEF Creating
    <2>6. CreationOwnsRow(t)' BY <2>5 DEF CreationOwnsRow
    <2>7. \A t1, t2 \in Tasks :
            Creating(t1)' /\ Creating(t2)' /\ task'[t1].sid = task'[t2].sid => t1 = t2
      BY <2>2, <2>5 DEF Inv, HandlersOwnTheirRows, Creating
    <2>8. task'[t].sid \in Sids /\ sessions'[task'[t].sid].status = "revoked"
      BY <2>2, <2>3
    <2> QED BY <2>4, <2>6, <2>7, <2>8 DEF HandlersOwnTheirRows
  <1>2. CASE sessions[s].status # "active"
    <2>1. Revoking(t, rest) /\ UNCHANGED Rows BY <1>0, <1>2 DEF Mark, Rows
    <2> QED BY <2>1, RevokingMoves
  <1> QED BY <1>1, <1>2

\* A revocation past its first statement moves on with the same session.
LEMMA RevocationKeeps ==
  ASSUME Inv, NEW t \in Tasks, RevokePeer(t) \/ RevokeRelease(t)
  PROVE  LiveSessionOwnsAddress' /\ HandlersOwnTheirRows'
  <1> DEFINE s == task[t].sid
  <1>1. Revoked(t) /\ UNCHANGED sessions BY DEF RevokePeer, RevokeRelease, At, Revoked
  <1>2. s \in Sids /\ sessions[s].status = "revoked"
    BY <1>1 DEF Inv, HandlersOwnTheirRows
  <1>3. PICK step \in {"release", "rbump"} : Goto(t, step)
    BY DEF RevokePeer, RevokeRelease
  <1>4. /\ task'[t].pc = step /\ task'[t].sid = s
        /\ \A u \in Tasks \ {t} : task'[u] = task[u]
    BY <1>3, GotoFields DEF Inv
  <1>5. /\ \A r \in Sids : peers'[r] = peers[r] \/ peers'[r] = NoAddr
        /\ \A a \in Pool : \A r \in Sids :
             alloc[a] = r /\ sessions'[r].status = "active" => alloc'[a] = r
    <2>1. CASE RevokePeer(t)
      BY <2>1, <1>2 DEF RevokePeer, Inv, TypeOK
    <2>2. CASE RevokeRelease(t)
      BY <2>2, <1>1, <1>2 DEF RevokeRelease
    <2> QED BY <2>1, <2>2
  <1>6. /\ \A u \in Tasks \ {t} : CreationOwnsRow(u)'
        /\ \A u \in Tasks \ {t} : Revoked(u)' =>
             task'[u].sid \in Sids /\ sessions'[task'[u].sid].status = "revoked"
        /\ \A r \in Sids : sessions'[r].status = "none" => peers'[r] = NoAddr
        /\ LiveSessionOwnsAddress'
    <2> DEFINE T == Tasks \ {t}
    <2>1. T \in SUBSET Tasks /\ \A u \in T : task'[u] = task[u] BY <1>4
    <2> QED BY <1>1, <1>5, <2>1, OthersKeep
  <1>7. ~Creating(t)' BY <1>4 DEF Creating
  <1>8. CreationOwnsRow(t)' BY <1>7 DEF CreationOwnsRow
  <1>9. \A t1, t2 \in Tasks :
          Creating(t1)' /\ Creating(t2)' /\ task'[t1].sid = task'[t2].sid => t1 = t2
    BY <1>4, <1>7 DEF Inv, HandlersOwnTheirRows, Creating
  <1>10. task'[t].sid \in Sids /\ sessions'[task'[t].sid].status = "revoked"
    BY <1>1, <1>2, <1>4
  <1> QED BY <1>6, <1>8, <1>9, <1>10 DEF HandlersOwnTheirRows

LEMMA SweepKeeps ==
  ASSUME Inv, NEW g \in Gateways, ConfigExpire(g) \/ ConfigPurge(g)
  PROVE  LiveSessionOwnsAddress' /\ HandlersOwnTheirRows'
  <1>0. UNCHANGED <<alloc, task>> BY DEF ConfigExpire, ConfigPurge
  <1>1. \A r \in Sids :
          /\ sessions'[r].ip = sessions[r].ip
          /\ \/ sessions'[r].status = sessions[r].status
             \/ sessions[r].status = "active" /\ sessions'[r].status \in {"revoked", "expired"}
    <2>1. CASE ConfigPurge(g) BY <2>1 DEF ConfigPurge
    <2>2. CASE ConfigExpire(g)
      <3> SUFFICES ASSUME NEW r \in Sids
                   PROVE  /\ sessions'[r].ip = sessions[r].ip
                          /\ \/ sessions'[r].status = sessions[r].status
                             \/ /\ sessions[r].status = "active"
                                /\ sessions'[r].status \in {"revoked", "expired"}
        OBVIOUS
      <3>1. sessions[r] \in Row BY DEF Inv, TypeOK
      <3>2. \/ sessions'[r] = sessions[r]
            \/ /\ sessions[r].status = "active"
               /\ sessions'[r] = [sessions[r] EXCEPT !.status = "expired"]
        BY <2>2 DEF ConfigExpire
      <3> QED BY <3>1, <3>2 DEF Row
    <2> QED BY <2>1, <2>2
  <1>2. \A r \in Sids : peers'[r] = peers[r] \/ peers'[r] = NoAddr
    BY DEF ConfigExpire, ConfigPurge
  <1>3. /\ \A u \in Tasks : CreationOwnsRow(u)'
        /\ \A u \in Tasks : Revoked(u)' =>
             task'[u].sid \in Sids /\ sessions'[task'[u].sid].status = "revoked"
        /\ \A r \in Sids : sessions'[r].status = "none" => peers'[r] = NoAddr
        /\ LiveSessionOwnsAddress'
    BY <1>0, <1>1, <1>2, OthersKeep
  <1>4. \A t1, t2 \in Tasks :
          Creating(t1)' /\ Creating(t2)' /\ task'[t1].sid = task'[t2].sid => t1 = t2
    BY <1>0 DEF Inv, HandlersOwnTheirRows, Creating
  <1> QED BY <1>3, <1>4 DEF HandlersOwnTheirRows

-----------------------------------------------------------------------------
LEMMA InvNext == Inv /\ [Next]_vars => Inv'
  <1> SUFFICES ASSUME Inv, [Next]_vars PROVE LiveSessionOwnsAddress' /\ HandlersOwnTheirRows'
    BY TypeNext DEF Inv
  <1> DEFINE Goal == LiveSessionOwnsAddress' /\ HandlersOwnTheirRows'
  <1>0. ASSUME UNCHANGED <<sessions, alloc, peers, task>> PROVE Goal
    BY <1>0 DEF Inv, LiveSessionOwnsAddress, HandlersOwnTheirRows, CreationOwnsRow,
                Creating, Revoked
  <1>1. CASE Tick BY <1>0, <1>1 DEF Tick, netVars
  <1>2. ASSUME NEW t \in Tasks, Request(t) PROVE Goal
    <2>1. ASSUME NEW d \in Devices, CreateStart(t, d) PROVE Goal
      <3>1. [IdleTask EXCEPT !.pc = "device", !.device = d].pc = "device" BY DEF IdleTask
      <3> QED BY <2>1, <3>1, HandlerMoves DEF CreateStart, netVars, Rows
    <2>2. ASSUME NEW s \in Sids, RevokeSession(t, s) PROVE Goal
      BY <2>2, MarkKeeps DEF RevokeSession
    <2>3. ASSUME NEW S, Select(t, S), UNCHANGED Rows PROVE Goal
      <3>1. [IdleTask EXCEPT !.pc = "select", !.scope = S].pc = "select" BY DEF IdleTask
      <3> QED BY <2>3, <3>1, HandlerMoves DEF Select
    <2>4. ASSUME NEW d \in Devices, RevokeDevice(t, d) PROVE Goal
      BY <2>4, <2>3 DEF RevokeDevice, netVars, Rows
    <2>5. ASSUME NEW u \in Users, DisableUser(t, u) \/ DeleteUser(t, u) PROVE Goal
      BY <2>5, <2>3 DEF DisableUser, DeleteUser, netVars, Rows
    <2> QED BY <1>2, <2>1, <2>2, <2>4, <2>5 DEF Request
  <1>3. ASSUME NEW t \in Tasks, CreateStep(t) PROVE Goal
    <2>1. CASE CreateDevice(t)
      <3>1. Finish(t) \/ Goto(t, "insert") BY <2>1 DEF CreateDevice
      <3>2. UNCHANGED Rows BY <2>1 DEF CreateDevice, netVars, Rows
      <3>3. CASE Goto(t, "insert")
        <4>1. task[t] \in Task BY DEF Inv, TypeOK
        <4>2. [task[t] EXCEPT !.pc = "insert"].pc = "insert" BY <4>1 DEF Task
        <4>3. task' = [task EXCEPT ![t] = [task[t] EXCEPT !.pc = "insert"]]
          BY <3>3 DEF Goto
        <4> QED BY <3>2, <4>2, <4>3, HandlerMoves
      <3> QED BY <3>1, <3>2, <3>3, FinishMoves
    <2>2. CASE CreateDeny(t) BY <2>2, FinishMoves DEF CreateDeny, netVars, Rows
    <2>3. ASSUME NEW s \in Sids, NEW g \in Gateways, NEW life \in Lifetimes,
                 CreateInsert(t, s, g, life)
          PROVE Goal
      BY <2>3, InsertKeeps
    <2>4. CASE CreateBump(t) BY <2>4, FinishMoves DEF CreateBump, Rows
    <2> QED BY <1>3, <2>1, <2>2, <2>3, <2>4, ScanKeeps, AllocateKeeps, SetIpKeeps, PeerKeeps
      DEF CreateStep
  <1>4. ASSUME NEW t \in Tasks, RevokeStep(t) PROVE Goal
    <2>0. task[t].todo \in SUBSET Sids BY DEF Inv, TypeOK, Task
    <2>1. CASE RevokeSelect(t)
      <3>1. ActiveSessions(task[t].scope) \in SUBSET Sids BY DEF ActiveSessions
      <3> QED BY <2>1, <3>1, RevokingMoves DEF RevokeSelect, netVars, Rows
    <2>2. ASSUME NEW s \in Sids, RevokeMark(t, s) PROVE Goal
      <3>1. task[t].todo \ {s} \in SUBSET Sids BY <2>0
      <3> QED BY <2>2, <3>1, MarkKeeps DEF RevokeMark
    <2>3. CASE RevokeBump(t) BY <2>0, <2>3, RevokingMoves DEF RevokeBump, Rows
    <2> QED BY <1>4, <2>1, <2>2, <2>3, RevocationKeeps DEF RevokeStep
  <1>5. ASSUME NEW t \in Tasks, Abort(t) PROVE Goal
    BY <1>5, FinishMoves DEF Abort, netVars, Rows
  <1>6. ASSUME NEW u \in Users, EnableUser(u) PROVE Goal
    BY <1>0, <1>6 DEF EnableUser, netVars
  <1>7. ASSUME NEW d \in Devices, Reregister(d) PROVE Goal
    BY <1>0, <1>7 DEF Reregister, netVars
  <1>8. ASSUME NEW g \in Gateways, HeartbeatStart(g) \/ BeatStep(g) \/ HeartbeatLost(g)
        PROVE Goal
    <2>1. CASE HeartbeatStart(g) \/ ConfigSelect(g) \/ HeartbeatLost(g)
      BY <1>0, <2>1 DEF HeartbeatStart, ConfigSelect, HeartbeatLost, netVars
    <2> QED BY <1>8, <2>1, SweepKeeps DEF BeatStep
  <1>9. CASE UNCHANGED vars BY <1>0, <1>9 DEF vars, netVars
  <1> QED BY <1>1, <1>2, <1>3, <1>4, <1>5, <1>6, <1>7, <1>8, <1>9 DEF Next

LEMMA InvInit == Init => Inv
  <1> SUFFICES ASSUME Init PROVE LiveSessionOwnsAddress /\ HandlersOwnTheirRows
    BY TypeInit DEF Inv
  <1>1. \A s \in Sids : sessions[s].status = "none" /\ peers[s] = NoAddr
    BY DEF Init, NoRow
  <1>2. \A t \in Tasks : ~Creating(t) /\ ~Revoked(t)
    BY DEF Init, IdleTask, Creating, Revoked
  <1> QED BY <1>1, <1>2 DEF LiveSessionOwnsAddress, HandlersOwnTheirRows, CreationOwnsRow

LEMMA InvHolds == Spec => []Inv
  BY InvInit, InvNext, PTL DEF Spec

(* However creations, revocations, sweeps and crashes interleave, the      *)
(* address of a live session, in its row and in its peer, is the one       *)
(* allocated to it.                                                        *)
THEOREM AddressOwned == Spec => []LiveSessionOwnsAddress
  <1>1. Inv => LiveSessionOwnsAddress BY DEF Inv
  <1> QED BY <1>1, InvHolds, PTL

(* identity_by_ip never has two sessions to choose from.                   *)
THEOREM IdentityIsUnambiguous == Spec => []IdentityUnambiguous
  <1>1. Inv => IdentityUnambiguous
    BY PoolFacts DEF Inv, LiveSessionOwnsAddress, IdentityUnambiguous, IdentityByIp
  <1> QED BY <1>1, InvHolds, PTL

LEMMA ServedDistinct ==
  ASSUME Inv, NEW g \in Gateways, NEW p \in Served(g), NEW q \in Served(g),
         p.addr = q.addr
  PROVE  p = q
  <1>1. /\ p.sid \in Sids /\ p.addr \in Pool /\ q.sid \in Sids
        /\ peers[p.sid] = p.addr /\ sessions[p.sid].status = "active"
        /\ peers[q.sid] = p.addr /\ sessions[q.sid].status = "active"
    BY DEF Served
  <1>2. p.addr # NoAddr BY <1>1, PoolFacts
  <1>3. sessions[p.sid].ip = p.addr /\ sessions[q.sid].ip = p.addr
    BY <1>1, <1>2 DEF Inv, LiveSessionOwnsAddress
  <1>4. alloc[p.addr] = p.sid /\ alloc[p.addr] = q.sid
    BY <1>1, <1>2, <1>3 DEF Inv, LiveSessionOwnsAddress
  <1>5. p.sid = q.sid BY <1>4
  <1>6. p \in [sid : Sids, addr : Pool] /\ q \in [sid : Sids, addr : Pool]
    BY DEF Served
  <1> QED BY <1>5, <1>6

(* No gateway is ever sent a configuration that routes one overlay address *)
(* to two peers.                                                           *)
THEOREM RepliesAreDistinct == Spec => []ReplyAddressesDistinct
  <1>1. Init => ReplyAddressesDistinct BY DEF Init, ReplyAddressesDistinct
  <1>2. Inv /\ ReplyAddressesDistinct /\ [Next]_vars => ReplyAddressesDistinct'
    <2> SUFFICES ASSUME Inv, ReplyAddressesDistinct, [Next]_vars
                 PROVE  ReplyAddressesDistinct'
      OBVIOUS
    <2>1. ASSUME NEW g \in Gateways, ConfigSelect(g) PROVE ReplyAddressesDistinct'
      <3>1. reply'[g].peers = Served(g) /\ \A h \in Gateways \ {g} : reply'[h] = reply[h]
        BY <2>1 DEF ConfigSelect, Inv, TypeOK
      <3> QED BY <3>1, ServedDistinct DEF ReplyAddressesDistinct
    <2>2. CASE UNCHANGED reply BY <2>2 DEF ReplyAddressesDistinct
    <2>3. UNCHANGED reply \/ \E g \in Gateways : ConfigSelect(g)
      <3>1. ASSUME NEW t \in Tasks, Request(t) PROVE UNCHANGED reply
        BY <3>1 DEF Request, CreateStart, RevokeSession, Mark, RevokeDevice,
                    DisableUser, DeleteUser, beatVars
      <3>2. ASSUME NEW t \in Tasks, CreateStep(t) PROVE UNCHANGED reply
        BY <3>2 DEF CreateStep, CreateDevice, CreateDeny, CreateInsert, AllocateScan,
                    AllocateInsert, CreateSetIp, CreatePeer, CreateBump, beatVars
      <3>3. ASSUME NEW t \in Tasks, RevokeStep(t) PROVE UNCHANGED reply
        BY <3>3 DEF RevokeStep, RevokeSelect, RevokeMark, Mark, RevokePeer,
                    RevokeRelease, RevokeBump, beatVars
      <3>4. ASSUME NEW g \in Gateways, HeartbeatStart(g) \/ BeatStep(g) \/ HeartbeatLost(g)
            PROVE  UNCHANGED reply \/ ConfigSelect(g)
        BY <3>4 DEF HeartbeatStart, BeatStep, ConfigExpire, ConfigPurge, HeartbeatLost
      <3> QED BY <3>1, <3>2, <3>3, <3>4
        DEF Next, vars, beatVars, Tick, Abort, EnableUser, Reregister
    <2> QED BY <2>1, <2>2, <2>3
  <1> QED BY <1>1, <1>2, InvHolds, PTL DEF Spec

(* An address changes hands only through a session that has ended and a    *)
(* state in which nobody holds it.                                         *)
THEOREM HandoverIsClean == Spec => AddressHandover
  <1> DEFINE A == \A a \in Pool : alloc[a] # NoSession /\ alloc'[a] # alloc[a] =>
                    alloc'[a] = NoSession /\ sessions[alloc[a]].status # "active"
  <1>1. Inv /\ [Next]_vars => [A]_vars
    <2> SUFFICES ASSUME Inv, [Next]_vars PROVE A
      OBVIOUS
    <2>1. ASSUME NEW t \in Tasks, AllocateInsert(t) PROVE A
      <3>1. CASE alloc[task[t].addr] = NoSession
        BY <2>1, <3>1 DEF AllocateInsert, Inv, TypeOK
      <3>2. CASE alloc[task[t].addr] # NoSession
        BY <2>1, <3>2 DEF AllocateInsert
      <3> QED BY <3>1, <3>2
    <2>2. ASSUME NEW t \in Tasks, RevokeRelease(t) PROVE A
      <3>1. task[t].sid \in Sids /\ sessions[task[t].sid].status = "revoked"
        BY <2>2 DEF Inv, HandlersOwnTheirRows, Revoked, RevokeRelease, At
      <3> QED BY <2>2, <3>1 DEF RevokeRelease
    <2>3. CASE UNCHANGED alloc BY <2>3
    <2>4. \/ UNCHANGED alloc
          \/ \E t \in Tasks : AllocateInsert(t) \/ RevokeRelease(t)
      <3>1. ASSUME NEW t \in Tasks, Request(t) PROVE UNCHANGED alloc
        BY <3>1 DEF Request, CreateStart, RevokeSession, Mark, RevokeDevice,
                    DisableUser, DeleteUser, netVars
      <3>2. ASSUME NEW t \in Tasks, CreateStep(t) PROVE UNCHANGED alloc \/ AllocateInsert(t)
        BY <3>2 DEF CreateStep, CreateDevice, CreateDeny, CreateInsert, AllocateScan,
                    CreateSetIp, CreatePeer, CreateBump, netVars
      <3>3. ASSUME NEW t \in Tasks, RevokeStep(t) PROVE UNCHANGED alloc \/ RevokeRelease(t)
        BY <3>3 DEF RevokeStep, RevokeSelect, RevokeMark, Mark, RevokePeer, RevokeBump,
                    netVars
      <3>4. ASSUME NEW g \in Gateways, HeartbeatStart(g) \/ BeatStep(g) \/ HeartbeatLost(g)
            PROVE  UNCHANGED alloc
        BY <3>4 DEF HeartbeatStart, BeatStep, ConfigExpire, ConfigPurge, ConfigSelect,
                    HeartbeatLost, netVars
      <3> QED BY <3>1, <3>2, <3>3, <3>4
        DEF Next, vars, netVars, Tick, Abort, EnableUser, Reregister
    <2> QED BY <2>1, <2>2, <2>3, <2>4
  <1> QED BY <1>1, InvHolds, PTL DEF Spec, AddressHandover
-----------------------------------------------------------------------------
(* Why a version number covers the peers behind it.                        *)

\* t has changed what g is served and has still to move g's version.
Pends(t, g) ==
  \/ At(t, "bump") /\ task[t].gateway = g
  \/ Revoked(t) /\ sessions[task[t].sid].gateway = g

\* g is to be served the peer of s at a.
Current(s, a, g) ==
  /\ peers[s] = a
  /\ sessions[s].gateway = g
  /\ sessions[s].status = "active"
  /\ sessions[s].expires > now

Covers(g) ==
  /\ aborts = 0
  /\ reply[g].version = version[g]
  /\ ~PendingBump(g)
  => {p \in reply[g].peers : sessions[p.sid].expires > now} = Served(g)

\* No reply and no heartbeat in flight carries a version from the future, a
\* peer that was sent belongs to a session that exists, and a creation moves
\* the version of the gateway its session is on.
Fresh ==
  /\ \A g \in Gateways : reply[g].version <= version[g] /\ beat[g].version <= version[g]
  /\ \A g \in Gateways : \A p \in reply[g].peers : sessions[p.sid].status # "none"
  /\ \A t \in Tasks : Creating(t) => sessions[task[t].sid].gateway = task[t].gateway

\* A session that exists keeps its gateway and its expiry.
Settled ==
  \A s \in Sids : sessions[s].status # "none" =>
    /\ sessions'[s].status # "none"
    /\ sessions'[s].gateway = sessions[s].gateway
    /\ sessions'[s].expires = sessions[s].expires

LEMMA CoversAll == VersionCoversPeers <=> \A g \in Gateways : Covers(g)
  BY DEF VersionCoversPeers, Covers

LEMMA CoverKeeps ==
  ASSUME TypeOK, TypeOK', Fresh, NEW g \in Gateways, Covers(g), Settled, now' >= now,
         aborts' = aborts, version'[g] = version[g], reply'[g] = reply[g],
         PendingBump(g) => PendingBump(g)',
         \A s \in Sids, a \in Pool :
           Current(s, a, g)' <=> Current(s, a, g) /\ sessions[s].expires > now'
  PROVE  Covers(g)'
  <1> SUFFICES ASSUME aborts' = 0, reply'[g].version = version'[g], ~PendingBump(g)'
               PROVE  {p \in reply'[g].peers : sessions'[p.sid].expires > now'} = Served(g)'
    BY DEF Covers
  <1>1. {p \in reply[g].peers : sessions[p.sid].expires > now} = Served(g) BY DEF Covers
  <1>2. reply[g].peers \subseteq Peer BY DEF TypeOK
  <1>3. now \in Nat /\ now' \in Nat /\ \A s \in Sids : sessions[s].expires \in Nat
    BY DEF TypeOK, Row
  <1>4. \A p : p \in Served(g) <=> p \in Peer /\ Current(p.sid, p.addr, g)
    BY DEF Served, Peer, Current
  <1>5. \A p : p \in Served(g)' <=> p \in Peer /\ Current(p.sid, p.addr, g)'
    BY DEF Served, Peer, Current
  <1>6. \A p \in Peer : p.sid \in Sids /\ p.addr \in Pool BY DEF Peer
  <1>7. ASSUME NEW p \in Peer
        PROVE  p \in reply'[g].peers /\ sessions'[p.sid].expires > now'
                 <=> p \in Served(g)'
    <2>1. p.sid \in Sids /\ p.addr \in Pool BY <1>6
    <2>2. p \in Served(g)' <=> p \in Served(g) /\ sessions[p.sid].expires > now'
      BY <1>4, <1>5, <2>1
    <2>3. p \in reply[g].peers => sessions'[p.sid].expires = sessions[p.sid].expires
      BY <2>1 DEF Fresh, Settled
    <2>4. sessions[p.sid].expires > now' => sessions[p.sid].expires > now
      BY <1>3, <2>1
    <2>5. p \in Served(g) <=> p \in reply[g].peers /\ sessions[p.sid].expires > now
      BY <1>1
    <2> QED BY <2>2, <2>3, <2>4, <2>5
  <1>8. Served(g)' \subseteq Peer BY <1>5
  <1> QED BY <1>2, <1>7, <1>8

\* A handler's step that leaves the clock, the heartbeats and the versions
\* alone: what it changes for a gateway it goes on to announce.
LEMMA HandlerCovers ==
  ASSUME Inv, TypeOK', Fresh, VersionCoversPeers, NEW t \in Tasks,
         \A u \in Tasks \ {t} : task'[u] = task[u],
         UNCHANGED <<now, aborts, version, beat, reply>>, Settled,
         Creating(t)' => sessions'[task'[t].sid].gateway = task'[t].gateway,
         \A g \in Gateways : Pends(t, g) => Pends(t, g)',
         \A s \in Sids, a \in Pool, g \in Gateways :
           Pends(t, g)' \/ (Current(s, a, g)' <=> Current(s, a, g))
  PROVE  Fresh' /\ VersionCoversPeers'
  <1>1. \A u \in Tasks : Creating(u) =>
          task[u].sid \in Sids /\ sessions[task[u].sid].status # "none"
    BY DEF Inv, HandlersOwnTheirRows, CreationOwnsRow
  <1>2. \A u \in Tasks : Revoked(u) =>
          task[u].sid \in Sids /\ sessions[task[u].sid].status # "none"
    BY DEF Inv, HandlersOwnTheirRows
  <1>3. \A g \in Gateways : reply[g].peers \subseteq Peer BY DEF Inv, TypeOK
  <1>4. \A p \in Peer : p.sid \in Sids BY DEF Peer
  <1>5. Fresh'
    <2>1. \A g \in Gateways : \A p \in reply'[g].peers : sessions'[p.sid].status # "none"
      BY <1>3, <1>4 DEF Fresh, Settled
    <2>2. \A u \in Tasks : Creating(u)' => sessions'[task'[u].sid].gateway = task'[u].gateway
      BY <1>1 DEF Fresh, Settled, Creating
    <2> QED BY <2>1, <2>2 DEF Fresh
  <1>6. \A u \in Tasks \ {t}, g \in Gateways : Pends(u, g) => Pends(u, g)'
    BY <1>2 DEF Pends, Settled, At, Revoked
  <1>7. ASSUME NEW g \in Gateways PROVE Covers(g)'
    <2>1. PendingBump(g) => PendingBump(g)' BY <1>6 DEF PendingBump, Pends
    <2>2. CASE Pends(t, g)' BY <2>2 DEF Covers, PendingBump, Pends
    <2>3. CASE ~Pends(t, g)'
      <3>1. \A s \in Sids, a \in Pool :
              Current(s, a, g)' <=> Current(s, a, g) /\ sessions[s].expires > now'
        BY <2>3 DEF Current
      <3>2. now \in Nat BY DEF Inv, TypeOK
      <3>3. now' >= now BY <3>2
      <3>4. TypeOK BY DEF Inv
      <3>5. Covers(g) BY CoversAll
      <3> QED BY <2>1, <3>1, <3>3, <3>4, <3>5, CoverKeeps
    <2> QED BY <2>2, <2>3
  <1> QED BY <1>5, <1>7 DEF VersionCoversPeers, Covers

\* A handler that ends, starts over or only reads, and had nothing to announce.
LEMMA IdlerCovers ==
  ASSUME Inv, TypeOK', Fresh, VersionCoversPeers, NEW t \in Tasks,
         NEW x, task' = [task EXCEPT ![t] = x],
         x.pc \in {"idle", "device", "insert", "select", "mark"},
         ~At(t, "bump"), ~Revoked(t),
         UNCHANGED <<now, aborts, version, beat, reply, sessions, peers>>
  PROVE  Fresh' /\ VersionCoversPeers'
  <1>1. task'[t] = x /\ \A u \in Tasks \ {t} : task'[u] = task[u] BY DEF Inv, TypeOK
  <1>2. ~Creating(t)' BY <1>1 DEF Creating
  <1>3. \A g \in Gateways : ~Pends(t, g) BY DEF Pends
  <1>4. Settled BY DEF Settled
  <1>5. \A s \in Sids, a \in Pool, g \in Gateways : Current(s, a, g)' <=> Current(s, a, g)
    BY DEF Current
  <1> QED BY <1>1, <1>2, <1>3, <1>4, <1>5, HandlerCovers

LEMMA FinishCovers ==
  ASSUME Inv, TypeOK', Fresh, VersionCoversPeers, NEW t \in Tasks, Finish(t),
         ~At(t, "bump"), ~Revoked(t),
         UNCHANGED <<now, aborts, version, beat, reply, sessions, peers>>
  PROVE  Fresh' /\ VersionCoversPeers'
  <1>1. IdleTask.pc = "idle" BY DEF IdleTask
  <1> QED BY <1>1, IdlerCovers DEF Finish

LEMMA RevokingCovers ==
  ASSUME Inv, TypeOK', Fresh, VersionCoversPeers, NEW t \in Tasks, NEW S, Revoking(t, S),
         ~At(t, "bump"), ~Revoked(t),
         UNCHANGED <<now, aborts, version, beat, reply, sessions, peers>>
  PROVE  Fresh' /\ VersionCoversPeers'
  <1>1. CASE S = {} BY <1>1, FinishCovers DEF Revoking
  <1>2. CASE S # {}
    <2>1. [IdleTask EXCEPT !.pc = "mark", !.todo = S].pc = "mark" BY DEF IdleTask
    <2> QED BY <1>2, <2>1, IdlerCovers DEF Revoking
  <1> QED BY <1>1, <1>2

\* The steps of a creation between its INSERT and its peer.
LEMMA CreationCovers ==
  ASSUME Inv, TypeOK', Fresh, VersionCoversPeers, NEW t \in Tasks,
         \A u \in Tasks \ {t} : task'[u] = task[u],
         Creating(t), ~At(t, "bump"),
         task'[t].sid = task[t].sid, task'[t].gateway = task[t].gateway,
         UNCHANGED <<now, aborts, version, beat, reply, sessions, peers>>
  PROVE  Fresh' /\ VersionCoversPeers'
  <1>1. sessions'[task'[t].sid].gateway = task'[t].gateway BY DEF Fresh
  <1>2. \A g \in Gateways : ~Pends(t, g) BY DEF Pends, Creating, Revoked
  <1>3. Settled BY DEF Settled
  <1>4. \A s \in Sids, a \in Pool, g \in Gateways : Current(s, a, g)' <=> Current(s, a, g)
    BY DEF Current
  <1> QED BY <1>1, <1>2, <1>3, <1>4, HandlerCovers

\* The new session has no peer, and no reply names it.
LEMMA InsertCovers ==
  ASSUME Inv, TypeOK', Fresh, VersionCoversPeers, NEW t \in Tasks, NEW s \in Sids,
         NEW g \in Gateways, NEW life \in Lifetimes, CreateInsert(t, s, g, life)
  PROVE  Fresh' /\ VersionCoversPeers'
  <1> DEFINE row == [status |-> "active", device |-> task[t].device,
                     gateway |-> g, ip |-> NoAddr, expires |-> now + life]
  <1>1. /\ At(t, "insert") /\ sessions[s].status = "none" /\ sessions'[s] = row
        /\ \A r \in Sids \ {s} : sessions'[r] = sessions[r]
        /\ UNCHANGED <<now, aborts, version, beat, reply, peers>>
    BY DEF CreateInsert, Inv, TypeOK, beatVars
  <1>2. row.gateway = g OBVIOUS
  <1>3. /\ task'[t].sid = s /\ task'[t].gateway = g
        /\ \A u \in Tasks \ {t} : task'[u] = task[u]
    <2>1. task[t] \in Task BY DEF Inv, TypeOK
    <2>2. task'[t] = [task[t] EXCEPT !.pc = "scan", !.sid = s, !.gateway = g]
      BY DEF CreateInsert, Inv, TypeOK
    <2>3. task'[t].sid = s /\ task'[t].gateway = g BY <2>1, <2>2 DEF Task
    <2> QED BY <2>3 DEF CreateInsert, Inv, TypeOK
  <1>4. sessions'[task'[t].sid].gateway = task'[t].gateway BY <1>1, <1>2, <1>3
  <1>5. \A h \in Gateways : ~Pends(t, h) BY <1>1 DEF Pends, At, Revoked
  <1>6. peers[s] = NoAddr BY <1>1 DEF Inv, HandlersOwnTheirRows
  <1> HIDE DEF row
  <1>7. Settled BY <1>1 DEF Settled
  <1>8. \A r \in Sids, a \in Pool, h \in Gateways : Current(r, a, h)' <=> Current(r, a, h)
    BY <1>1, <1>6, PoolFacts DEF Current
  <1> QED BY <1>1, <1>3, <1>4, <1>5, <1>7, <1>8, HandlerCovers

LEMMA SetIpCovers ==
  ASSUME Inv, TypeOK', Fresh, VersionCoversPeers, NEW t \in Tasks, CreateSetIp(t)
  PROVE  Fresh' /\ VersionCoversPeers'
  <1> DEFINE s == task[t].sid
  <1>1. /\ At(t, "ip") /\ Goto(t, "peer")
        /\ UNCHANGED <<now, aborts, version, beat, reply, peers>>
    BY DEF CreateSetIp, beatVars
  <1>2. Creating(t) /\ s \in Sids
    BY <1>1 DEF Inv, HandlersOwnTheirRows, CreationOwnsRow, Creating, At
  <1>3. /\ task'[t].sid = s /\ task'[t].gateway = task[t].gateway
        /\ \A u \in Tasks \ {t} : task'[u] = task[u]
    BY <1>1, GotoFields DEF Inv
  <1>4. \A r \in Sids : /\ sessions'[r].status = sessions[r].status
                        /\ sessions'[r].gateway = sessions[r].gateway
                        /\ sessions'[r].expires = sessions[r].expires
    <2>1. sessions[s] \in Row BY <1>2 DEF Inv, TypeOK
    <2>2. sessions'[s] = [sessions[s] EXCEPT !.ip = task[t].addr]
      BY <1>2 DEF CreateSetIp, Inv, TypeOK
    <2>3. /\ sessions'[s].status = sessions[s].status
          /\ sessions'[s].gateway = sessions[s].gateway
          /\ sessions'[s].expires = sessions[s].expires
      BY <2>1, <2>2 DEF Row
    <2>4. \A r \in Sids \ {s} : sessions'[r] = sessions[r]
      BY DEF CreateSetIp, Inv, TypeOK
    <2> QED BY <2>3, <2>4
  <1>5. sessions'[task'[t].sid].gateway = task'[t].gateway
    BY <1>2, <1>3, <1>4 DEF Fresh
  <1>6. \A g \in Gateways : ~Pends(t, g) BY <1>1 DEF Pends, At, Revoked
  <1>7. Settled BY <1>4 DEF Settled
  <1>8. \A r \in Sids, a \in Pool, g \in Gateways : Current(r, a, g)' <=> Current(r, a, g)
    BY <1>1, <1>4 DEF Current
  <1> QED BY <1>1, <1>3, <1>5, <1>6, <1>7, <1>8, HandlerCovers

\* The new peer is announced by the handler that inserted it.
LEMMA PeerCovers ==
  ASSUME Inv, TypeOK', Fresh, VersionCoversPeers, NEW t \in Tasks, CreatePeer(t)
  PROVE  Fresh' /\ VersionCoversPeers'
  <1> DEFINE s == task[t].sid
  <1>1. /\ At(t, "peer") /\ Goto(t, "bump")
        /\ UNCHANGED <<now, aborts, version, beat, reply, sessions>>
    BY DEF CreatePeer, beatVars
  <1>2. Creating(t) /\ s \in Sids
    BY <1>1 DEF Inv, HandlersOwnTheirRows, CreationOwnsRow, Creating, At
  <1>3. /\ task'[t].pc = "bump" /\ task'[t].sid = s /\ task'[t].gateway = task[t].gateway
        /\ \A u \in Tasks \ {t} : task'[u] = task[u]
    BY <1>1, GotoFields DEF Inv
  <1>4. \A r \in Sids \ {s} : peers'[r] = peers[r] BY DEF CreatePeer, Inv, TypeOK
  <1>5. sessions[s].gateway = task[t].gateway BY <1>2 DEF Fresh
  <1>6. \A g \in Gateways : ~Pends(t, g) BY <1>1 DEF Pends, At, Revoked
  <1>7. Settled BY <1>1 DEF Settled
  <1>8. ASSUME NEW r \in Sids, NEW a \in Pool, NEW g \in Gateways
        PROVE  Pends(t, g)' \/ (Current(r, a, g)' <=> Current(r, a, g))
    <2>1. CASE r # s BY <1>1, <1>4, <2>1 DEF Current
    <2>2. CASE r = s /\ g # sessions[s].gateway BY <1>1, <2>2 DEF Current
    <2>3. CASE g = sessions[s].gateway BY <1>1, <1>3, <1>5, <2>3 DEF Pends, At
    <2> QED BY <2>1, <2>2, <2>3
  <1> QED BY <1>1, <1>3, <1>5, <1>6, <1>7, <1>8, HandlerCovers

\* The session that stops being active is announced by the handler that
\* revoked it.
LEMMA MarkCovers ==
  ASSUME Inv, TypeOK', Fresh, VersionCoversPeers, NEW t \in Tasks, NEW s \in Sids,
         NEW rest, Mark(t, s, rest), ~At(t, "bump"), ~Revoked(t)
  PROVE  Fresh' /\ VersionCoversPeers'
  <1>0. UNCHANGED <<now, aborts, version, beat, reply, peers>> BY DEF Mark, beatVars
  <1>1. CASE sessions[s].status # "active"
    BY <1>0, <1>1, RevokingCovers DEF Mark
  <1>2. CASE sessions[s].status = "active"
    <2> DEFINE x == [IdleTask EXCEPT !.pc = "unpeer", !.sid = s, !.todo = rest]
    <2>1. x.pc = "unpeer" /\ x.sid = s BY DEF IdleTask
    <2>2. task'[t] = x /\ \A u \in Tasks \ {t} : task'[u] = task[u]
      BY <1>2 DEF Mark, Inv, TypeOK
    <2> HIDE DEF x
    <2>3. Revoked(t)' /\ ~Creating(t)' BY <2>1, <2>2 DEF Revoked, Creating
    <2>4. /\ sessions'[s].status = "revoked"
          /\ sessions'[s].gateway = sessions[s].gateway
          /\ sessions'[s].expires = sessions[s].expires
      <3>1. sessions[s] \in Row BY DEF Inv, TypeOK
      <3>2. sessions'[s] = [sessions[s] EXCEPT !.status = "revoked"]
        BY <1>2 DEF Mark, SetStatus, Inv, TypeOK
      <3> QED BY <3>1, <3>2 DEF Row
    <2>5. \A r \in Sids \ {s} : sessions'[r] = sessions[r]
      BY <1>2 DEF Mark, SetStatus, Inv, TypeOK
    <2>6. Settled BY <2>4, <2>5 DEF Settled
    <2>7. \A g \in Gateways : ~Pends(t, g) BY DEF Pends
    <2>8. ASSUME NEW r \in Sids, NEW a \in Pool, NEW g \in Gateways
          PROVE  Pends(t, g)' \/ (Current(r, a, g)' <=> Current(r, a, g))
      <3>1. CASE r # s BY <1>0, <2>5, <3>1 DEF Current
      <3>2. CASE r = s /\ g # sessions[s].gateway BY <1>0, <2>4, <3>2 DEF Current
      <3>3. CASE g = sessions[s].gateway BY <2>1, <2>2, <2>3, <2>4, <3>3 DEF Pends
      <3> QED BY <3>1, <3>2, <3>3
    <2> QED BY <1>0, <2>2, <2>3, <2>6, <2>7, <2>8, HandlerCovers
  <1> QED BY <1>1, <1>2

\* Removing the peer and the address of a session that is revoked already.
LEMMA RevocationCovers ==
  ASSUME Inv, TypeOK', Fresh, VersionCoversPeers, NEW t \in Tasks,
         RevokePeer(t) \/ RevokeRelease(t)
  PROVE  Fresh' /\ VersionCoversPeers'
  <1>1. /\ Revoked(t) /\ (Goto(t, "release") \/ Goto(t, "rbump"))
        /\ UNCHANGED <<now, aborts, version, beat, reply, sessions>>
    BY DEF RevokePeer, RevokeRelease, Revoked, At, beatVars
  <1>2. task[t].sid \in Sids /\ sessions[task[t].sid].status = "revoked"
    BY <1>1 DEF Inv, HandlersOwnTheirRows
  <1>3. \A r \in Sids \ {task[t].sid} : peers'[r] = peers[r]
    BY DEF RevokePeer, RevokeRelease, Inv, TypeOK
  <1>4. /\ task'[t].pc \in {"release", "rbump"} /\ task'[t].sid = task[t].sid
        /\ \A u \in Tasks \ {t} : task'[u] = task[u]
    BY <1>1, GotoFields DEF Inv
  <1>5. ~Creating(t)' /\ Revoked(t)' BY <1>4 DEF Creating, Revoked
  <1>6. \A g \in Gateways : Pends(t, g) => Pends(t, g)'
    BY <1>1, <1>4, <1>5 DEF Pends, At, Revoked
  <1>7. Settled BY <1>1 DEF Settled
  <1>8. \A r \in Sids, a \in Pool, g \in Gateways : Current(r, a, g)' <=> Current(r, a, g)
    BY <1>1, <1>2, <1>3 DEF Current
  <1> QED BY <1>1, <1>4, <1>5, <1>6, <1>7, <1>8, HandlerCovers

\* A handler announces what it changed: the version of h moves past every
\* reply and every heartbeat in flight.
LEMMA BumpCovers ==
  ASSUME Inv, TypeOK', Fresh, VersionCoversPeers, NEW t \in Tasks, NEW h \in Gateways,
         Bump(h), \A u \in Tasks \ {t} : task'[u] = task[u],
         ~Creating(t)', \A g \in Gateways : Pends(t, g) => g = h,
         UNCHANGED <<now, aborts, beat, reply, sessions, peers>>
  PROVE  Fresh' /\ VersionCoversPeers'
  <1>1. /\ version \in [Gateways -> Nat]
        /\ \A g \in Gateways : reply[g].version \in Int /\ beat[g].version \in Nat
    BY DEF Inv, TypeOK
  <1>2. version'[h] = version[h] + 1 /\ \A g \in Gateways \ {h} : version'[g] = version[g]
    BY <1>1 DEF Bump
  <1>3. \A g \in Gateways : reply[g].version <= version'[g] /\ beat[g].version <= version'[g]
    BY <1>1, <1>2 DEF Fresh
  <1>4. \A u \in Tasks : Creating(u)' => sessions'[task'[u].sid].gateway = task'[u].gateway
    BY DEF Fresh, Creating
  <1>5. Fresh' BY <1>3, <1>4 DEF Fresh
  <1>6. Settled BY DEF Settled
  <1>7. ASSUME NEW g \in Gateways PROVE Covers(g)'
    <2>1. CASE g = h
      <3>1. reply[h].version # version'[h] BY <1>1, <1>2 DEF Fresh
      <3> QED BY <2>1, <3>1 DEF Covers
    <2>2. CASE g # h
      <3>1. \A u \in Tasks \ {t} : Pends(u, g) => Pends(u, g)' BY DEF Pends, At, Revoked
      <3>2. PendingBump(g) => PendingBump(g)' BY <2>2, <3>1 DEF PendingBump, Pends
      <3>3. \A s \in Sids, a \in Pool :
              Current(s, a, g)' <=> Current(s, a, g) /\ sessions[s].expires > now'
        BY DEF Current
      <3>4. now \in Nat BY DEF Inv, TypeOK
      <3>5. now' >= now BY <3>4
      <3>6. TypeOK BY DEF Inv
      <3>7. Covers(g) BY CoversAll
      <3> QED BY <1>2, <1>6, <2>2, <3>2, <3>3, <3>5, <3>6, <3>7, CoverKeeps
    <2> QED BY <2>1, <2>2
  <1> QED BY <1>5, <1>7 DEF VersionCoversPeers, Covers

\* Time passes, or a heartbeat sweeps out what has expired: what is served
\* shrinks to what has not expired, and so does what was sent.
LEMMA SweepCovers ==
  ASSUME Inv, TypeOK', Fresh, VersionCoversPeers, Settled, now' >= now,
         UNCHANGED <<aborts, version, reply, task>>,
         \A g \in Gateways : beat'[g].version <= version[g],
         \A s \in Sids, a \in Pool, g \in Gateways :
           Current(s, a, g)' <=> Current(s, a, g) /\ sessions[s].expires > now'
  PROVE  Fresh' /\ VersionCoversPeers'
  <1>1. \A u \in Tasks : Creating(u) =>
          task[u].sid \in Sids /\ sessions[task[u].sid].status # "none"
    BY DEF Inv, HandlersOwnTheirRows, CreationOwnsRow
  <1>2. \A u \in Tasks : Revoked(u) =>
          task[u].sid \in Sids /\ sessions[task[u].sid].status # "none"
    BY DEF Inv, HandlersOwnTheirRows
  <1>3. \A g \in Gateways : reply[g].peers \subseteq Peer BY DEF Inv, TypeOK
  <1>4. \A p \in Peer : p.sid \in Sids BY DEF Peer
  <1>5. Fresh'
    <2>1. \A g \in Gateways : \A p \in reply'[g].peers : sessions'[p.sid].status # "none"
      BY <1>3, <1>4 DEF Fresh, Settled
    <2>2. \A u \in Tasks : Creating(u)' => sessions'[task'[u].sid].gateway = task'[u].gateway
      BY <1>1 DEF Fresh, Settled, Creating
    <2> QED BY <2>1, <2>2 DEF Fresh
  <1>6. \A u \in Tasks, g \in Gateways : Pends(u, g) => Pends(u, g)'
    BY <1>2 DEF Pends, Settled, At, Revoked
  <1>7. ASSUME NEW g \in Gateways PROVE Covers(g)'
    <2>1. PendingBump(g) => PendingBump(g)' BY <1>6 DEF PendingBump, Pends
    <2>2. TypeOK /\ Covers(g) BY CoversAll DEF Inv
    <2> QED BY <2>1, <2>2, CoverKeeps
  <1> QED BY <1>5, <1>7 DEF VersionCoversPeers, Covers

LEMMA TickCovers ==
  ASSUME Inv, TypeOK', Fresh, VersionCoversPeers, Tick
  PROVE  Fresh' /\ VersionCoversPeers'
  <1>1. /\ now' = now + 1
        /\ UNCHANGED <<aborts, version, reply, beat, task, sessions, peers>>
    BY DEF Tick, netVars, beatVars
  <1>2. now \in Nat /\ \A s \in Sids : sessions[s].expires \in Nat
    BY DEF Inv, TypeOK, Row
  <1>3. now' >= now /\ \A s \in Sids : sessions[s].expires > now' => sessions[s].expires > now
    BY <1>1, <1>2
  <1>4. Settled BY <1>1 DEF Settled
  <1>5. \A s \in Sids, a \in Pool, g \in Gateways :
          Current(s, a, g)' <=> Current(s, a, g) /\ sessions[s].expires > now'
    BY <1>1, <1>3 DEF Current
  <1>6. \A g \in Gateways : beat'[g].version <= version[g] BY <1>1 DEF Fresh
  <1> QED BY <1>1, <1>3, <1>4, <1>5, <1>6, SweepCovers

LEMMA BeatCovers ==
  ASSUME Inv, TypeOK', Fresh, VersionCoversPeers, NEW g \in Gateways,
         HeartbeatStart(g) \/ BeatStep(g) \/ HeartbeatLost(g)
  PROVE  Fresh' /\ VersionCoversPeers'
  <1>1. UNCHANGED <<now, aborts, version, task>>
    BY DEF HeartbeatStart, BeatStep, HeartbeatLost, ConfigExpire, ConfigPurge,
           ConfigSelect, netVars
  <1>2. /\ now \in Nat /\ version \in [Gateways -> Nat]
        /\ \A s \in Sids : sessions[s].expires \in Nat
    BY DEF Inv, TypeOK, Row
  <1>3. now' >= now /\ \A s \in Sids : sessions[s].expires < now => ~(sessions[s].expires > now)
    BY <1>1, <1>2
  <1>4. \A h \in Gateways : beat'[h].version <= version[h]
    <2> SUFFICES ASSUME NEW h \in Gateways PROVE beat'[h].version <= version[h]
      OBVIOUS
    <2>1. /\ beat[h].version <= version[h] /\ version[h] \in Nat
          /\ beat[g] \in [pc : {"idle", "expire", "purge", "select"}, version : Nat]
      BY <1>2 DEF Fresh, Inv, TypeOK
    <2>2. CASE h # g \/ UNCHANGED beat
      <3>1. beat'[h] = beat[h]
        BY <2>2 DEF HeartbeatStart, BeatStep, HeartbeatLost, ConfigExpire, ConfigPurge,
                    ConfigSelect, BeatTo, BeatDone, Inv, TypeOK
      <3> QED BY <2>1, <3>1
    <2>3. CASE h = g /\ HeartbeatStart(g)
      <3>1. beat'[g] = [pc |-> "expire", version |-> version[g]]
        BY <2>3 DEF HeartbeatStart, Inv, TypeOK
      <3> QED BY <2>1, <2>3, <3>1
    <2>4. CASE h = g /\ (ConfigSelect(g) \/ HeartbeatLost(g))
      <3>1. beat'[g] = IdleBeat
        BY <2>4 DEF ConfigSelect, HeartbeatLost, BeatDone, Inv, TypeOK
      <3> QED BY <2>1, <2>4, <3>1 DEF IdleBeat
    <2>5. CASE h = g /\ (ConfigExpire(g) \/ ConfigPurge(g))
      <3>1. \/ beat'[g] = [beat[g] EXCEPT !.pc = "purge"]
            \/ beat'[g] = [beat[g] EXCEPT !.pc = "select"]
        BY <2>5 DEF ConfigExpire, ConfigPurge, BeatTo, Inv, TypeOK
      <3>2. beat'[g].version = beat[g].version BY <2>1, <3>1
      <3> QED BY <2>1, <2>5, <3>2
    <2> QED BY <2>2, <2>3, <2>4, <2>5 DEF BeatStep
  <1>5. CASE HeartbeatStart(g) \/ HeartbeatLost(g)
    <2>1. UNCHANGED <<reply, sessions, peers>>
      BY <1>5 DEF HeartbeatStart, HeartbeatLost, netVars
    <2>2. Settled BY <2>1 DEF Settled
    <2>3. \A s \in Sids, a \in Pool, h \in Gateways :
            Current(s, a, h)' <=> Current(s, a, h) /\ sessions[s].expires > now'
      BY <1>1, <2>1 DEF Current
    <2> QED BY <1>1, <1>3, <1>4, <2>1, <2>2, <2>3, SweepCovers
  <1>6. CASE ConfigExpire(g)
    <2>1. UNCHANGED <<reply, peers>> BY <1>6 DEF ConfigExpire
    <2>2. ASSUME NEW s \in Sids
          PROVE  /\ sessions'[s].gateway = sessions[s].gateway
                 /\ sessions'[s].expires = sessions[s].expires
                 /\ \/ sessions'[s].status = sessions[s].status
                    \/ sessions'[s].status = "expired" /\ sessions[s].expires < now
      <3>1. sessions[s] \in Row BY DEF Inv, TypeOK
      <3>2. \/ sessions'[s] = sessions[s]
            \/ /\ sessions[s].expires < now
               /\ sessions'[s] = [sessions[s] EXCEPT !.status = "expired"]
        BY <1>6 DEF ConfigExpire
      <3> QED BY <3>1, <3>2 DEF Row
    <2>3. Settled BY <2>2 DEF Settled
    <2>4. \A s \in Sids, a \in Pool, h \in Gateways :
            Current(s, a, h)' <=> Current(s, a, h) /\ sessions[s].expires > now'
      BY <1>1, <1>3, <2>1, <2>2 DEF Current
    <2> QED BY <1>1, <1>3, <1>4, <2>1, <2>3, <2>4, SweepCovers
  <1>7. CASE ConfigPurge(g)
    <2>1. UNCHANGED <<reply, sessions>> BY <1>7 DEF ConfigPurge
    <2>2. \A s \in Sids : peers'[s] = peers[s] \/ sessions[s].expires < now
      BY <1>7 DEF ConfigPurge
    <2>3. Settled BY <2>1 DEF Settled
    <2>4. \A s \in Sids, a \in Pool, h \in Gateways :
            Current(s, a, h)' <=> Current(s, a, h) /\ sessions[s].expires > now'
      BY <1>1, <1>3, <2>1, <2>2 DEF Current
    <2> QED BY <1>1, <1>3, <1>4, <2>1, <2>3, <2>4, SweepCovers
  <1>8. CASE ConfigSelect(g)
    <2>1. /\ UNCHANGED <<sessions, peers>>
          /\ reply'[g] = [version |-> beat[g].version, peers |-> Served(g)]
          /\ \A h \in Gateways \ {g} : reply'[h] = reply[h]
      BY <1>8 DEF ConfigSelect, netVars, Inv, TypeOK
    <2>2. reply'[g].version = beat[g].version /\ reply'[g].peers = Served(g) BY <2>1
    <2>3. \A p \in Served(g) : sessions[p.sid].status # "none" /\ sessions[p.sid].expires > now
      BY DEF Served
    <2>4. Fresh'
      <3>1. \A h \in Gateways : reply'[h].version <= version'[h] BY <1>1, <2>1, <2>2 DEF Fresh
      <3>2. \A h \in Gateways : \A p \in reply'[h].peers : sessions'[p.sid].status # "none"
        BY <2>1, <2>2, <2>3 DEF Fresh
      <3>3. \A u \in Tasks : Creating(u)' => sessions'[task'[u].sid].gateway = task'[u].gateway
        BY <1>1, <2>1 DEF Fresh, Creating
      <3> QED BY <1>1, <1>4, <3>1, <3>2, <3>3 DEF Fresh
    <2>5. Covers(g)'
      <3>1. Served(g)' = Served(g) BY <1>1, <2>1 DEF Served
      <3>2. {p \in reply'[g].peers : sessions'[p.sid].expires > now'} = Served(g)
        BY <1>1, <2>1, <2>2, <2>3
      <3> QED BY <3>1, <3>2 DEF Covers
    <2>6. ASSUME NEW h \in Gateways \ {g} PROVE Covers(h)'
      <3>1. Covers(h) BY CoversAll
      <3>2. Served(h)' = Served(h) BY <1>1, <2>1 DEF Served
      <3>3. PendingBump(h)' <=> PendingBump(h) BY <1>1, <2>1 DEF PendingBump, At, Revoked
      <3> QED BY <1>1, <2>1, <3>1, <3>2, <3>3 DEF Covers
    <2> QED BY <2>4, <2>5, <2>6 DEF VersionCoversPeers, Covers
  <1> QED BY <1>5, <1>6, <1>7, <1>8 DEF BeatStep

LEMMA CoversNext == Inv /\ Fresh /\ VersionCoversPeers /\ [Next]_vars
                      => Fresh' /\ VersionCoversPeers'
  <1> SUFFICES ASSUME Inv, Fresh, VersionCoversPeers, [Next]_vars
               PROVE  Fresh' /\ VersionCoversPeers'
    OBVIOUS
  <1> DEFINE Goal == Fresh' /\ VersionCoversPeers'
  <1>0. TypeOK' BY TypeNext DEF Inv
  <1>1. ASSUME UNCHANGED <<now, aborts, version, beat, reply, sessions, peers, task>>
        PROVE  Goal
    <2>1. Fresh' BY <1>1 DEF Fresh, Creating
    <2>2. \A g \in Gateways : /\ Served(g)' = Served(g)
                              /\ PendingBump(g)' <=> PendingBump(g)
      BY <1>1 DEF Served, PendingBump, At, Revoked
    <2> QED BY <1>1, <2>1, <2>2 DEF VersionCoversPeers
  <1>2. ASSUME NEW t \in Tasks, Request(t) PROVE Goal
    <2>0. At(t, "idle") BY <1>2 DEF Request, CreateStart, RevokeSession, RevokeDevice,
                                    DisableUser, DeleteUser
    <2>1. ~At(t, "bump") /\ ~Revoked(t) BY <2>0 DEF At, Revoked
    <2>2. ASSUME NEW d \in Devices, CreateStart(t, d) PROVE Goal
      <3>1. [IdleTask EXCEPT !.pc = "device", !.device = d].pc = "device" BY DEF IdleTask
      <3> QED BY <1>0, <2>1, <2>2, <3>1, IdlerCovers DEF CreateStart, netVars, beatVars
    <2>3. ASSUME NEW s \in Sids, RevokeSession(t, s) PROVE Goal
      BY <1>0, <2>1, <2>3, MarkCovers DEF RevokeSession
    <2>4. ASSUME NEW S, Select(t, S),
                 UNCHANGED <<now, aborts, version, beat, reply, sessions, peers>>
          PROVE  Goal
      <3>1. [IdleTask EXCEPT !.pc = "select", !.scope = S].pc = "select" BY DEF IdleTask
      <3> QED BY <1>0, <2>1, <2>4, <3>1, IdlerCovers DEF Select
    <2>5. ASSUME NEW d \in Devices, RevokeDevice(t, d) PROVE Goal
      BY <2>4, <2>5 DEF RevokeDevice, netVars, beatVars
    <2>6. ASSUME NEW u \in Users, DisableUser(t, u) \/ DeleteUser(t, u) PROVE Goal
      BY <2>4, <2>6 DEF DisableUser, DeleteUser, netVars, beatVars
    <2> QED BY <1>2, <2>2, <2>3, <2>5, <2>6 DEF Request
  <1>3. ASSUME NEW t \in Tasks, CreateStep(t) PROVE Goal
    <2>1. CASE CreateDevice(t)
      <3>1. Finish(t) \/ Goto(t, "insert") BY <2>1 DEF CreateDevice
      <3>2. /\ ~At(t, "bump") /\ ~Revoked(t)
            /\ UNCHANGED <<now, aborts, version, beat, reply, sessions, peers>>
        BY <2>1 DEF CreateDevice, At, Revoked, netVars, beatVars
      <3>3. CASE Goto(t, "insert")
        <4>1. task[t] \in Task BY DEF Inv, TypeOK
        <4>2. [task[t] EXCEPT !.pc = "insert"].pc = "insert" BY <4>1 DEF Task
        <4>3. task' = [task EXCEPT ![t] = [task[t] EXCEPT !.pc = "insert"]]
          BY <3>3 DEF Goto
        <4> QED BY <1>0, <3>2, <4>2, <4>3, IdlerCovers
      <3> QED BY <1>0, <3>1, <3>2, <3>3, FinishCovers
    <2>2. CASE CreateDeny(t)
      <3>1. /\ ~At(t, "bump") /\ ~Revoked(t) /\ Finish(t)
            /\ UNCHANGED <<now, aborts, version, beat, reply, sessions, peers>>
        BY <2>2 DEF CreateDeny, At, Revoked, netVars, beatVars
      <3> QED BY <1>0, <3>1, FinishCovers
    <2>3. ASSUME NEW s \in Sids, NEW g \in Gateways, NEW life \in Lifetimes,
                 CreateInsert(t, s, g, life)
          PROVE Goal
      BY <1>0, <2>3, InsertCovers
    <2>4. CASE AllocateScan(t)
      <3>1. /\ At(t, "scan") /\ Creating(t) /\ ~At(t, "bump") /\ ~Revoked(t)
            /\ UNCHANGED <<now, aborts, version, beat, reply, sessions, peers>>
        BY <2>4 DEF AllocateScan, At, Creating, Revoked, netVars, beatVars
      <3>2. ASSUME NEW a \in Pool, task' = [task EXCEPT ![t].pc = "alloc", ![t].addr = a]
            PROVE  Goal
        <4>1. task[t] \in Task BY DEF Inv, TypeOK
        <4>2. /\ task'[t] = [task[t] EXCEPT !.pc = "alloc", !.addr = a]
              /\ \A u \in Tasks \ {t} : task'[u] = task[u]
          BY <3>2 DEF Inv, TypeOK
        <4>3. task'[t].sid = task[t].sid /\ task'[t].gateway = task[t].gateway
          BY <4>1, <4>2 DEF Task
        <4> QED BY <1>0, <3>1, <4>2, <4>3, CreationCovers
      <3> QED BY <1>0, <2>4, <3>1, <3>2, FinishCovers DEF AllocateScan
    <2>5. CASE AllocateInsert(t)
      <3>1. /\ Creating(t) /\ ~At(t, "bump") /\ ~Revoked(t) /\ (Goto(t, "ip") \/ Finish(t))
            /\ UNCHANGED <<now, aborts, version, beat, reply, sessions, peers>>
        BY <2>5 DEF AllocateInsert, At, Creating, Revoked, beatVars
      <3>2. CASE Goto(t, "ip")
        <4>1. /\ task'[t].sid = task[t].sid /\ task'[t].gateway = task[t].gateway
              /\ \A u \in Tasks \ {t} : task'[u] = task[u]
          BY <3>2, GotoFields DEF Inv
        <4> QED BY <1>0, <3>1, <4>1, CreationCovers
      <3> QED BY <1>0, <3>1, <3>2, FinishCovers
    <2>6. CASE CreateBump(t)
      <3>1. PICK h \in Gateways : h = task[t].gateway BY DEF Inv, TypeOK, Task
      <3>2. /\ At(t, "bump") /\ Bump(h) /\ Finish(t)
            /\ UNCHANGED <<now, aborts, beat, reply, sessions, peers>>
        BY <2>6, <3>1 DEF CreateBump, beatVars
      <3>3. \A g \in Gateways : Pends(t, g) => g = h BY <3>1, <3>2 DEF Pends, At, Revoked
      <3>4. task'[t] = IdleTask /\ \A u \in Tasks \ {t} : task'[u] = task[u]
        BY <3>2 DEF Finish, Inv, TypeOK
      <3>5. ~Creating(t)' BY <3>4 DEF Creating, IdleTask
      <3> QED BY <1>0, <3>2, <3>3, <3>4, <3>5, BumpCovers
    <2> QED BY <1>0, <1>3, <2>1, <2>2, <2>3, <2>4, <2>5, <2>6, SetIpCovers, PeerCovers
      DEF CreateStep
  <1>4. ASSUME NEW t \in Tasks, RevokeStep(t) PROVE Goal
    <2>1. CASE RevokeSelect(t)
      <3>1. /\ ~At(t, "bump") /\ ~Revoked(t) /\ Revoking(t, ActiveSessions(task[t].scope))
            /\ UNCHANGED <<now, aborts, version, beat, reply, sessions, peers>>
        BY <2>1 DEF RevokeSelect, At, Revoked, netVars, beatVars
      <3> QED BY <1>0, <3>1, RevokingCovers
    <2>2. ASSUME NEW s \in Sids, RevokeMark(t, s) PROVE Goal
      <3>1. ~At(t, "bump") /\ ~Revoked(t) BY <2>2 DEF RevokeMark, At, Revoked
      <3> QED BY <1>0, <2>2, <3>1, MarkCovers DEF RevokeMark
    <2>3. CASE RevokeBump(t)
      <3>1. Revoked(t) /\ At(t, "rbump") BY <2>3 DEF RevokeBump, At, Revoked
      <3>2. task[t].sid \in Sids BY <3>1 DEF Inv, HandlersOwnTheirRows
      <3>3. PICK h \in Gateways : h = sessions[task[t].sid].gateway
        BY <3>2 DEF Inv, TypeOK, Row
      <3>4. /\ Bump(h) /\ Revoking(t, task[t].todo)
            /\ UNCHANGED <<now, aborts, beat, reply, sessions, peers>>
        BY <2>3, <3>3 DEF RevokeBump, beatVars
      <3>5. \A g \in Gateways : Pends(t, g) => g = h BY <3>1, <3>3 DEF Pends, At
      <3>6. ~Creating(t)' /\ \A u \in Tasks \ {t} : task'[u] = task[u]
        <4> DEFINE more == [IdleTask EXCEPT !.pc = "mark", !.todo = task[t].todo]
        <4>1. IdleTask.pc = "idle" /\ more.pc = "mark" BY DEF IdleTask
        <4>2. /\ task'[t] = IdleTask \/ task'[t] = more
              /\ \A u \in Tasks \ {t} : task'[u] = task[u]
          BY <3>4 DEF Revoking, Finish, Inv, TypeOK
        <4> HIDE DEF more
        <4> QED BY <4>1, <4>2 DEF Creating
      <3> QED BY <1>0, <3>4, <3>5, <3>6, BumpCovers
    <2> QED BY <1>0, <1>4, <2>1, <2>2, <2>3, RevocationCovers DEF RevokeStep
  <1>5. ASSUME NEW t \in Tasks, Abort(t) PROVE Goal
    <2>1. /\ aborts' = aborts + 1 /\ Finish(t)
          /\ UNCHANGED <<version, beat, reply, sessions>>
      BY <1>5 DEF Abort, netVars, beatVars
    <2>2. aborts' # 0 BY <2>1 DEF Inv, TypeOK
    <2>3. VersionCoversPeers' BY <2>2 DEF VersionCoversPeers
    <2>4. task'[t] = IdleTask /\ \A u \in Tasks \ {t} : task'[u] = task[u]
      BY <2>1 DEF Finish, Inv, TypeOK
    <2>5. ~Creating(t)' BY <2>4 DEF Creating, IdleTask
    <2>6. \A u \in Tasks : Creating(u)' => sessions'[task'[u].sid].gateway = task'[u].gateway
      BY <2>1, <2>4, <2>5 DEF Fresh, Creating
    <2>7. Fresh' BY <2>1, <2>6 DEF Fresh
    <2> QED BY <2>3, <2>7
  <1>6. ASSUME NEW u \in Users, EnableUser(u) PROVE Goal
    BY <1>1, <1>6 DEF EnableUser, netVars, beatVars
  <1>7. ASSUME NEW d \in Devices, Reregister(d) PROVE Goal
    BY <1>1, <1>7 DEF Reregister, netVars, beatVars
  <1>8. CASE UNCHANGED vars BY <1>1, <1>8 DEF vars, netVars, beatVars
  <1> QED BY <1>0, <1>2, <1>3, <1>4, <1>5, <1>6, <1>7, <1>8, TickCovers, BeatCovers DEF Next

(* A gateway that holds the current version number holds the current       *)
(* peers, expired ones aside, once no handler has still to announce a      *)
(* change and none was dropped before it could: the version check of the   *)
(* gateway never hides a creation or a revocation from it.                 *)
THEOREM VersionIsEnough == Spec => []VersionCoversPeers
  <1>1. Init => Fresh /\ VersionCoversPeers
    <2> SUFFICES ASSUME Init PROVE Fresh /\ VersionCoversPeers
      OBVIOUS
    <2>1. /\ \A t \in Tasks : ~Creating(t)
          /\ \A g \in Gateways : /\ version[g] = 0 /\ beat[g].version = 0
                                 /\ reply[g].version = -1 /\ reply[g].peers = {}
      BY DEF Init, IdleTask, Creating, IdleBeat
    <2> QED BY <2>1 DEF Fresh, VersionCoversPeers
  <1>2. Inv /\ Fresh /\ VersionCoversPeers /\ [Next]_vars => Fresh' /\ VersionCoversPeers'
    BY CoversNext
  <1> QED BY <1>1, <1>2, InvHolds, PTL DEF Spec
=============================================================================
