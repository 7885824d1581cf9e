---------------------------- MODULE GitOpsProofs ----------------------------
(***************************************************************************)
(* Proofs about GitOps, for any number of replicas, administrators, files  *)
(* and networks.                                                           *)
(***************************************************************************)
EXTENDS GitOps, TLAPS

Replacing == {"upsert", "insert", "update", "revision"}

(***************************************************************************)
(* A version that is current has a document, a handler about to make one   *)
(* current has stored its own document under that number, and every        *)
(* document comes from a file of that name.                                *)
(***************************************************************************)
CurrentHasDocument == \A n \in Names : current[n] <= Len(versions[n])

HandlerStored ==
  \A t \in Appliers :
    /\ At(t, "insert") => app[t].version \in 1..Len(versions[Name(t)]) + 1
    /\ At(t, "update") => app[t].version \in 1..Len(versions[Name(t)])

FromFiles(F) ==
  \A n \in Names : \A v \in DOMAIN versions[n] :
    \E y \in F : y.name = n /\ versions[n][v] = Stored(Parse(y))

(***************************************************************************)
(* While no administrator has interfered: only replicas apply files, those *)
(* of the directory; what an applier's loop has left behind it is applied. *)
(***************************************************************************)
OnlyDirectory ==
  /\ FromFiles(Policies)
  /\ \A t \in Appliers : app[t].pc \in Replacing => app[t].file \in Policies /\ Name(t) \in app[t].todo
  /\ \A t \in Editors : At(t, "idle")

NetworksBehind(t) ==
  /\ app[t].pc \in {"nets", "create", "items"} =>
       \A n \in Networks : n \notin app[t].todo /\ (At(t, "nets") \/ n # app[t].net) => NetworkApplied(n)
  /\ app[t].pc \in {"create", "items"} => app[t].net \in Networks
  /\ At(t, "create") => app[t].left = Items[app[t].net]
  /\ At(t, "items") => app[t].net \in networks /\ Items[app[t].net] \ app[t].left \subseteq items[app[t].net]

FilesBehind(t) ==
  /\ app[t].pc \in {"files"} \union Replacing => \A n \in Networks : NetworkApplied(n)
  /\ app[t].pc \in {"files"} \union Replacing =>
       \A y \in Policies : y.name \notin app[t].todo => InForce(y.name)
  /\ At(t, "revision") => InForce(Name(t))

(***************************************************************************)
(* And while nothing failed for a reason of its own: the directory is      *)
(* applied or some replica will not be refused. A replica that is refused  *)
(* was overtaken, and the one that overtook it is not refused in its turn  *)
(* before somebody overtakes that one.                                     *)
(***************************************************************************)
Fresh(r) ==
  /\ app[r].pc \notin {"idle", "audit", "up"}
  /\ At(r, "create") => app[r].net \notin networks
  /\ At(r, "insert") => app[r].version > Len(versions[Name(r)])

AllBehind ==
  (\A n \in Networks : NetworkApplied(n)) /\ (\A y \in Policies : InForce(y.name))

SomeoneFinishes == AllBehind \/ \E r \in Replicas : Fresh(r)

\* The listed people a replica has been through have the role, unless it was
\* changed since, and after its demotions nobody else has.
ListedGranted ==
  \A r \in Replicas :
    /\ At(r, "admin") => Emails \ app[r].todo \subseteq admins \union changed
    /\ At(r, "demote") => Emails \subseteq admins \union changed
    /\ app[r].pc \notin {"down", "admin", "demote"} /\ Emails # {} =>
         Emails \subseteq admins \union changed /\ admins \subseteq Emails \union changed

Progress ==
  /\ \A t \in Appliers : NetworksBehind(t)
  /\ faults.edit = 0 => OnlyDirectory /\ \A t \in Appliers : FilesBehind(t)
  /\ faults.edit = 0 /\ faults.error = 0 => SomeoneFinishes
-----------------------------------------------------------------------------
\* A duration survives the way through the JSON column.
LEMMA TextSeconds == \A s \in Int : Seconds(Text(s)) = s
BY DEF Seconds, Text

LEMMA LoadedStored ==
  \A y \in Files : Seconds(y.duration) \in Int /\ Loaded(Stored(Parse(y))) = Parse(y)
<1> SUFFICES ASSUME NEW y \in Files
             PROVE Seconds(y.duration) \in Int /\ Loaded(Stored(Parse(y))) = Parse(y)
  OBVIOUS
<1>1. Seconds(y.duration) \in Int
  BY DirectoryAssumption DEF Seconds, Units
<1>2. Seconds(Text(Seconds(y.duration))) = Seconds(y.duration)
  BY <1>1, TextSeconds
<1> DEFINE Doc(d) ==
      [name |-> y.name, groups |-> y.groups, users |-> y.users, resources |-> y.resources,
       device |-> Requirements(y), duration |-> d, connect |-> y.connect]
<1>3. \A d, e : [Doc(d) EXCEPT !.duration = e] = Doc(e) /\ Doc(d).duration = d
  OBVIOUS
<1> QED BY <1>1, <1>2, <1>3 DEF Loaded, Stored, Parse

-----------------------------------------------------------------------------
(* Types.                                                                  *)

Todos == SUBSET (Emails \union Networks \union PolicyFiles)

LEMMA SomeFileType == SomeFile \in Files /\ Seed \in NetworkNames
BY DirectoryAssumption DEF SomeFile, Files, NetworkNames

LEMMA HandlerType ==
  ASSUME NEW pc \in Steps, NEW todo \in Todos
  PROVE  /\ Handler(pc, todo) \in Handlers
         /\ \A n \in Networks : NetworkHandler(pc, todo, n) \in Handlers
         /\ \A y \in Files, v \in Nat : FileHandler(pc, todo, y, v) \in Handlers
BY SomeFileType DEF Handler, NetworkHandler, FileHandler, Handlers, Todos, NetworkNames, AllItems

\* What Enter and Goto do to the handlers.
LEMMA EnterFacts ==
  ASSUME app \in [Appliers -> Handlers], NEW t \in Appliers,
         NEW step \in Steps, NEW todo \in Todos, Enter(t, step, todo)
  PROVE  /\ app' \in [Appliers -> Handlers]
         /\ app'[t] = Handler(step, todo)
         /\ \A u \in Appliers : u # t => app'[u] = app[u]
BY HandlerType DEF Enter

LEMMA GotoFacts ==
  ASSUME app \in [Appliers -> Handlers], NEW t \in Appliers, NEW step \in Steps, Goto(t, step)
  PROVE  /\ app' \in [Appliers -> Handlers]
         /\ app'[t] = [app[t] EXCEPT !.pc = step]
         /\ \A u \in Appliers : u # t => app'[u] = app[u]
BY DEF Goto, Handlers

LEMMA EndFacts ==
  ASSUME app \in [Appliers -> Handlers], NEW t \in Appliers, End(t)
  PROVE  /\ app' \in [Appliers -> Handlers]
         /\ app'[t] = Handler(IF t \in Replicas THEN "audit" ELSE "idle", {})
         /\ \A u \in Appliers : u # t => app'[u] = app[u]
<1>1. (IF t \in Replicas THEN "audit" ELSE "idle") \in Steps /\ {} \in Todos
  BY DEF Steps, Todos
<1> QED BY <1>1, EnterFacts DEF End

LEMMA SpendFacts ==
  ASSUME faults \in [crash : Nat, error : Nat, edit : Nat, role : Nat],
         NEW f \in {"crash", "error", "edit", "role"}, Spend(f)
  PROVE  /\ faults' \in [crash : Nat, error : Nat, edit : Nat, role : Nat]
         /\ faults'.edit = 0 => faults.edit = 0 /\ f # "edit"
         /\ faults'.error = 0 => faults.error = 0 /\ f # "error"
BY DEF Spend

LEMMA StoredType == \A y \in Files : Stored(Parse(y)) \in Documents /\ y.name \in Names
BY DEF Documents, Names

LEMMA NoDecisionType ==
  NoDecision \in [pc : {"idle", "meta"}, in : Requests, name : Names,
                  allow : BOOLEAN, duration : Int]
<1>1. (CHOOSE in \in Requests : TRUE) \in Requests
  BY DirectoryAssumption
<1>2. (CHOOSE n \in Names : TRUE) \in Names
  BY SomeFileType DEF Names
<1> QED BY <1>1, <1>2 DEF NoDecision

LEMMA TypeInit == Init => TypeOK
<1> SUFFICES ASSUME Init PROVE TypeOK
  OBVIOUS
<1>1. \A t \in Appliers : Handler(IF t \in Replicas THEN "down" ELSE "idle", {}) \in Handlers
  <2>1. {"down", "idle"} \subseteq Steps /\ {} \in Todos
    BY DEF Steps, Todos
  <2> QED BY <2>1, HandlerType
<1>2. versions \in [Names -> Seq(Documents)]
  BY DEF Init
<1> QED BY <1>1, <1>2, NoDecisionType DEF Init, TypeOK

LEMMA TypeBootstrap ==
  ASSUME TypeOK, NEW r \in Replicas, Bootstrap(r) \/ Crash(r)
  PROVE  TypeOK'
<1> USE DEF roleVars, networkVars, policyVars
<1>0. r \in Appliers /\ app \in [Appliers -> Handlers] /\ app[r].todo \in Todos
  BY DEF TypeOK, Handlers, Appliers, Todos
<1>s. /\ {"admin", "demote", "count", "seed", "route", "nets", "down", "up"} \subseteq Steps
      /\ {} \in Todos /\ Emails \in Todos /\ Networks \in Todos
  BY DEF Steps, Applying, Todos
<1>1. CASE Boot(r)
  <2>1. (IF Emails = {} THEN "count" ELSE "admin") \in Steps
    BY <1>s
  <2> QED BY <1>0, <1>1, <1>s, <2>1, EnterFacts DEF Boot, TypeOK
<1>2. CASE GrantAdmin(r)
  <2>1. PICK e \in Emails :
          /\ users' = users \union {e} /\ admins' = admins \union {e} /\ changed' = changed \ {e}
          /\ Enter(r, IF app[r].todo \ {e} = {} THEN "demote" ELSE "admin", app[r].todo \ {e})
    BY <1>2 DEF GrantAdmin
  <2>2. app[r].todo \ {e} \in Todos
    BY <1>0 DEF Todos
  <2>3. (IF app[r].todo \ {e} = {} THEN "demote" ELSE "admin") \in Steps
    BY <1>s
  <2>4. app' \in [Appliers -> Handlers]
    BY <1>0, <2>1, <2>2, <2>3, EnterFacts
  <2> QED BY <1>2, <2>1, <2>4, DirectoryAssumption DEF GrantAdmin, TypeOK
<1>3. CASE Demote(r)
  BY <1>0, <1>3, <1>s, GotoFacts DEF Demote, TypeOK
<1>4. CASE CountNetworks(r)
  <2>1. CASE networks = {}
    BY <1>0, <1>4, <2>1, <1>s, GotoFacts DEF CountNetworks, TypeOK
  <2>2. CASE networks # {}
    BY <1>0, <1>4, <2>2, <1>s, EnterFacts DEF CountNetworks, TypeOK
  <2> QED BY <2>1, <2>2
<1>5. CASE SeedNetwork(r)
  <2>1. CASE Seed \in networks
    BY <1>0, <1>5, <2>1, <1>s, EnterFacts DEF SeedNetwork, TypeOK
  <2>2. CASE Seed \notin networks
    BY <1>0, <1>5, <2>2, <1>s, GotoFacts, SomeFileType DEF SeedNetwork, TypeOK
  <2> QED BY <2>1, <2>2
<1>6. CASE SeedRoutes(r)
  <2>1. app' \in [Appliers -> Handlers]
    BY <1>0, <1>6, <1>s, EnterFacts DEF SeedRoutes
  <2>2. items' \in [NetworkNames -> SUBSET AllItems]
    <3>1. SeedRoute \in AllItems
      BY DEF AllItems
    <3>2. CASE SeedRoute \in items[Seed]
      BY <1>6, <3>2 DEF SeedRoutes, TypeOK
    <3>3. CASE SeedRoute \notin items[Seed]
      <4>1. items' = [items EXCEPT ![Seed] = @ \union {SeedRoute}]
        BY <1>6, <3>3 DEF SeedRoutes
      <4> QED BY <3>1, <4>1, SomeFileType DEF TypeOK
    <3> QED BY <3>2, <3>3
  <2> QED BY <1>6, <2>1, <2>2 DEF SeedRoutes, TypeOK
<1>7. CASE Serve(r)
  BY <1>0, <1>7, <1>s, GotoFacts DEF Serve, TypeOK
<1>8. CASE Crash(r)
  BY <1>0, <1>8, <1>s, EnterFacts, SpendFacts DEF Crash, TypeOK
<1> QED BY <1>1, <1>2, <1>3, <1>4, <1>5, <1>6, <1>7, <1>8 DEF Bootstrap

LEMMA TypeApply ==
  ASSUME TypeOK, NEW t \in Appliers, ApplyStep(t) \/ Fail(t)
  PROVE  TypeOK'
<1> USE DEF roleVars, networkVars, policyVars
<1>0. /\ app \in [Appliers -> Handlers] /\ app[t] \in Handlers
      /\ app[t].todo \in Todos /\ app[t].file \in Files /\ Name(t) \in Names
      /\ app[t].net \in NetworkNames /\ app[t].left \subseteq AllItems /\ app[t].version \in Nat
  BY DEF TypeOK, Handlers, Todos, Name, Names
<1>s. /\ Applying \subseteq Steps /\ {} \in Todos /\ PolicyFiles \in Todos
      /\ \A x : app[t].todo \ {x} \in Todos
  BY <1>0 DEF Steps, Todos
<1>v. Len(versions[Name(t)]) \in Nat
  BY <1>0 DEF TypeOK
<1>1. CASE NextNetwork(t)
  <2>1. app' \in [Appliers -> Handlers]
    <3>1. CASE \E n \in Networks :
                 app' = [app EXCEPT ![t] =
                   NetworkHandler(IF n \in networks THEN "items" ELSE "create",
                                  app[t].todo \ {n}, n)]
      <4>1. {"items", "create"} \subseteq Steps
        BY DEF Steps, Applying
      <4> QED BY <1>0, <1>s, <3>1, <4>1, HandlerType
    <3>2. CASE Enter(t, "files", PolicyFiles)
      <4>1. "files" \in Steps
        BY DEF Steps, Applying
      <4> QED BY <1>0, <1>s, <3>2, <4>1, EnterFacts
    <3> QED BY <1>1, <3>1, <3>2 DEF NextNetwork
  <2> QED BY <1>1, <2>1 DEF NextNetwork, TypeOK
<1>2. CASE CreateNetwork(t)
  <2>1. CASE app[t].net \in networks
    BY <1>0, <1>2, <2>1, EndFacts DEF CreateNetwork, TypeOK
  <2>2. CASE app[t].net \notin networks
    <3>1. "items" \in Steps
      BY DEF Steps, Applying
    <3> QED BY <1>0, <1>2, <2>2, <3>1, GotoFacts DEF CreateNetwork, TypeOK
  <2> QED BY <2>1, <2>2
<1>3. CASE AddItem(t)
  <2>1. CASE \E i \in app[t].left :
               /\ items' = [items EXCEPT ![app[t].net] = @ \union {i}]
               /\ app' = [app EXCEPT ![t].left = @ \ {i}]
    <3>1. app' \in [Appliers -> Handlers]
      BY <1>0, <2>1 DEF Handlers
    <3>2. items' \in [NetworkNames -> SUBSET AllItems]
      BY <1>0, <2>1 DEF TypeOK
    <3> QED BY <1>3, <3>1, <3>2 DEF AddItem, TypeOK
  <2>2. CASE Enter(t, "nets", app[t].todo) /\ UNCHANGED items
    <3>1. "nets" \in Steps
      BY DEF Steps, Applying
    <3> QED BY <1>0, <1>3, <2>2, <3>1, EnterFacts DEF AddItem, TypeOK
  <2> QED BY <1>3, <2>1, <2>2 DEF AddItem
<1>4. CASE NextFile(t)
  <2>1. app' \in [Appliers -> Handlers]
    <3>1. CASE \E y \in Policies : app' = [app EXCEPT ![t] = FileHandler("upsert", @.todo, y, 0)]
      <4>1. "upsert" \in Steps /\ Policies \subseteq Files
        BY DEF Steps, Applying, Files
      <4> QED BY <1>0, <3>1, <4>1, HandlerType
    <3>2. CASE End(t)
      BY <1>0, <3>2, EndFacts
    <3> QED BY <1>4, <3>1, <3>2 DEF NextFile
  <2> QED BY <1>4, <2>1 DEF NextFile, TypeOK
<1>5. CASE ReadVersion(t)
  <2>1. "insert" \in Steps /\ Len(versions[Name(t)]) + 1 \in Nat
    BY <1>v DEF Steps, Applying
  <2>2. app' \in [Appliers -> Handlers]
    BY <1>0, <1>5, <2>1, HandlerType DEF ReadVersion
  <2> QED BY <1>5, <2>2 DEF ReadVersion, TypeOK
<1>6. CASE InsertVersion(t)
  <2>1. CASE app[t].version <= Len(versions[Name(t)])
    BY <1>0, <1>6, <2>1, EndFacts DEF InsertVersion, TypeOK
  <2>2. CASE ~(app[t].version <= Len(versions[Name(t)]))
    <3>1. "update" \in Steps
      BY DEF Steps, Applying
    <3>2. app' \in [Appliers -> Handlers]
      BY <1>0, <1>6, <2>2, <3>1, GotoFacts DEF InsertVersion
    <3>3. versions' \in [Names -> Seq(Documents)]
      <4>1. Append(versions[Name(t)], Stored(Parse(app[t].file))) \in Seq(Documents)
        BY <1>0, StoredType DEF TypeOK
      <4> QED BY <1>0, <1>6, <2>2, <4>1 DEF InsertVersion, TypeOK
    <3> QED BY <1>6, <3>2, <3>3 DEF InsertVersion, TypeOK
  <2> QED BY <2>1, <2>2
<1>7. CASE UpdateCurrent(t)
  <2>1. app' \in [Appliers -> Handlers]
    <3>1. "revision" \in Steps
      BY DEF Steps, Applying
    <3> QED BY <1>0, <1>7, <3>1, EndFacts, GotoFacts DEF UpdateCurrent
  <2> QED BY <1>0, <1>7, <2>1 DEF UpdateCurrent, TypeOK
<1>8. CASE AddRevision(t)
  <2>1. app' \in [Appliers -> Handlers]
    <3>1. "files" \in Steps
      BY DEF Steps, Applying
    <3> QED BY <1>0, <1>s, <1>8, <3>1, EnterFacts DEF AddRevision
  <2> QED BY <1>0, <1>8, <2>1 DEF AddRevision, TypeOK
<1>9. CASE Fail(t)
  BY <1>0, <1>9, EndFacts, SpendFacts DEF Fail, TypeOK
<1> QED BY <1>1, <1>2, <1>3, <1>4, <1>5, <1>6, <1>7, <1>8, <1>9 DEF ApplyStep

LEMMA TypeRequest ==
  ASSUME TypeOK, FromFiles(Files), CurrentHasDocument,
         (\E t \in Editors : ApplyGitOps(t) \/ \E y \in Edits : ApplyPolicy(t, y))
           \/ (\E caller, p \in People, to \in Changes : AskChange(caller, p, to))
           \/ (\E c \in [who : People, to : Changes] : ChangeUser(c))
           \/ (\E in \in Requests : Decide(in)) \/ PolicyMeta
  PROVE  TypeOK'
<1> USE DEF roleVars, networkVars, policyVars
<1>1. ASSUME NEW t \in Editors, ApplyGitOps(t) \/ \E y \in Edits : ApplyPolicy(t, y)
      PROVE TypeOK'
  <2>1. /\ t \in Appliers /\ app \in [Appliers -> Handlers] /\ Edits \subseteq Files
        /\ {"nets", "upsert"} \subseteq Steps /\ {} \in Todos /\ Networks \in Todos
    BY <1>1 DEF TypeOK, Appliers, Steps, Applying, Todos, Files
  <2>2. app' \in [Appliers -> Handlers]
    <3>1. CASE ApplyGitOps(t)
      BY <2>1, <3>1, EnterFacts DEF ApplyGitOps
    <3>2. CASE \E y \in Edits : ApplyPolicy(t, y)
      BY <2>1, <3>2, HandlerType DEF ApplyPolicy
    <3> QED BY <1>1, <3>1, <3>2
  <2>3. faults' \in [crash : Nat, error : Nat, edit : Nat, role : Nat]
    BY <1>1, SpendFacts DEF ApplyGitOps, ApplyPolicy, TypeOK
  <2> QED BY <1>1, <2>2, <2>3 DEF ApplyGitOps, ApplyPolicy, TypeOK
<1>2. ASSUME NEW in \in Requests, Decide(in) PROVE TypeOK'
  <2>1. PICK o \in Orders({n \in Names : InForce(n)}) :
          \/ \E i \in DOMAIN o :
               decision' = [pc |-> "meta", in |-> in, name |-> o[i],
                            allow |-> Allows(DocumentOf(o[i]), in),
                            duration |-> DocumentOf(o[i]).duration]
          \/ decision' = NoDecision
    BY <1>2 DEF Decide
  <2>2. ASSUME NEW i \in DOMAIN o
        PROVE /\ o[i] \in Names /\ InForce(o[i])
              /\ DocumentOf(o[i]).duration \in Int
    <3>1. o[i] \in Names /\ InForce(o[i])
      BY DEF Orders
    <3>2. PICK y \in Files : versions[o[i]][current[o[i]]] = Stored(Parse(y))
      BY <3>1 DEF FromFiles, InForce
    <3>3. DocumentOf(o[i]) = Parse(y)
      BY <3>2, LoadedStored DEF DocumentOf
    <3> QED BY <3>1, <3>3, LoadedStored DEF Parse
  <2>3. \A d : Allows(d, in) \in BOOLEAN
    BY DEF Allows
  <2>4. decision' \in [pc : {"idle", "meta"}, in : Requests, name : Names,
                       allow : BOOLEAN, duration : Int]
    BY <2>1, <2>2, <2>3, NoDecisionType
  <2> QED BY <1>2, <2>4 DEF Decide, TypeOK
<1>3. CASE PolicyMeta
  BY <1>3, NoDecisionType DEF PolicyMeta, TypeOK
<1>4. ASSUME NEW caller \in People, NEW p \in People, NEW to \in Changes, AskChange(caller, p, to)
      PROVE TypeOK'
  BY <1>4, SpendFacts DEF AskChange, TypeOK
<1>5. ASSUME NEW c \in [who : People, to : Changes], ChangeUser(c) PROVE TypeOK'
  BY <1>5 DEF ChangeUser, TypeOK
<1> QED BY <1>1, <1>2, <1>3, <1>4, <1>5

-----------------------------------------------------------------------------
(* Documents and versions.                                                 *)

Tables == CurrentHasDocument /\ HandlerStored /\ FromFiles(Files)

LEMMA AppendFacts ==
  ASSUME NEW S, NEW s \in Seq(S), NEW x \in S
  PROVE  /\ Len(Append(s, x)) = Len(s) + 1 /\ Len(s) \in Nat
         /\ DOMAIN s = 1..Len(s) /\ DOMAIN Append(s, x) = 1..(Len(s) + 1)
         /\ \A i \in 1..Len(s) : Append(s, x)[i] = s[i]
         /\ Append(s, x)[Len(s) + 1] = x
OBVIOUS

\* What a version that is stored does to the documents.
LEMMA InsertFacts ==
  ASSUME TypeOK, NEW t \in Appliers, InsertVersion(t), app[t].version > Len(versions[Name(t)])
  PROVE  /\ Name(t) \in Names /\ Goto(t, "update")
         /\ \A n \in Names : n # Name(t) => versions'[n] = versions[n]
         /\ Len(versions'[Name(t)]) = Len(versions[Name(t)]) + 1
         /\ \A n \in Names : DOMAIN versions[n] = 1..Len(versions[n])
                             /\ Len(versions[n]) \in Nat
         /\ DOMAIN versions'[Name(t)] = 1..(Len(versions[Name(t)]) + 1)
         /\ \A v \in DOMAIN versions[Name(t)] : versions'[Name(t)][v] = versions[Name(t)][v]
         /\ versions'[Name(t)][Len(versions[Name(t)]) + 1] = Stored(Parse(app[t].file))
<1>1. /\ app[t].file \in Files /\ Name(t) \in Names /\ app[t].version \in Nat
      /\ versions \in [Names -> Seq(Documents)]
  BY DEF TypeOK, Handlers, Name, Names
<1>2. PICK s \in Seq(Documents) : s = versions[Name(t)]
  BY <1>1
<1>3. PICK x \in Documents : x = Stored(Parse(app[t].file))
  BY <1>1, StoredType
<1>4. Goto(t, "update") /\ versions' = [versions EXCEPT ![Name(t)] = Append(s, x)]
  BY <1>1, <1>2, <1>3 DEF InsertVersion
<1>5. versions'[Name(t)] = Append(s, x) /\ \A n \in Names : n # Name(t) => versions'[n] = versions[n]
  BY <1>1, <1>4
<1>6. \A n \in Names : DOMAIN versions[n] = 1..Len(versions[n]) /\ Len(versions[n]) \in Nat
  BY <1>1
<1> QED BY <1>1, <1>2, <1>3, <1>4, <1>5, <1>6, AppendFacts

LEMMA TablesNext ==
  ASSUME TypeOK, TypeOK', Tables, [Next]_vars
  PROVE  Tables'
<1> USE DEF roleVars, networkVars, policyVars
<1>a. /\ app \in [Appliers -> Handlers] /\ app' \in [Appliers -> Handlers]
      /\ \A t \in Appliers : app[t].file \in Files /\ Name(t) \in Names /\ app[t].version \in Nat
      /\ \A n \in Names : Len(versions[n]) \in Nat /\ current[n] \in Nat
  BY DEF TypeOK, Handlers, Name, Names
<1>1. ASSUME UNCHANGED <<current, versions>>, NEW t \in Appliers,
             \A u \in Appliers : u # t => app'[u] = app[u],
             app'[t].pc \notin {"insert", "update"}
      PROVE Tables'
  BY <1>1 DEF Tables, CurrentHasDocument, HandlerStored, FromFiles, At, Name
<1>2. ASSUME NEW r \in Replicas, Bootstrap(r) \/ Crash(r) PROVE Tables'
  <2>1. r \in Appliers /\ UNCHANGED <<current, versions>>
    BY <1>2 DEF Bootstrap, Boot, GrantAdmin, Demote, CountNetworks, SeedNetwork, SeedRoutes,
                Serve, Crash, Appliers
  <2>2. PICK step \in {"admin", "demote", "count", "seed", "route", "nets", "down", "up"} :
          \/ \E todo : app' = [app EXCEPT ![r] = Handler(step, todo)]
          \/ app' = [app EXCEPT ![r].pc = step]
    BY <1>2 DEF Bootstrap, Boot, GrantAdmin, Demote, CountNetworks, SeedNetwork, SeedRoutes,
                Serve, Crash, Enter, Goto
  <2>3. app'[r].pc = step
    BY <1>a, <2>1, <2>2 DEF Handler, Handlers
  <2>4. \A u \in Appliers : u # r => app'[u] = app[u]
    BY <1>a, <2>1, <2>2
  <2> QED BY <1>1, <2>1, <2>2, <2>3, <2>4
<1>3. ASSUME NEW t \in Appliers, NextNetwork(t) \/ CreateNetwork(t) \/ AddItem(t) \/ NextFile(t)
                                   \/ AddRevision(t) \/ Fail(t)
      PROVE Tables'
  <2>1. UNCHANGED <<current, versions>>
    BY <1>3 DEF NextNetwork, CreateNetwork, AddItem, NextFile, AddRevision, Fail
  <2>2. /\ app'[t].pc \notin {"insert", "update"}
        /\ \A u \in Appliers : u # t => app'[u] = app[u]
    <3>1. CASE NextNetwork(t)
      BY <1>a, <3>1 DEF NextNetwork, NetworkHandler, Enter, Handler
    <3>2. CASE CreateNetwork(t)
      BY <1>a, <3>2 DEF CreateNetwork, End, Enter, Goto, Handler, Handlers
    <3>3. CASE AddItem(t)
      <4>1. CASE \E i \in app[t].left : app' = [app EXCEPT ![t].left = @ \ {i}]
        BY <1>a, <3>3, <4>1 DEF AddItem, Handlers, At
      <4>2. CASE Enter(t, "nets", app[t].todo)
        BY <1>a, <4>2 DEF Enter, Handler
      <4> QED BY <3>3, <4>1, <4>2 DEF AddItem
    <3>4. CASE NextFile(t)
      BY <1>a, <3>4 DEF NextFile, FileHandler, End, Enter, Handler
    <3>5. CASE AddRevision(t) \/ Fail(t)
      BY <1>a, <3>5 DEF AddRevision, Fail, End, Enter, Handler
    <3> QED BY <1>3, <3>1, <3>2, <3>3, <3>4, <3>5
  <2> QED BY <1>1, <2>1, <2>2
<1>4. ASSUME NEW t \in Appliers, ReadVersion(t) PROVE Tables'
  <2>1. app'[t] = FileHandler("insert", app[t].todo, app[t].file, Len(versions[Name(t)]) + 1)
    BY <1>4, <1>a DEF ReadVersion
  <2>2. app'[t].version = Len(versions[Name(t)]) + 1 /\ app'[t].file = app[t].file
        /\ app'[t].pc = "insert"
    BY <2>1, <1>a DEF FileHandler
  <2>3. \A u \in Appliers : u # t => app'[u] = app[u]
    BY <1>4, <1>a DEF ReadVersion
  <2>4. UNCHANGED <<current, versions>>
    BY <1>4 DEF ReadVersion
  <2> QED BY <1>a, <2>2, <2>3, <2>4 DEF Tables, CurrentHasDocument, HandlerStored, FromFiles, At, Name
<1>5. ASSUME NEW t \in Appliers, InsertVersion(t) PROVE Tables'
  <2>0. UNCHANGED current
    BY <1>5 DEF InsertVersion
  <2>1. CASE End(t) /\ UNCHANGED versions
    <3>1. app'[t].pc \notin {"insert", "update"}
      BY <1>a, <2>1 DEF End, Enter, Handler
    <3>2. \A u \in Appliers : u # t => app'[u] = app[u]
      BY <1>a, <2>1 DEF End, Enter
    <3> QED BY <1>1, <2>0, <2>1, <3>1, <3>2
  <2>2. CASE app[t].version > Len(versions[Name(t)])
    <3>1. Goto(t, "update")
      BY <1>5, <2>2, InsertFacts
    <3>2. \A n \in Names : Len(versions'[n]) \in Nat /\ Len(versions'[n]) >= Len(versions[n])
      BY <1>5, <1>a, <2>2, InsertFacts
    <3>3. CurrentHasDocument'
      BY <1>a, <2>0, <3>2 DEF Tables, CurrentHasDocument
    <3>4. HandlerStored'
      <4>1. \A u \in Appliers : u # t => app'[u] = app[u]
        BY <1>a, <3>1 DEF Goto
      <4>2. app'[t].pc = "update" /\ app'[t].file = app[t].file /\ app'[t].version = app[t].version
        BY <1>a, <3>1 DEF Goto, Handlers
      <4>3. app[t].version = Len(versions[Name(t)]) + 1
        BY <1>5, <1>a, <2>2 DEF InsertVersion, Tables, HandlerStored
      <4>4. app'[t].version \in 1..Len(versions'[Name(t)])
        BY <1>5, <1>a, <2>2, <4>2, <4>3, InsertFacts
      <4>5. ASSUME NEW u \in Appliers
            PROVE /\ At(u, "insert")' => app'[u].version \in 1..Len(versions'[app'[u].file.name]) + 1
                  /\ At(u, "update")' => app'[u].version \in 1..Len(versions'[app'[u].file.name])
        <5>1. CASE u = t
          BY <4>2, <4>4, <5>1 DEF At, Name
        <5>2. CASE u # t
          <6>1. /\ At(u, "insert") => app[u].version \in 1..Len(versions[Name(u)]) + 1
                /\ At(u, "update") => app[u].version \in 1..Len(versions[Name(u)])
            BY DEF Tables, HandlerStored
          <6>2. Name(u) \in Names /\ app'[u] = app[u]
            BY <1>a, <4>1, <5>2
          <6> QED BY <1>a, <3>2, <6>1, <6>2 DEF At, Name
        <5> QED BY <5>1, <5>2
      <4> QED BY <4>5 DEF HandlerStored, Name
    <3>5. FromFiles(Files)'
      <4> SUFFICES ASSUME NEW n \in Names, NEW v \in DOMAIN versions'[n]
                   PROVE \E y \in Files : y.name = n /\ versions'[n][v] = Stored(Parse(y))
        BY DEF FromFiles
      <4>1. CASE n # Name(t) \/ v \in DOMAIN versions[n]
        <5>1. v \in DOMAIN versions[n] /\ versions'[n][v] = versions[n][v]
          BY <1>5, <2>2, <4>1, InsertFacts
        <5> QED BY <5>1 DEF Tables, FromFiles
      <4>2. CASE n = Name(t) /\ v \notin DOMAIN versions[n]
        <5>1. v = Len(versions[n]) + 1
          BY <1>5, <2>2, <4>2, InsertFacts
        <5>2. versions'[n][v] = Stored(Parse(app[t].file))
          BY <1>5, <2>2, <4>2, <5>1, InsertFacts
        <5> QED BY <1>a, <4>2, <5>2 DEF Name
      <4> QED BY <4>1, <4>2
    <3> QED BY <3>3, <3>4, <3>5 DEF Tables
  <2> QED BY <1>5, <1>a, <2>1, <2>2 DEF InsertVersion
<1>6. ASSUME NEW t \in Appliers, UpdateCurrent(t) PROVE Tables'
  <2>1. /\ UNCHANGED versions /\ current' = [current EXCEPT ![Name(t)] = app[t].version]
        /\ app[t].version \in 1..Len(versions[Name(t)])
    BY <1>6 DEF UpdateCurrent, Tables, HandlerStored
  <2>2. CurrentHasDocument'
    BY <1>a, <2>1 DEF Tables, CurrentHasDocument, TypeOK
  <2>3. app'[t].pc \notin {"insert", "update"}
    BY <1>6, <1>a DEF UpdateCurrent, End, Enter, Goto, Handler, Handlers
  <2>4. \A u \in Appliers : u # t => app'[u] = app[u]
    BY <1>6, <1>a DEF UpdateCurrent, End, Enter, Goto
  <2> QED BY <2>1, <2>2, <2>3, <2>4 DEF Tables, HandlerStored, FromFiles, At, Name
<1>7. ASSUME NEW t \in Editors, ApplyGitOps(t) \/ \E y \in Edits : ApplyPolicy(t, y) PROVE Tables'
  <2>1. t \in Appliers /\ UNCHANGED <<current, versions>>
    BY <1>7 DEF ApplyGitOps, ApplyPolicy, Appliers
  <2>2. /\ app'[t].pc \notin {"insert", "update"}
        /\ \A u \in Appliers : u # t => app'[u] = app[u]
    BY <1>7, <1>a, <2>1 DEF ApplyGitOps, ApplyPolicy, Enter, Handler, FileHandler
  <2> QED BY <1>1, <2>1, <2>2
<1>8. CASE UNCHANGED <<current, versions, app>>
  BY <1>8 DEF Tables, CurrentHasDocument, HandlerStored, FromFiles, At, Name
<1>9. ASSUME \/ \E caller, p \in People, to \in Changes : AskChange(caller, p, to)
             \/ \E c \in [who : People, to : Changes] : ChangeUser(c)
             \/ (\E in \in Requests : Decide(in)) \/ PolicyMeta
      PROVE Tables'
  BY <1>8, <1>9 DEF AskChange, ChangeUser, Decide, PolicyMeta
<1> QED BY <1>2, <1>3, <1>4, <1>5, <1>6, <1>7, <1>8, <1>9 DEF Next, ApplyStep, vars

\* Only these statements write the tables.
LEMMA WhoWrites ==
  ASSUME [Next]_vars
  PROVE  /\ \/ UNCHANGED versions
            \/ \E t \in Appliers : InsertVersion(t) /\ ~(app[t].version <= Len(versions[Name(t)]))
         /\ UNCHANGED current \/ \E t \in Appliers : UpdateCurrent(t)
         /\ \/ UNCHANGED decision
            \/ \E in \in Requests : Decide(in)
            \/ PolicyMeta
<1> USE DEF roleVars, networkVars, policyVars
<1>1. ASSUME NEW r \in Replicas, Bootstrap(r) \/ Crash(r)
      PROVE UNCHANGED <<versions, current, decision>>
  BY <1>1 DEF Bootstrap, Boot, GrantAdmin, Demote, CountNetworks, SeedNetwork, SeedRoutes,
              Serve, Crash
<1>2. ASSUME NEW t \in Appliers, ApplyStep(t) \/ Fail(t)
      PROVE /\ UNCHANGED decision
            /\ UNCHANGED current \/ UpdateCurrent(t)
            /\ \/ UNCHANGED versions
               \/ InsertVersion(t) /\ ~(app[t].version <= Len(versions[Name(t)]))
  BY <1>2 DEF ApplyStep, NextNetwork, CreateNetwork, AddItem, NextFile, ReadVersion, InsertVersion,
              UpdateCurrent, AddRevision, Fail
<1>3. ASSUME NEW t \in Editors, ApplyGitOps(t) \/ \E y \in Edits : ApplyPolicy(t, y)
      PROVE UNCHANGED <<versions, current, decision>>
  BY <1>3 DEF ApplyGitOps, ApplyPolicy
<1>4. ASSUME (\E in \in Requests : Decide(in)) \/ PolicyMeta
      PROVE UNCHANGED <<versions, current>>
  BY <1>4 DEF Decide, PolicyMeta
<1>5. ASSUME \/ \E caller, p \in People, to \in Changes : AskChange(caller, p, to)
             \/ \E c \in [who : People, to : Changes] : ChangeUser(c)
      PROVE UNCHANGED <<versions, current, decision>>
  BY <1>5 DEF AskChange, ChangeUser
<1>6. CASE UNCHANGED vars
  BY <1>6 DEF vars
<1> QED BY <1>1, <1>2, <1>3, <1>4, <1>5, <1>6 DEF Next

\* A document is never overwritten, and a policy that has a current version keeps one.
LEMMA DocumentsKept ==
  ASSUME TypeOK, Tables, [Next]_vars
  PROVE  \A n \in Names :
           /\ \A v \in DOMAIN versions[n] : v \in DOMAIN versions'[n] /\ versions'[n][v] = versions[n][v]
           /\ current[n] >= 1 => current'[n] >= 1
<1>a. /\ \A t \in Appliers : Name(t) \in Names /\ app[t].version \in Nat
      /\ \A n \in Names : Len(versions[n]) \in Nat /\ current[n] \in Nat
  BY DEF TypeOK, Handlers, Name, Names
<1>1. ASSUME NEW n \in Names, NEW v \in DOMAIN versions[n]
      PROVE v \in DOMAIN versions'[n] /\ versions'[n][v] = versions[n][v]
  <2>1. CASE UNCHANGED versions
    BY <2>1
  <2>2. ASSUME NEW t \in Appliers, InsertVersion(t), ~(app[t].version <= Len(versions[Name(t)]))
        PROVE v \in DOMAIN versions'[n] /\ versions'[n][v] = versions[n][v]
    <3>1. app[t].version > Len(versions[Name(t)])
      BY <1>a, <2>2
    <3>2. CASE n = Name(t)
      BY <2>2, <3>1, <3>2, InsertFacts
    <3>3. CASE n # Name(t)
      BY <2>2, <3>1, <3>3, InsertFacts
    <3> QED BY <3>2, <3>3
  <2> QED BY <2>1, <2>2, WhoWrites
<1>2. ASSUME NEW n \in Names, current[n] >= 1 PROVE current'[n] >= 1
  <2>1. ASSUME NEW t \in Appliers, UpdateCurrent(t) PROVE current'[n] >= 1
    <3>1. app[t].version \in 1..Len(versions[Name(t)])
      BY <2>1 DEF UpdateCurrent, Tables, HandlerStored
    <3>2. current' = [current EXCEPT ![Name(t)] = app[t].version] /\ current \in [Names -> Nat]
      BY <2>1 DEF UpdateCurrent, TypeOK
    <3> QED BY <1>2, <1>a, <3>1, <3>2
  <2> QED BY <1>2, <2>1, WhoWrites
<1> QED BY <1>1, <1>2

LEMMA InForceIff ==
  ASSUME TypeOK, CurrentHasDocument
  PROVE  \A n \in Names : InForce(n) <=> current[n] >= 1
<1>1. \A n \in Names : /\ DOMAIN versions[n] = 1..Len(versions[n]) /\ Len(versions[n]) \in Nat
                       /\ current[n] \in Nat
  BY DEF TypeOK
<1> QED BY <1>1 DEF CurrentHasDocument, InForce

-----------------------------------------------------------------------------
(* The invariant behind the theorems about tables.                         *)

TableInv == TypeOK /\ Tables /\ ListedGranted /\ DecisionExplained

LEMMA GrantedNext ==
  ASSUME TypeOK, TypeOK', ListedGranted, [Next]_vars
  PROVE  ListedGranted'
<1> USE DEF roleVars, networkVars, policyVars
<1>a. app \in [Appliers -> Handlers] /\ app' \in [Appliers -> Handlers] /\ Replicas \subseteq Appliers
  BY DEF TypeOK, Appliers
<1>1. ASSUME NEW r \in Replicas, Boot(r) PROVE ListedGranted'
  <2>1. app'[r] = Handler(IF Emails = {} THEN "count" ELSE "admin", Emails) /\ \A u \in Replicas : u # r => app'[u] = app[u]
    BY <1>1, <1>a DEF Boot, Enter
  <2>2. UNCHANGED <<admins, changed>>
    BY <1>1 DEF Boot
  <2>3. /\ app'[r].pc = IF Emails = {} THEN "count" ELSE "admin"
        /\ app'[r].todo = Emails
    BY <2>1 DEF Handler
  <2> QED BY <2>1, <2>2, <2>3 DEF ListedGranted, At
<1>2. ASSUME NEW r \in Replicas, GrantAdmin(r) PROVE ListedGranted'
  <2>1. PICK e \in Emails :
          /\ e \in app[r].todo
          /\ admins' = admins \union {e} /\ changed' = changed \ {e}
          /\ Enter(r, IF app[r].todo \ {e} = {} THEN "demote" ELSE "admin", app[r].todo \ {e})
    BY <1>2 DEF GrantAdmin
  <2>2. /\ app'[r] = Handler(IF app[r].todo \ {e} = {} THEN "demote" ELSE "admin", app[r].todo \ {e})
        /\ \A u \in Replicas : u # r => app'[u] = app[u]
    BY <2>1, <1>a DEF Enter
  <2>3. Emails \ app[r].todo \subseteq admins \union changed
    BY <1>2 DEF GrantAdmin, ListedGranted
  <2>4. admins \union changed \subseteq admins' \union changed' /\ e \in admins'
    BY <2>1
  <2>5. \A u \in Replicas : u # r =>
          /\ app'[u].pc = "admin" => Emails \ app'[u].todo \subseteq admins' \union changed'
          /\ app'[u].pc = "demote" => Emails \subseteq admins' \union changed'
          /\ app'[u].pc \notin {"down", "admin", "demote"} /\ Emails # {} =>
               Emails \subseteq admins' \union changed' /\ admins' \subseteq Emails \union changed'
    BY <2>1, <2>2, <2>4 DEF ListedGranted, At
  <2>6. CASE app[r].todo \ {e} = {}
    <3>1. app'[r].pc = "demote" /\ Emails \subseteq admins' \union changed'
      BY <2>2, <2>3, <2>4, <2>6 DEF Handler
    <3> QED BY <2>5, <3>1 DEF ListedGranted, At
  <2>7. CASE app[r].todo \ {e} # {}
    <3>1. app'[r].pc = "admin" /\ app'[r].todo = app[r].todo \ {e}
      BY <2>2, <2>7 DEF Handler
    <3>2. Emails \ app'[r].todo \subseteq admins' \union changed'
      BY <2>3, <2>4, <3>1
    <3> QED BY <2>5, <3>1, <3>2 DEF ListedGranted, At
  <2> QED BY <2>6, <2>7
<1>3. ASSUME NEW r \in Replicas, Demote(r) PROVE ListedGranted'
  <2>1. /\ admins' = admins \intersect Emails /\ changed' = changed \intersect Emails
        /\ Emails \subseteq admins \union changed
    BY <1>3 DEF Demote, ListedGranted
  <2>2. app'[r].pc = "count" /\ \A u \in Replicas : u # r => app'[u] = app[u]
    BY <1>3, <1>a DEF Demote, Goto, Handlers
  <2>3. Emails \subseteq admins' \union changed' /\ admins' \subseteq Emails \union changed'
    BY <2>1
  <2> QED BY <2>2, <2>3 DEF ListedGranted, At
<1>4. ASSUME UNCHANGED <<admins, changed>>, NEW t \in Appliers,
             \/ t \notin Replicas
             \/ app'[t].pc = "down"
             \/ {app[t].pc, app'[t].pc} \intersect {"down", "admin", "demote"} = {},
             \A u \in Appliers : u # t => app'[u] = app[u]
      PROVE ListedGranted'
  BY <1>4, <1>a DEF ListedGranted, At
<1>5. ASSUME NEW r \in Replicas, CountNetworks(r) \/ SeedNetwork(r) \/ SeedRoutes(r) \/ Serve(r) \/ Crash(r)
      PROVE ListedGranted'
  <2>1. UNCHANGED <<admins, changed>> /\ r \in Appliers
    BY <1>5, <1>a DEF CountNetworks, SeedNetwork, SeedRoutes, Serve, Crash
  <2>2. PICK step \in {"count", "seed", "route", "nets", "down", "up"} :
          /\ \/ \E todo : app' = [app EXCEPT ![r] = Handler(step, todo)]
             \/ app' = [app EXCEPT ![r].pc = step]
          /\ step = "down" \/ app[r].pc \in {"count", "seed", "route", "audit"}
    BY <1>5 DEF CountNetworks, SeedNetwork, SeedRoutes, Serve, Crash, Enter, Goto, At
  <2>3. app'[r].pc = step /\ \A u \in Appliers : u # r => app'[u] = app[u]
    BY <1>a, <2>1, <2>2 DEF Handler, Handlers
  <2> QED BY <1>4, <2>1, <2>2, <2>3
<1>6. ASSUME NEW t \in Appliers, ApplyStep(t) \/ Fail(t) PROVE ListedGranted'
  <2>1. UNCHANGED <<admins, changed>>
    BY <1>6 DEF ApplyStep, NextNetwork, CreateNetwork, AddItem, NextFile, ReadVersion,
                InsertVersion, UpdateCurrent, AddRevision, Fail
  <2>2. /\ app'[t].pc \notin {"down", "admin", "demote"}
        /\ \A u \in Appliers : u # t => app'[u] = app[u]
    <3>1. CASE NextNetwork(t)
      BY <1>a, <3>1 DEF NextNetwork, NetworkHandler, Enter, Handler
    <3>2. CASE CreateNetwork(t)
      BY <1>a, <3>2 DEF CreateNetwork, End, Enter, Goto, Handler, Handlers
    <3>3. CASE AddItem(t)
      <4>1. CASE \E i \in app[t].left : app' = [app EXCEPT ![t].left = @ \ {i}]
        BY <1>a, <3>3, <4>1 DEF AddItem, Handlers, At
      <4>2. CASE Enter(t, "nets", app[t].todo)
        BY <1>a, <4>2 DEF Enter, Handler
      <4> QED BY <3>3, <4>1, <4>2 DEF AddItem
    <3>4. CASE NextFile(t)
      BY <1>a, <3>4 DEF NextFile, FileHandler, End, Enter, Handler
    <3>5. CASE ReadVersion(t)
      BY <1>a, <3>5 DEF ReadVersion, FileHandler
    <3>6. CASE InsertVersion(t)
      BY <1>a, <3>6 DEF InsertVersion, End, Enter, Goto, Handler, Handlers
    <3>7. CASE UpdateCurrent(t)
      BY <1>a, <3>7 DEF UpdateCurrent, End, Enter, Goto, Handler, Handlers
    <3>8. CASE AddRevision(t) \/ Fail(t)
      BY <1>a, <3>8 DEF AddRevision, Fail, End, Enter, Handler
    <3> QED BY <1>6, <3>1, <3>2, <3>3, <3>4, <3>5, <3>6, <3>7, <3>8 DEF ApplyStep
  <2>3. app[t].pc \in Applying
    BY <1>6 DEF ApplyStep, NextNetwork, CreateNetwork, AddItem, NextFile, ReadVersion,
                InsertVersion, UpdateCurrent, AddRevision, Fail, At, Applying
  <2> QED BY <1>4, <2>1, <2>2, <2>3 DEF Applying
<1>7. ASSUME NEW t \in Editors, ApplyGitOps(t) \/ \E y \in Edits : ApplyPolicy(t, y)
      PROVE ListedGranted'
  <2>1. t \in Appliers /\ t \notin Replicas /\ UNCHANGED <<admins, changed>>
    BY <1>7, DirectoryAssumption DEF ApplyGitOps, ApplyPolicy, Appliers
  <2>2. \A u \in Appliers : u # t => app'[u] = app[u]
    BY <1>7, <1>a, <2>1 DEF ApplyGitOps, ApplyPolicy, Enter
  <2> QED BY <1>4, <2>1, <2>2
<1>8. ASSUME NEW c \in [who : People, to : Changes], ChangeUser(c) PROVE ListedGranted'
  <2>1. /\ UNCHANGED app
        /\ admins \union changed \subseteq admins' \union changed'
        /\ changed \subseteq changed' /\ admins' \subseteq admins \union changed'
    BY <1>8 DEF ChangeUser, Changes
  <2> QED BY <2>1 DEF ListedGranted, At
<1>9. CASE UNCHANGED <<admins, changed, app>>
  BY <1>9 DEF ListedGranted, At
<1>10. ASSUME \/ \E caller, p \in People, to \in Changes : AskChange(caller, p, to)
              \/ (\E in \in Requests : Decide(in)) \/ PolicyMeta \/ UNCHANGED vars
       PROVE UNCHANGED <<admins, changed, app>>
  BY <1>10 DEF AskChange, Decide, PolicyMeta, vars
<1> QED BY <1>1, <1>2, <1>3, <1>5, <1>6, <1>7, <1>8, <1>9, <1>10 DEF Next, Bootstrap

LEMMA DecisionNext ==
  ASSUME TypeOK, Tables, DecisionExplained, [Next]_vars
  PROVE  DecisionExplained'
<1>1. ASSUME NEW in \in Requests, Decide(in) PROVE DecisionExplained'
  <2>0. UNCHANGED versions
    BY <1>1 DEF Decide, policyVars
  <2>1. PICK o \in Orders({n \in Names : InForce(n)}) :
          \/ \E i \in DOMAIN o :
               /\ Applies(DocumentOf(o[i]), in)
               /\ decision' = [pc |-> "meta", in |-> in, name |-> o[i],
                               allow |-> Allows(DocumentOf(o[i]), in),
                               duration |-> DocumentOf(o[i]).duration]
          \/ decision' = NoDecision
    BY <1>1 DEF Decide, FirstMatch
  <2>2. CASE decision' = NoDecision
    BY <2>2 DEF DecisionExplained, NoDecision
  <2>3. ASSUME NEW i \in DOMAIN o,
               Applies(DocumentOf(o[i]), in),
               decision' = [pc |-> "meta", in |-> in, name |-> o[i],
                            allow |-> Allows(DocumentOf(o[i]), in),
                            duration |-> DocumentOf(o[i]).duration]
        PROVE DecisionExplained'
    <3>1. o[i] \in Names /\ current[o[i]] \in DOMAIN versions[o[i]]
      BY DEF Orders, InForce
    <3>2. PICK y \in Files : y.name = o[i] /\ versions[o[i]][current[o[i]]] = Stored(Parse(y))
      BY <3>1 DEF Tables, FromFiles
    <3>3. DocumentOf(o[i]) = Parse(y) /\ Parse(y).duration = Seconds(y.duration)
      BY <3>2, LoadedStored DEF DocumentOf, Parse
    <3>4. /\ decision'.in = in /\ decision'.name = y.name
          /\ decision'.allow = Allows(Parse(y), in) /\ decision'.duration = Seconds(y.duration)
      BY <2>3, <3>2, <3>3
    <3> QED BY <2>0, <2>3, <3>1, <3>2, <3>3, <3>4 DEF DecisionExplained
  <2> QED BY <2>1, <2>2, <2>3
<1>2. CASE PolicyMeta
  BY <1>2 DEF PolicyMeta, DecisionExplained, NoDecision
<1>3. CASE UNCHANGED decision
  <2> SUFFICES ASSUME decision.pc # "idle" PROVE DecisionExplained'
    BY <1>3 DEF DecisionExplained
  <2>1. PICK y \in Files :
          /\ y.name = decision.name
          /\ \E v \in DOMAIN versions[y.name] : versions[y.name][v] = Stored(Parse(y))
          /\ Applies(Parse(y), decision.in)
          /\ decision.allow = Allows(Parse(y), decision.in)
          /\ decision.duration = Seconds(y.duration)
    BY DEF DecisionExplained
  <2>2. \E v \in DOMAIN versions'[y.name] : versions'[y.name][v] = Stored(Parse(y))
    BY <2>1, DocumentsKept DEF Names
  <2> QED BY <1>3, <2>1, <2>2 DEF DecisionExplained
<1> QED BY <1>1, <1>2, <1>3, WhoWrites

LEMMA TableInvariant == Spec => []TableInv
<1>1. Init => TableInv
  <2> SUFFICES ASSUME Init PROVE TableInv
    OBVIOUS
  <2>1. TypeOK
    BY TypeInit
  <2>2. Tables
    BY DEF Init, Tables, CurrentHasDocument, HandlerStored, FromFiles, At, Handler
  <2>3. ListedGranted
    BY DEF Init, ListedGranted, At, Handler, Appliers
  <2>4. DecisionExplained
    BY DEF Init, DecisionExplained, NoDecision
  <2> QED BY <2>1, <2>2, <2>3, <2>4 DEF TableInv
<1>2. TableInv /\ [Next]_vars => TableInv'
  <2> SUFFICES ASSUME TableInv, [Next]_vars PROVE TableInv'
    OBVIOUS
  <2>1. TypeOK'
    <3>1. CASE UNCHANGED vars
      BY <3>1 DEF vars, roleVars, networkVars, policyVars, TableInv, TypeOK
    <3>2. CASE Next
      BY <3>2, TypeBootstrap, TypeApply, TypeRequest DEF Next, TableInv, Tables
    <3> QED BY <3>1, <3>2
  <2>2. Tables'
    BY <2>1, TablesNext DEF TableInv
  <2>3. ListedGranted'
    BY <2>1, GrantedNext DEF TableInv
  <2>4. DecisionExplained'
    BY DecisionNext DEF TableInv
  <2> QED BY <2>1, <2>2, <2>3, <2>4 DEF TableInv
<1> QED BY <1>1, <1>2, PTL DEF Spec
-----------------------------------------------------------------------------
(* How the application of the directory gets on.                           *)

\* What is applied stays applied.
LEMMA AppliedStays ==
  ASSUME TableInv, TableInv', [Next]_vars
  PROVE  /\ networks \subseteq networks'
         /\ \A n \in NetworkNames : items[n] \subseteq items'[n]
         /\ \A n \in Networks : NetworkApplied(n) => NetworkApplied(n)'
         /\ \A n \in Names : InForce(n) => InForce(n)'
<1> USE DEF roleVars, networkVars, policyVars
<1>1. networks \subseteq networks' /\ \A n \in NetworkNames : items[n] \subseteq items'[n]
  <2>t. items \in [NetworkNames -> SUBSET AllItems] /\ Seed \in NetworkNames
        /\ \A t \in Appliers : app[t].net \in NetworkNames
    BY SomeFileType DEF TableInv, TypeOK, Handlers
  <2>1. ASSUME NEW r \in Replicas, SeedNetwork(r) \/ SeedRoutes(r)
        PROVE networks \subseteq networks' /\ \A n \in NetworkNames : items[n] \subseteq items'[n]
    BY <2>1, <2>t DEF SeedNetwork, SeedRoutes
  <2>2. ASSUME NEW t \in Appliers, CreateNetwork(t) \/ AddItem(t)
        PROVE networks \subseteq networks' /\ \A n \in NetworkNames : items[n] \subseteq items'[n]
    BY <2>2, <2>t DEF CreateNetwork, AddItem
  <2>3. CASE UNCHANGED <<networks, items>>
    BY <2>3
  <2>4. \/ UNCHANGED <<networks, items>>
        \/ \E r \in Replicas : SeedNetwork(r) \/ SeedRoutes(r)
        \/ \E t \in Appliers : CreateNetwork(t) \/ AddItem(t)
    BY DEF Next, vars, Bootstrap, Boot, GrantAdmin, Demote, CountNetworks, Serve, Crash, ApplyStep,
           NextNetwork, NextFile, ReadVersion, InsertVersion, UpdateCurrent, AddRevision, Fail,
           ApplyGitOps, ApplyPolicy, AskChange, ChangeUser, Decide, PolicyMeta
  <2> QED BY <2>1, <2>2, <2>3, <2>4
<1>2. \A n \in Networks : NetworkApplied(n) => NetworkApplied(n)'
  BY <1>1 DEF NetworkApplied, NetworkNames
<1>3. ASSUME NEW n \in Names, InForce(n) PROVE InForce(n)'
  <2>1. current[n] >= 1
    BY <1>3, InForceIff DEF TableInv, Tables
  <2>2. current'[n] >= 1
    BY <2>1, DocumentsKept DEF TableInv
  <2>3. /\ current'[n] \in Nat /\ current'[n] <= Len(versions'[n])
        /\ DOMAIN versions'[n] = 1..Len(versions'[n]) /\ Len(versions'[n]) \in Nat
    BY DEF TableInv, Tables, CurrentHasDocument, TypeOK
  <2> QED BY <2>2, <2>3 DEF InForce
<1> QED BY <1>1, <1>2, <1>3

FromDirectory(t) ==
  /\ app[t].pc \in Replacing => app[t].file \in Policies /\ Name(t) \in app[t].todo
  /\ t \in Editors => At(t, "idle")

\* A step of t: the others keep what they know, and t owes only its own part.
LEMMA OneSteps ==
  ASSUME TableInv, TableInv', [Next]_vars, Progress, NEW t \in Appliers,
         \A u \in Appliers : u # t => app'[u] = app[u],
         NetworksBehind(t)',
         faults'.edit = 0 =>
           faults.edit = 0 /\ FilesBehind(t)' /\ FromDirectory(t)' /\ FromFiles(Policies)',
         faults'.edit = 0 /\ faults'.error = 0 =>
           faults.error = 0 /\ (Fresh(t)' \/ AllBehind \/ (~Fresh(t) /\ UNCHANGED <<networks, versions>>))
  PROVE  Progress'
<1>a. Policies \subseteq Files /\ \A y \in Policies : y.name \in Names
  BY DEF Files, Names
<1>b. \A u \in Appliers : Name(u) \in Names /\ app[u].net \in NetworkNames
  BY DEF TableInv, TypeOK, Handlers, Name, Names
<1>1. ASSUME NEW u \in Appliers PROVE NetworksBehind(u)'
  <2>1. CASE u = t
    BY <2>1
  <2>2. CASE u # t
    <3>1. NetworksBehind(u) /\ app'[u] = app[u]
      BY <2>2 DEF Progress
    <3> QED BY <1>b, <3>1, AppliedStays DEF NetworksBehind, At
  <2> QED BY <2>1, <2>2
<1>2. ASSUME faults'.edit = 0 PROVE OnlyDirectory' /\ \A u \in Appliers : FilesBehind(u)'
  <2>1. ASSUME NEW u \in Appliers, u # t PROVE FilesBehind(u)' /\ FromDirectory(u)'
    <3>1. FilesBehind(u) /\ FromDirectory(u) /\ app'[u] = app[u]
      BY <1>2, <2>1 DEF Progress, OnlyDirectory, FromDirectory
    <3>2. FilesBehind(u)'
      BY <1>a, <1>b, <3>1, AppliedStays DEF FilesBehind, At, Name
    <3> QED BY <3>1, <3>2 DEF FromDirectory, At, Name
  <2>2. \A u \in Appliers : FilesBehind(u)' /\ FromDirectory(u)'
    BY <1>2, <2>1
  <2>3. OnlyDirectory'
    BY <1>2, <2>2 DEF OnlyDirectory, FromDirectory, Appliers
  <2> QED BY <2>2, <2>3
<1>3. ASSUME faults'.edit = 0, faults'.error = 0 PROVE SomeoneFinishes'
  <2>1. CASE AllBehind
    BY <1>a, <2>1, AppliedStays DEF AllBehind, SomeoneFinishes
  <2>2. CASE Fresh(t)'
    <3>1. t \in Replicas
      BY <1>3, <2>2 DEF FromDirectory, Fresh, At, Appliers
    <3> QED BY <2>2, <3>1 DEF SomeoneFinishes
  <2>3. CASE ~AllBehind /\ ~Fresh(t) /\ UNCHANGED <<networks, versions>>
    <3>1. PICK r \in Replicas : Fresh(r)
      BY <1>3, <2>3 DEF Progress, SomeoneFinishes
    <3>2. r # t /\ r \in Appliers
      BY <2>3, <3>1 DEF Appliers
    <3>3. Fresh(r)'
      BY <2>3, <3>1, <3>2 DEF Fresh, At, Name
    <3> QED BY <3>3 DEF SomeoneFinishes
  <2> QED BY <1>3, <2>1, <2>2, <2>3
<1> QED BY <1>1, <1>2, <1>3 DEF Progress

\* A handler outside the loops owes nothing; a replica outside an end is fresh.
LEMMA Outside ==
  ASSUME TypeOK', NEW t \in Appliers, app'[t].pc \notin Applying
  PROVE  /\ NetworksBehind(t)' /\ FilesBehind(t)'
         /\ (t \in Editors => app'[t].pc = "idle") => FromDirectory(t)'
         /\ app'[t].pc \notin {"idle", "audit", "up"} => Fresh(t)'
BY DEF Applying, NetworksBehind, FilesBehind, FromDirectory, Fresh, Replacing, At

\* A handler that starts with all the networks before it.
LEMMA AllAhead ==
  ASSUME NEW t \in Appliers, app'[t].pc = "nets", app'[t].todo = Networks
  PROVE  /\ NetworksBehind(t)' /\ FilesBehind(t)' /\ Fresh(t)'
         /\ t \notin Editors => FromDirectory(t)'
BY DEF NetworksBehind, FilesBehind, FromDirectory, Fresh, Replacing, At

LEMMA ProgressBootstrap ==
  ASSUME TableInv, TableInv', [Next]_vars, Progress, NEW r \in Replicas, Bootstrap(r) \/ Crash(r)
  PROVE  Progress'
<1> USE DEF roleVars, networkVars, policyVars
<1>a. /\ r \in Appliers /\ r \notin Editors
      /\ app \in [Appliers -> Handlers] /\ TypeOK'
      /\ faults \in [crash : Nat, error : Nat, edit : Nat, role : Nat]
  BY DirectoryAssumption DEF TableInv, TypeOK, Appliers
<1>b. /\ \A u \in Appliers : u # r => app'[u] = app[u]
      /\ \/ app'[r].pc \in {"admin", "demote", "count", "seed", "route", "down"}
         \/ app'[r].pc = "nets" /\ app'[r].todo = Networks
         \/ At(r, "audit") /\ app'[r].pc = "up" /\ UNCHANGED <<networks, versions>>
  <2>1. CASE Boot(r) \/ Crash(r)
    BY <1>a, <2>1 DEF Boot, Crash, Enter, Handler
  <2>2. CASE GrantAdmin(r)
    BY <1>a, <2>2 DEF GrantAdmin, Enter, Handler
  <2>3. CASE Demote(r) \/ Serve(r)
    BY <1>a, <2>3 DEF Demote, Serve, Goto, Handlers
  <2>4. CASE CountNetworks(r)
    BY <1>a, <2>4 DEF CountNetworks, Goto, Enter, Handler, Handlers
  <2>5. CASE SeedNetwork(r)
    BY <1>a, <2>5 DEF SeedNetwork, Goto, Enter, Handler, Handlers
  <2>6. CASE SeedRoutes(r)
    BY <1>a, <2>6 DEF SeedRoutes, Enter, Handler
  <2> QED BY <2>1, <2>2, <2>3, <2>4, <2>5, <2>6 DEF Bootstrap
<1>c. /\ faults'.edit = 0 => faults.edit = 0
      /\ faults'.error = 0 => faults.error = 0
      /\ UNCHANGED versions
  <2>1. CASE Crash(r)
    BY <1>a, <2>1, SpendFacts DEF Crash
  <2>2. CASE Bootstrap(r)
    BY <2>2 DEF Bootstrap, Boot, GrantAdmin, Demote, CountNetworks, SeedNetwork, SeedRoutes, Serve
  <2> QED BY <2>1, <2>2
<1>d. faults'.edit = 0 => FromFiles(Policies)'
  BY <1>c DEF Progress, OnlyDirectory, FromFiles
<1>1. CASE app'[r].pc \in {"admin", "demote", "count", "seed", "route", "down"}
  <2>1. app'[r].pc \notin Applying /\ app'[r].pc \notin {"idle", "audit", "up"}
    BY <1>1 DEF Applying
  <2>2. NetworksBehind(r)' /\ FilesBehind(r)' /\ FromDirectory(r)' /\ Fresh(r)'
    BY <1>a, <2>1, Outside
  <2> QED BY <1>a, <1>b, <1>c, <1>d, <2>2, OneSteps
<1>2. CASE app'[r].pc = "nets" /\ app'[r].todo = Networks
  <2>1. NetworksBehind(r)' /\ FilesBehind(r)' /\ FromDirectory(r)' /\ Fresh(r)'
    BY <1>a, <1>2, AllAhead
  <2> QED BY <1>a, <1>b, <1>c, <1>d, <2>1, OneSteps
<1>3. CASE At(r, "audit") /\ app'[r].pc = "up" /\ UNCHANGED <<networks, versions>>
  <2>1. app'[r].pc \notin Applying
    BY <1>3 DEF Applying
  <2>2. NetworksBehind(r)' /\ FilesBehind(r)' /\ FromDirectory(r)'
    BY <1>a, <2>1, Outside
  <2>3. ~Fresh(r)
    BY <1>3 DEF Fresh, At
  <2> QED BY <1>a, <1>b, <1>c, <1>d, <1>3, <2>2, <2>3, OneSteps
<1> QED BY <1>b, <1>1, <1>2, <1>3

\* An application that ends owes nothing any more.
LEMMA Ended ==
  ASSUME TypeOK, TypeOK', NEW t \in Appliers, End(t)
  PROVE  NetworksBehind(t)' /\ FilesBehind(t)' /\ FromDirectory(t)'
<1>1. app'[t].pc = IF t \in Replicas THEN "audit" ELSE "idle"
  BY EndFacts DEF TypeOK, Handler
<1>2. app'[t].pc \notin Applying /\ (t \in Editors => app'[t].pc = "idle")
  BY <1>1, DirectoryAssumption DEF Applying
<1> QED BY <1>2, Outside

LEMMA ProgressNetworks ==
  ASSUME TableInv, TableInv', [Next]_vars, Progress, NEW t \in Appliers,
         NextNetwork(t) \/ CreateNetwork(t) \/ AddItem(t)
  PROVE  Progress'
<1> USE DEF roleVars, networkVars, policyVars
<1>a. /\ app \in [Appliers -> Handlers] /\ app[t] \in Handlers /\ TypeOK /\ TypeOK'
      /\ NetworksBehind(t) /\ items \in [NetworkNames -> SUBSET AllItems]
      /\ app[t].net \in NetworkNames /\ Networks \subseteq NetworkNames
  BY DEF TableInv, TypeOK, Progress, Handlers, NetworkNames
<1>b. UNCHANGED <<versions, faults>>
  BY DEF NextNetwork, CreateNetwork, AddItem
<1>c. faults'.edit = 0 => /\ faults.edit = 0 /\ FromFiles(Policies)' /\ t \notin Editors
  BY <1>b DEF Progress, OnlyDirectory, FromFiles, NextNetwork, CreateNetwork, AddItem, At
<1>d. ASSUME app'[t].pc \in {"nets", "create", "items"}
      PROVE FilesBehind(t)' /\ (t \notin Editors => FromDirectory(t)')
  BY <1>d DEF FilesBehind, FromDirectory, Replacing, At
<1>1. CASE NextNetwork(t)
  <2>0. At(t, "nets") /\ UNCHANGED <<networks, items>>
    BY <1>1 DEF NextNetwork
  <2>1. ASSUME NEW n \in Networks, n \in app[t].todo,
               app' = [app EXCEPT ![t] =
                 NetworkHandler(IF n \in networks THEN "items" ELSE "create", app[t].todo \ {n}, n)]
        PROVE Progress'
    <3>1. /\ app'[t].pc = IF n \in networks THEN "items" ELSE "create"
          /\ app'[t].todo = app[t].todo \ {n} /\ app'[t].net = n /\ app'[t].left = Items[n]
          /\ \A u \in Appliers : u # t => app'[u] = app[u]
      BY <1>a, <2>1 DEF NetworkHandler
    <3>2. NetworksBehind(t)'
      BY <1>a, <2>0, <3>1 DEF NetworksBehind, NetworkApplied, At
    <3>3. Fresh(t)'
      BY <2>0, <3>1 DEF Fresh, At
    <3> QED BY <1>b, <1>c, <1>d, <3>1, <3>2, <3>3, OneSteps
  <2>2. ASSUME app[t].todo = {}, Enter(t, "files", PolicyFiles) PROVE Progress'
    <3>1. /\ app'[t].pc = "files" /\ app'[t].todo = PolicyFiles
          /\ \A u \in Appliers : u # t => app'[u] = app[u]
      BY <1>a, <2>2 DEF Enter, Handler
    <3>2. \A n \in Networks : NetworkApplied(n)
      BY <1>a, <2>0, <2>2 DEF NetworksBehind, At
    <3>3. NetworksBehind(t)' /\ Fresh(t)' /\ (t \notin Editors => FromDirectory(t)')
      BY <3>1 DEF NetworksBehind, Fresh, FromDirectory, Replacing, At
    <3>4. FilesBehind(t)'
      BY <2>0, <3>1, <3>2 DEF FilesBehind, NetworkApplied, PolicyFiles, At
    <3> QED BY <1>b, <1>c, <3>1, <3>3, <3>4, OneSteps
  <2> QED BY <1>1, <2>1, <2>2 DEF NextNetwork
<1>2. CASE CreateNetwork(t)
  <2>1. CASE app[t].net \in networks
    <3>1. End(t) /\ UNCHANGED networks /\ ~Fresh(t)
      BY <1>2, <2>1 DEF CreateNetwork, Fresh
    <3>2. \A u \in Appliers : u # t => app'[u] = app[u]
      BY <1>a, <3>1, EndFacts
    <3>3. NetworksBehind(t)' /\ FilesBehind(t)' /\ FromDirectory(t)'
      BY <1>a, <3>1, Ended
    <3> QED BY <1>b, <1>c, <3>1, <3>2, <3>3, OneSteps
  <2>2. CASE app[t].net \notin networks
    <3>0. networks' = networks \union {app[t].net} /\ Goto(t, "items") /\ UNCHANGED items /\ At(t, "create")
      BY <1>2, <2>2 DEF CreateNetwork
    <3>1. /\ app'[t].pc = "items" /\ app'[t].todo = app[t].todo
          /\ app'[t].net = app[t].net /\ app'[t].left = app[t].left
          /\ \A u \in Appliers : u # t => app'[u] = app[u]
      BY <1>a, <3>0 DEF Goto, Handlers
    <3>2. NetworksBehind(t)'
      BY <1>a, <3>0, <3>1 DEF NetworksBehind, NetworkApplied, At
    <3>3. Fresh(t)'
      BY <3>1 DEF Fresh, At
    <3> QED BY <1>b, <1>c, <1>d, <3>1, <3>2, <3>3, OneSteps
  <2> QED BY <2>1, <2>2
<1>3. CASE AddItem(t)
  <2>0. At(t, "items") /\ UNCHANGED networks
    BY <1>3 DEF AddItem
  <2>1. ASSUME NEW i \in app[t].left,
               items' = [items EXCEPT ![app[t].net] = @ \union {i}],
               app' = [app EXCEPT ![t].left = @ \ {i}]
        PROVE Progress'
    <3>1. /\ app'[t].pc = "items" /\ app'[t].todo = app[t].todo
          /\ app'[t].net = app[t].net /\ app'[t].left = app[t].left \ {i}
          /\ \A u \in Appliers : u # t => app'[u] = app[u]
      BY <1>a, <2>0, <2>1 DEF Handlers, At
    <3>2. /\ items'[app[t].net] = items[app[t].net] \union {i}
          /\ \A n \in NetworkNames : n # app[t].net => items'[n] = items[n]
      BY <1>a, <2>1
    <3>3. NetworksBehind(t)'
      BY <1>a, <2>0, <3>1, <3>2 DEF NetworksBehind, NetworkApplied, At
    <3>4. Fresh(t)'
      BY <3>1 DEF Fresh, At
    <3> QED BY <1>b, <1>c, <1>d, <3>1, <3>3, <3>4, OneSteps
  <2>2. ASSUME app[t].left = {}, Enter(t, "nets", app[t].todo), UNCHANGED items PROVE Progress'
    <3>1. /\ app'[t].pc = "nets" /\ app'[t].todo = app[t].todo
          /\ \A u \in Appliers : u # t => app'[u] = app[u]
      BY <1>a, <2>2 DEF Enter, Handler
    <3>2. NetworkApplied(app[t].net)
      BY <1>a, <2>0, <2>2 DEF NetworksBehind, NetworkApplied, At
    <3>3. NetworksBehind(t)'
      BY <1>a, <2>0, <2>2, <3>1, <3>2 DEF NetworksBehind, NetworkApplied, At
    <3>4. Fresh(t)'
      BY <3>1 DEF Fresh, At
    <3> QED BY <1>b, <1>c, <1>d, <3>1, <3>3, <3>4, OneSteps
  <2> QED BY <1>3, <2>1, <2>2 DEF AddItem
<1> QED BY <1>1, <1>2, <1>3

LEMMA ProgressFiles ==
  ASSUME TableInv, TableInv', [Next]_vars, Progress, NEW t \in Appliers,
         NextFile(t) \/ ReadVersion(t) \/ InsertVersion(t) \/ UpdateCurrent(t) \/ AddRevision(t)
           \/ Fail(t)
  PROVE  Progress'
<1> USE DEF roleVars, networkVars, policyVars
<1>a. /\ app \in [Appliers -> Handlers] /\ app[t] \in Handlers /\ TypeOK /\ TypeOK'
      /\ Name(t) \in Names /\ Len(versions[Name(t)]) \in Nat /\ app[t].version \in Nat
      /\ faults \in [crash : Nat, error : Nat, edit : Nat, role : Nat]
  BY DEF TableInv, TypeOK, Handlers, Name, Names
<1>b. UNCHANGED networkVars
  BY DEF NextFile, ReadVersion, InsertVersion, UpdateCurrent, AddRevision, Fail
<1>c. /\ faults'.edit = 0 => faults.edit = 0
      /\ faults'.error = 0 => faults.error = 0 /\ ~Fail(t)
  <2>1. CASE Fail(t)
    BY <1>a, <2>1, SpendFacts DEF Fail
  <2>2. CASE ~Fail(t)
    BY <2>2 DEF NextFile, ReadVersion, InsertVersion, UpdateCurrent, AddRevision
  <2> QED BY <2>1, <2>2
<1>d. faults'.edit = 0 =>
        FilesBehind(t) /\ FromDirectory(t) /\ FromFiles(Policies) /\ t \notin Editors
  <2>1. ~At(t, "idle")
    BY DEF NextFile, ReadVersion, InsertVersion, UpdateCurrent, AddRevision, Fail, Applying, At
  <2> QED BY <1>c, <2>1 DEF Progress, OnlyDirectory, FromDirectory
<1>e. \A y \in Policies : y.name \in Names
  BY DEF Names, Files
\* What a handler owes that stays with its file.
<1>f. ASSUME app'[t].pc \in {"upsert", "insert", "update", "revision"}
      PROVE  /\ NetworksBehind(t)'
             /\ ~At(t, "insert")' => Fresh(t)'
  BY <1>f DEF NetworksBehind, Fresh, At
<1>g. ASSUME faults'.edit = 0, app[t].pc \in Replacing, app'[t].pc \in Replacing,
             app'[t].todo = app[t].todo, app'[t].file = app[t].file,
             At(t, "revision")' => InForce(Name(t))'
      PROVE  FilesBehind(t)' /\ FromDirectory(t)'
  <2>1. Name(t)' = Name(t)
    BY <1>g DEF Name
  <2>2. FromDirectory(t)'
    BY <1>d, <1>g, <2>1 DEF FromDirectory
  <2>3. FilesBehind(t)'
    BY <1>d, <1>e, <1>g, <2>1, AppliedStays DEF FilesBehind
  <2> QED BY <2>2, <2>3
<1>h. ASSUME End(t)
      PROVE  /\ \A u \in Appliers : u # t => app'[u] = app[u]
             /\ NetworksBehind(t)' /\ FilesBehind(t)' /\ FromDirectory(t)'
  BY <1>a, <1>h, EndFacts, Ended
<1>1. CASE NextFile(t)
  <2>0. UNCHANGED versions /\ At(t, "files") /\ (faults'.edit = 0 => FromFiles(Policies)')
    BY <1>1, <1>d DEF NextFile, FromFiles
  <2>1. ASSUME NEW y \in Policies, y.name \in app[t].todo,
               app' = [app EXCEPT ![t] = FileHandler("upsert", app[t].todo, y, 0)]
        PROVE Progress'
    <3>1. /\ app'[t].pc = "upsert" /\ app'[t].todo = app[t].todo /\ app'[t].file = y
          /\ \A u \in Appliers : u # t => app'[u] = app[u]
      BY <1>a, <2>1 DEF FileHandler
    <3>2. faults'.edit = 0 => FilesBehind(t)'
      <4>1. ASSUME faults'.edit = 0
            PROVE /\ \A n \in Networks : NetworkApplied(n)
                  /\ \A z \in Policies : z.name \notin app[t].todo => InForce(z.name)
        BY <1>d, <2>0, <4>1 DEF FilesBehind, At
      <4> QED BY <1>e, <3>1, <4>1, AppliedStays DEF FilesBehind, At
    <3>3. faults'.edit = 0 => FromDirectory(t)'
      BY <1>d, <2>1, <3>1 DEF FromDirectory, Name
    <3>4. NetworksBehind(t)' /\ Fresh(t)'
      BY <1>f, <3>1 DEF At
    <3> QED BY <1>c, <2>0, <3>1, <3>2, <3>3, <3>4, OneSteps
  <2>2. ASSUME app[t].todo = {}, End(t) PROVE Progress'
    <3>1. faults'.edit = 0 => AllBehind
      BY <1>d, <2>0, <2>2 DEF FilesBehind, AllBehind, At
    <3> QED BY <1>c, <1>h, <2>0, <2>2, <3>1, OneSteps
  <2> QED BY <1>1, <2>1, <2>2 DEF NextFile
<1>2. CASE ReadVersion(t)
  <2>0. UNCHANGED versions /\ At(t, "upsert") /\ (faults'.edit = 0 => FromFiles(Policies)')
    BY <1>2, <1>d DEF ReadVersion, FromFiles
  <2>1. /\ app'[t].pc = "insert" /\ app'[t].todo = app[t].todo /\ app'[t].file = app[t].file
        /\ app'[t].version = Len(versions[Name(t)]) + 1
        /\ \A u \in Appliers : u # t => app'[u] = app[u]
    BY <1>a, <1>2 DEF ReadVersion, FileHandler
  <2>2. faults'.edit = 0 => FilesBehind(t)' /\ FromDirectory(t)'
    BY <1>g, <2>0, <2>1 DEF At, Replacing
  <2>3. NetworksBehind(t)' /\ Fresh(t)'
    <3>1. NetworksBehind(t)'
      BY <1>f, <2>1
    <3>2. app'[t].version > Len(versions'[app'[t].file.name])
      BY <1>a, <2>0, <2>1 DEF Name
    <3> QED BY <2>1, <3>1, <3>2 DEF Fresh, At, Name
  <2> QED BY <1>c, <2>0, <2>1, <2>2, <2>3, OneSteps
<1>3. CASE InsertVersion(t)
  <2>1. CASE app[t].version <= Len(versions[Name(t)])
    <3>1. End(t) /\ UNCHANGED <<networks, versions>> /\ ~Fresh(t)
      BY <1>a, <1>3, <2>1 DEF InsertVersion, Fresh
    <3>2. faults'.edit = 0 => FromFiles(Policies)'
      BY <1>d, <3>1 DEF FromFiles
    <3> QED BY <1>c, <1>h, <3>1, <3>2, OneSteps
  <2>2. CASE app[t].version > Len(versions[Name(t)])
    <3>0. At(t, "insert")
      BY <1>3 DEF InsertVersion
    <3>1. /\ app'[t].pc = "update" /\ app'[t].todo = app[t].todo /\ app'[t].file = app[t].file
          /\ \A u \in Appliers : u # t => app'[u] = app[u]
      BY <1>a, <1>3, <2>2, InsertFacts DEF Goto, Handlers
    <3>2. faults'.edit = 0 => FilesBehind(t)' /\ FromDirectory(t)'
      BY <1>g, <3>0, <3>1 DEF At, Replacing
    <3>3. NetworksBehind(t)' /\ Fresh(t)'
      BY <1>f, <3>1 DEF At
    <3>4. ASSUME faults'.edit = 0 PROVE FromFiles(Policies)'
      <4> SUFFICES ASSUME NEW n \in Names, NEW v \in DOMAIN versions'[n]
                   PROVE \E y \in Policies : y.name = n /\ versions'[n][v] = Stored(Parse(y))
        BY DEF FromFiles
      <4>1. CASE n # Name(t) \/ v \in DOMAIN versions[n]
        <5>1. v \in DOMAIN versions[n] /\ versions'[n][v] = versions[n][v]
          BY <1>a, <1>3, <2>2, <4>1, InsertFacts
        <5> QED BY <1>d, <3>4, <5>1 DEF FromFiles
      <4>2. CASE n = Name(t) /\ v \notin DOMAIN versions[n]
        <5>1. v = Len(versions[n]) + 1
          BY <1>a, <1>3, <2>2, <4>2, InsertFacts
        <5>2. versions'[n][v] = Stored(Parse(app[t].file))
          BY <1>a, <1>3, <2>2, <4>2, <5>1, InsertFacts
        <5>3. app[t].file \in Policies
          BY <1>d, <3>0, <3>4 DEF FromDirectory, Replacing, At
        <5> QED BY <4>2, <5>2, <5>3 DEF Name
      <4> QED BY <4>1, <4>2
    <3> QED BY <1>c, <3>1, <3>2, <3>3, <3>4, OneSteps
  <2> QED BY <1>a, <2>1, <2>2
<1>4. CASE UpdateCurrent(t)
  <2>0. /\ UNCHANGED versions /\ At(t, "update") /\ (faults'.edit = 0 => FromFiles(Policies)')
        /\ current' = [current EXCEPT ![Name(t)] = app[t].version]
    BY <1>4, <1>d DEF UpdateCurrent, FromFiles
  <2>1. CASE app[t].todo = {}
    <3>1. End(t)
      BY <1>4, <2>1 DEF UpdateCurrent
    <3>2. faults'.edit # 0
      BY <1>d, <2>0, <2>1 DEF FromDirectory, Replacing, At
    <3> QED BY <1>h, <3>1, <3>2, OneSteps
  <2>2. CASE app[t].todo # {}
    <3>1. /\ app'[t].pc = "revision" /\ app'[t].todo = app[t].todo /\ app'[t].file = app[t].file
          /\ \A u \in Appliers : u # t => app'[u] = app[u]
      BY <1>a, <1>4, <2>2 DEF UpdateCurrent, Goto, Handlers
    <3>2. current'[Name(t)] \in DOMAIN versions'[Name(t)]
      <4>1. app[t].version \in 1..Len(versions[Name(t)])
        BY <2>0 DEF TableInv, Tables, HandlerStored
      <4>2. DOMAIN versions[Name(t)] = 1..Len(versions[Name(t)]) /\ current \in [Names -> Nat]
        BY <1>a DEF TypeOK
      <4> QED BY <1>a, <2>0, <4>1, <4>2
    <3>3. InForce(Name(t))'
      BY <3>1, <3>2 DEF InForce, Name
    <3>4. faults'.edit = 0 => FilesBehind(t)' /\ FromDirectory(t)'
      BY <1>g, <2>0, <3>1, <3>3 DEF At, Replacing
    <3>5. NetworksBehind(t)' /\ Fresh(t)'
      BY <1>f, <3>1 DEF At
    <3> QED BY <1>c, <2>0, <3>1, <3>4, <3>5, OneSteps
  <2> QED BY <2>1, <2>2
<1>5. CASE AddRevision(t)
  <2>0. /\ UNCHANGED versions /\ At(t, "revision") /\ (faults'.edit = 0 => FromFiles(Policies)')
        /\ Enter(t, "files", app[t].todo \ {Name(t)})
    BY <1>5, <1>d DEF AddRevision, FromFiles
  <2>1. /\ app'[t].pc = "files" /\ app'[t].todo = app[t].todo \ {Name(t)}
        /\ \A u \in Appliers : u # t => app'[u] = app[u]
    BY <1>a, <2>0 DEF Enter, Handler
  <2>2. NetworksBehind(t)' /\ Fresh(t)'
    BY <2>1 DEF NetworksBehind, Fresh, At
  <2>3. faults'.edit = 0 => FromDirectory(t)'
    BY <1>d, <2>1 DEF FromDirectory, Replacing
  <2>4. ASSUME faults'.edit = 0 PROVE FilesBehind(t)'
    <3>1. /\ \A n \in Networks : NetworkApplied(n)
          /\ \A y \in Policies : y.name \notin app[t].todo => InForce(y.name)
          /\ InForce(Name(t))
      BY <1>d, <2>0, <2>4 DEF FilesBehind, Replacing, At
    <3>2. \A y \in Policies : y.name \notin app'[t].todo => InForce(y.name)
      BY <2>1, <3>1
    <3> QED BY <1>e, <2>1, <3>1, <3>2, AppliedStays DEF FilesBehind, At
  <2> QED BY <1>c, <2>0, <2>1, <2>2, <2>3, <2>4, OneSteps
<1>6. CASE Fail(t)
  <2>1. End(t) /\ (faults'.edit = 0 => FromFiles(Policies)')
    BY <1>6, <1>d DEF Fail, FromFiles
  <2> QED BY <1>c, <1>h, <1>6, <2>1, OneSteps
<1> QED BY <1>1, <1>2, <1>3, <1>4, <1>5, <1>6

LEMMA ProgressInvariant == Spec => []Progress
<1>1. Init => Progress
  <2> SUFFICES ASSUME Init PROVE Progress
    OBVIOUS
  <2>1. \A t \in Appliers : app[t].pc = IF t \in Replicas THEN "down" ELSE "idle"
    BY DEF Init, Handler
  <2>2. \A t \in Appliers : app[t].pc \in {"down", "idle"}
    BY <2>1
  <2>3. \A t \in Appliers : NetworksBehind(t) /\ FilesBehind(t)
    BY <2>2 DEF NetworksBehind, FilesBehind, Replacing, At
  <2>4. OnlyDirectory
    <3>1. FromFiles(Policies)
      BY DEF Init, FromFiles
    <3>2. \A t \in Editors : At(t, "idle")
      BY <2>1, DirectoryAssumption DEF At, Appliers
    <3> QED BY <2>2, <3>1, <3>2 DEF OnlyDirectory, Replacing
  <2>5. SomeoneFinishes
    <3>1. \A r \in Replicas : app[r].pc = "down"
      BY <2>1 DEF Appliers
    <3>2. \A r \in Replicas : Fresh(r)
      BY <3>1 DEF Fresh, At
    <3> QED BY <3>2, DirectoryAssumption DEF SomeoneFinishes
  <2> QED BY <2>3, <2>4, <2>5 DEF Progress
<1>2. TableInv /\ TableInv' /\ Progress /\ [Next]_vars => Progress'
  <2> SUFFICES ASSUME TableInv, TableInv', Progress, [Next]_vars PROVE Progress'
    OBVIOUS
  <2>1. CASE UNCHANGED <<networkVars, policyVars, app, faults>>
    BY <2>1 DEF Progress, NetworksBehind, FilesBehind, OnlyDirectory, FromFiles, SomeoneFinishes,
                AllBehind, Fresh, NetworkApplied, InForce, At, Name, networkVars, policyVars
  <2>2. ASSUME \/ \E c \in [who : People, to : Changes] : ChangeUser(c)
               \/ (\E in \in Requests : Decide(in)) \/ PolicyMeta \/ UNCHANGED vars
        PROVE UNCHANGED <<networkVars, policyVars, app, faults>>
    BY <2>2 DEF ChangeUser, Decide, PolicyMeta, vars
  <2>4. ASSUME \E caller, p \in People, to \in Changes : AskChange(caller, p, to)
        PROVE Progress'
    <3>1. /\ UNCHANGED <<networkVars, policyVars, app>>
          /\ faults'.edit = faults.edit /\ faults'.error = faults.error
      BY <2>4 DEF AskChange, Spend, TableInv, TypeOK
    <3> QED BY <3>1 DEF Progress, NetworksBehind, FilesBehind, OnlyDirectory, FromFiles, SomeoneFinishes,
                AllBehind, Fresh, NetworkApplied, InForce, At, Name, networkVars, policyVars
  <2>3. ASSUME NEW t \in Editors, ApplyGitOps(t) \/ \E y \in Edits : ApplyPolicy(t, y)
        PROVE Progress'
    <3>1. /\ t \in Appliers /\ app \in [Appliers -> Handlers]
          /\ faults \in [crash : Nat, error : Nat, edit : Nat, role : Nat]
      BY DEF Appliers, TableInv, TypeOK
    <3>2. faults'.edit # 0
      BY <2>3, <3>1, SpendFacts DEF ApplyGitOps, ApplyPolicy
    <3>3. /\ NetworksBehind(t)' /\ \A u \in Appliers : u # t => app'[u] = app[u]
      <4>1. CASE ApplyGitOps(t)
        <5>1. /\ app'[t].pc = "nets" /\ app'[t].todo = Networks
              /\ \A u \in Appliers : u # t => app'[u] = app[u]
          BY <3>1, <4>1 DEF ApplyGitOps, Enter, Handler
        <5> QED BY <3>1, <5>1, AllAhead
      <4>2. ASSUME NEW y \in Edits, ApplyPolicy(t, y)
            PROVE NetworksBehind(t)' /\ \A u \in Appliers : u # t => app'[u] = app[u]
        <5>1. app'[t].pc = "upsert" /\ \A u \in Appliers : u # t => app'[u] = app[u]
          BY <3>1, <4>2 DEF ApplyPolicy, FileHandler
        <5> QED BY <5>1 DEF NetworksBehind, At
      <4> QED BY <2>3, <4>1, <4>2
    <3> QED BY <3>1, <3>2, <3>3, OneSteps
  <2> QED BY <2>1, <2>2, <2>3, <2>4, ProgressBootstrap, ProgressNetworks, ProgressFiles DEF Next, ApplyStep
<1> QED BY <1>1, <1>2, TableInvariant, PTL DEF Spec

-----------------------------------------------------------------------------
(***************************************************************************)
(* The tables that AppState::bootstrap and apply_directory write, their    *)
(* handlers and the decision keep their types.                             *)
(***************************************************************************)
THEOREM TypeCorrect == Spec => []TypeOK
<1>1. TableInv => TypeOK
  BY DEF TableInv
<1> QED BY <1>1, TableInvariant, PTL

(***************************************************************************)
(* SessionService::create: each decision is that of a file that was        *)
(* applied, through the JSON column and whatever replaces it meanwhile.    *)
(***************************************************************************)
THEOREM DecisionsAreExplained == Spec => []DecisionExplained
<1>1. TableInv => DecisionExplained
  BY DEF TableInv
<1> QED BY <1>1, TableInvariant, PTL

(***************************************************************************)
(* apply_policy_yaml: a policy in force stays in force, because its        *)
(* documents are kept and the number made current is that of a document    *)
(* already stored.                                                         *)
(***************************************************************************)
THEOREM PoliciesStayInForce == Spec => PolicyStaysInForce
<1>1. TableInv /\ TableInv' /\ [Next]_vars => [\A n \in Names : InForce(n) => InForce(n)']_vars
  <2> SUFFICES ASSUME TableInv, TableInv', [Next]_vars, NEW n \in Names, InForce(n)
               PROVE InForce(n)'
    OBVIOUS
  <2>1. current[n] >= 1
    BY InForceIff DEF TableInv, Tables
  <2>2. current'[n] >= 1
    BY <2>1, DocumentsKept DEF TableInv
  <2>3. /\ current'[n] \in Nat /\ current'[n] <= Len(versions'[n])
        /\ DOMAIN versions'[n] = 1..Len(versions'[n]) /\ Len(versions'[n]) \in Nat
    BY DEF TableInv, Tables, CurrentHasDocument, TypeOK
  <2> QED BY <2>2, <2>3 DEF InForce
<1> QED BY <1>1, TableInvariant, PTL DEF Spec, PolicyStaysInForce

(***************************************************************************)
(* reconcile_admins: once a replica has been through it, the roles are     *)
(* those of the list and of the administrators who changed one since, with *)
(* any number of replicas that grant and take away at once and of requests *)
(* that were admitted before and are carried out late.                     *)
(***************************************************************************)
THEOREM RolesAreThoseListed == Spec => []RolesFollowList
<1>1. TableInv => RolesFollowList
  <2> SUFFICES ASSUME TableInv, Emails # {}, Reconciled, NEW p \in People \ changed
               PROVE p \in admins <=> p \in Emails
    BY DEF RolesFollowList
  <2>1. Emails \subseteq admins \union changed /\ admins \subseteq Emails \union changed
    BY DEF Reconciled, TableInv, ListedGranted
  <2> QED BY <2>1
<1> QED BY <1>1, TableInvariant, PTL

(***************************************************************************)
(* AppState::bootstrap, for any number of replicas and crashes: when every *)
(* replica serves, the whole directory is in force, unless an application  *)
(* failed for a reason of its own or an administrator interfered. The last *)
(* one to be overtaken by nobody has gone through all of it.               *)
(***************************************************************************)
THEOREM RolloutApplies == Spec => []ServingReplicasApplied
<1>1. TableInv /\ Progress => ServingReplicasApplied
  <2> SUFFICES ASSUME TableInv, Progress, \A r \in Replicas : At(r, "up"),
                      faults.error = 0, faults.edit = 0
               PROVE DirectoryApplied
    BY DEF ServingReplicasApplied
  <2>1. AllBehind /\ FromFiles(Policies)
    BY DEF Progress, SomeoneFinishes, Fresh, OnlyDirectory, At
  <2>2. ASSUME NEW y \in Policies PROVE FileInForce(y)
    <3>1. y \in Files /\ y.name \in Names /\ InForce(y.name)
      BY <2>1 DEF AllBehind, Files, Names
    <3>2. PICK z \in Policies : z.name = y.name
                               /\ versions[y.name][current[y.name]] = Stored(Parse(z))
      BY <2>1, <3>1 DEF FromFiles, InForce
    <3>3. z = y
      BY <3>2, DirectoryAssumption
    <3> QED BY <3>1, <3>2, <3>3, LoadedStored DEF FileInForce, DocumentOf
  <2> QED BY <2>1, <2>2 DEF DirectoryApplied, AllBehind
<1> QED BY <1>1, TableInvariant, ProgressInvariant, PTL
=============================================================================
