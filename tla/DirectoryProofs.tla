-------------------------- MODULE DirectoryProofs --------------------------
(***************************************************************************)
(* Directory for any set of users, addresses, accounts and requests. The   *)
(* inductive invariant says what a request may rely on although the tables *)
(* change between its statements (TaskOK), and that a binding never        *)
(* outlives its user (BoundIsThere).                                       *)
(***************************************************************************)
EXTENDS Directory, TLAPS

Resolving ==
  {"lookup", "bound", "known", "byEmail", "already", "byExt", "taken", "link", "insert"}
WithUser == {"known", "already", "link", "mint", "admin"}

\* What is true of a request x while the tables are us and bd: whom it has found
\* has been a user; and if that user is still there, a known or a linked account
\* is bound to it, and one about to be linked by its OpsAPI uuid has that uuid.
TaskOK(x, us, bd) ==
  /\ x.pc \in Resolving =>
       x.issuer \in Issuers /\ x.account \in Accounts /\ x.email \in Emails
  /\ x.pc \in {"byEmail", "already"} => x.issuer = "oidc"
  /\ x.pc \in {"devFind", "devInsert"} => x.issuer = "dev" /\ x.email \in Emails
  /\ x.pc = "mint" /\ x.issuer # "dev" => x.issuer \in Issuers /\ x.account \in Accounts
  /\ x.pc \in WithUser => x.user \in UserIds /\ us[x.user].state # "absent"
  /\ x.pc \in {"known", "mint"} /\ x.issuer # "dev" /\ us[x.user].state = "row" =>
       bd[x.issuer][x.account] = x.user
  /\ x.pc = "link" /\ x.issuer = "opsapi" /\ us[x.user].state = "row" =>
       us[x.user].ext = x.account

TasksOK == \A t \in Tasks : TaskOK(task[t], users, bound)

\* oidc_identities.user_id ... ON DELETE CASCADE.
BoundIsThere ==
  \A i \in Issuers : \A a \in Accounts : bound[i][a] # None => Exists(bound[i][a])

\* A token that names an issuer names an account.
TokenShape == \A k \in tokens : k.issuer # "dev" => k.account \in Accounts

Tables == BoundIsThere /\ TokenShape /\ TokensNameTheirSubject /\ OneSubjectPerIssuer /\ OpsapiLinksById

Inv == TypeOK /\ TasksOK /\ Tables

-----------------------------------------------------------------------------
(* Initially, and the bounds of the counters.                              *)

LEMMA EmailTypes ==
  /\ \A e \in Emails : Lower(e) \in Emails
  /\ \A m \in Addresses : <<m, FALSE>> \in Emails
  BY DirectoryAssumption DEF Emails, Lower

LEMMA IdleIsOK ==
  Idle \in Task /\ Idle.pc = "idle" /\ \A us, bd : TaskOK(Idle, us, bd)
  <1>1. Idle \in Task BY DEF Idle, Task, Steps
  <1>2. Idle.pc = "idle" BY DEF Idle
  <1> QED BY <1>1, <1>2 DEF TaskOK, Resolving, WithUser

LEMMA NoRowState ==
  \A s : NoRow(s).state = s
  BY DEF NoRow

LEMMA NewRowFields ==
  ASSUME NEW e \in Emails, NEW x \in Accounts \cup {None}, NEW active \in BOOLEAN
  PROVE  /\ NewRow(e, x, active) \in UserRow
         /\ NewRow(e, x, active).state = "row" /\ NewRow(e, x, active).ext = x
  BY DEF NewRow, UserRow

LEMMA InvInit == Init => Inv
  <1> SUFFICES ASSUME Init PROVE Inv OBVIOUS
  <1>1. users \in [UserIds -> UserRow \cup {NoRow("absent"), NoRow("gone")}]
    <2>1. PICK email \in [Admins -> Addresses] :
            users = [u \in UserIds |->
                     IF u \in Admins
                     THEN [NewRow(<<email[u], FALSE>>, None, TRUE) EXCEPT !.admin = TRUE]
                     ELSE NoRow("absent")]
      BY DEF Init
    <2>2. ASSUME NEW u \in Admins
          PROVE  [NewRow(<<email[u], FALSE>>, None, TRUE) EXCEPT !.admin = TRUE] \in UserRow
      <3>1. <<email[u], FALSE>> \in Emails BY EmailTypes
      <3>2. NewRow(<<email[u], FALSE>>, None, TRUE) \in UserRow BY <3>1, NewRowFields
      <3> QED BY <3>2 DEF UserRow
    <2> QED BY <2>1, <2>2
  <1>2. TypeOK
    <2>1. /\ bound = [i \in Issuers |-> [a \in Accounts |-> None]] /\ tokens = {}
          /\ task = [t \in Tasks |-> Idle] /\ signIns = 0 /\ requests = 0
      BY DEF Init
    <2>2. bound \in [Issuers -> [Accounts -> UserIds \cup {None}]] BY <2>1
    <2>3. task \in [Tasks -> Task] BY <2>1, IdleIsOK
    <2>4. signIns \in 0..MaxSignIns /\ requests \in 0..MaxRequests
      BY <2>1, DirectoryAssumption
    <2> QED BY <1>1, <2>1, <2>2, <2>3, <2>4 DEF TypeOK
  <1>3. TasksOK BY IdleIsOK DEF Init, TasksOK
  <1>4. Tables
    BY DEF Init, Tables, BoundIsThere, TokenShape, TokensNameTheirSubject, OneSubjectPerIssuer,
       OpsapiLinksById, Issuers
  <1> QED BY <1>2, <1>3, <1>4 DEF Inv

Counters == signIns \in 0..MaxSignIns /\ requests \in 0..MaxRequests

LEMMA CountersNext ==
  ASSUME TypeOK, Next PROVE Counters'
  <1>0. Counters BY DEF TypeOK, Counters
  <1>1. ASSUME NEW t \in Tasks, SignInStep(t) PROVE Counters'
    <2>1. \/ UNCHANGED <<signIns, requests>>
          \/ signIns < MaxSignIns /\ signIns' = signIns + 1 /\ UNCHANGED requests
      <3>1. ASSUME NEW a \in Accounts, NEW e \in Emails, StartOidc(t, a, e) \/ StartOpsapi(t, a, e)
            PROVE  signIns < MaxSignIns /\ signIns' = signIns + 1 /\ UNCHANGED requests
        BY <3>1 DEF StartOidc, StartOpsapi, BeginSignIn
      <3>2. ASSUME NEW e \in Emails, StartDev(t, e)
            PROVE  signIns < MaxSignIns /\ signIns' = signIns + 1 /\ UNCHANGED requests
        BY <3>2 DEF StartDev, BeginSignIn
      <3>3. ASSUME Lookup(t) \/ FindBound(t) \/ UpdateKnown(t) \/ ByEmail(t) \/ Already(t)
            PROVE  UNCHANGED <<signIns, requests>>
        BY <3>3 DEF Lookup, FindBound, UpdateKnown, ByEmail, Already
      <3>4. ASSUME ByExternalId(t) \/ Taken(t) \/ Link(t) \/ Insert(t)
            PROVE  UNCHANGED <<signIns, requests>>
        BY <3>4 DEF ByExternalId, Taken, Link, Insert
      <3>5. ASSUME Mint(t) \/ DevFind(t) \/ DevInsert(t) PROVE UNCHANGED <<signIns, requests>>
        BY <3>5 DEF Mint, DevFind, DevInsert
      <3> QED BY <1>1, <3>1, <3>2, <3>3, <3>4, <3>5 DEF SignInStep
    <2> QED BY <1>0, <2>1, DirectoryAssumption DEF Counters
  <1>2. ASSUME NEW t \in Tasks, AdminStep(t) PROVE Counters'
    <2>1. \/ UNCHANGED <<signIns, requests>>
          \/ Request /\ UNCHANGED signIns
      BY <1>2 DEF AdminStep, StartAdmin, AdminChange
    <2> QED BY <1>0, <2>1, DirectoryAssumption DEF Counters, Request
  <1>3. CASE DirectoryStep
    <2>1. Request /\ UNCHANGED signIns
      BY <1>3 DEF DirectoryStep, CreateUser, DeleteUser, SetActive
    <2> QED BY <1>0, <2>1, DirectoryAssumption DEF Counters, Request
  <1> QED BY <1>1, <1>2, <1>3 DEF Next

-----------------------------------------------------------------------------
(* What other requests may do to the tables while a request is waiting.    *)

\* No id is used again, and an external id is never replaced.
RowsMove ==
  \A u \in UserIds : users[u].state # "absent" =>
    /\ users'[u].state # "absent"
    /\ users'[u].state = "row" =>
         users[u].state = "row" /\ (users[u].ext # None => users'[u].ext = users[u].ext)

\* A binding goes only with its user.
BindingsMove ==
  \A i \in Issuers : \A a \in Accounts :
    bound[i][a] \in UserIds /\ users'[bound[i][a]].state = "row" => bound'[i][a] = bound[i][a]

LEMMA TaskStays ==
  ASSUME TypeOK, RowsMove, BindingsMove, NEW x, TaskOK(x, users, bound)
  PROVE  TaskOK(x, users', bound')
  <1>1. x.pc \in WithUser => x.user \in UserIds /\ users'[x.user].state # "absent"
    BY DEF TaskOK, RowsMove
  <1>2. x.pc \in {"known", "mint"} /\ x.issuer # "dev" /\ users'[x.user].state = "row" =>
          bound'[x.issuer][x.account] = x.user
    <2> SUFFICES ASSUME x.pc \in {"known", "mint"}, x.issuer # "dev", users'[x.user].state = "row"
                 PROVE  bound'[x.issuer][x.account] = x.user
      OBVIOUS
    <2>1. x.user \in UserIds /\ users[x.user].state # "absent" BY DEF TaskOK, WithUser
    <2>2. users[x.user].state = "row" BY <2>1 DEF RowsMove
    <2>3. x.issuer \in Issuers /\ x.account \in Accounts BY DEF TaskOK, Resolving
    <2>4. bound[x.issuer][x.account] = x.user BY <2>2 DEF TaskOK
    <2> QED BY <2>1, <2>3, <2>4 DEF BindingsMove
  <1>3. x.pc = "link" /\ x.issuer = "opsapi" /\ users'[x.user].state = "row" =>
          users'[x.user].ext = x.account
    <2> SUFFICES ASSUME x.pc = "link", x.issuer = "opsapi", users'[x.user].state = "row"
                 PROVE  users'[x.user].ext = x.account
      OBVIOUS
    <2>1. x.user \in UserIds /\ users[x.user].state # "absent" BY DEF TaskOK, WithUser
    <2>2. users[x.user].state = "row" BY <2>1 DEF RowsMove
    <2>3. x.account # None BY DirectoryAssumption DEF TaskOK, Resolving
    <2>4. users[x.user].ext = x.account BY <2>2 DEF TaskOK
    <2> QED BY <2>1, <2>2, <2>3, <2>4 DEF RowsMove
  <1> QED BY <1>1, <1>2, <1>3 DEF TaskOK

\* A step of request t, whatever it does to the tables.
LEMMA TasksMove ==
  ASSUME Inv, RowsMove, BindingsMove, NEW t \in Tasks, NEW x, task' = [task EXCEPT ![t] = x],
         TaskOK(x, users', bound')
  PROVE  TasksOK'
  <1>1. task'[t] = x /\ \A s \in Tasks \ {t} : task'[s] = task[s] BY DEF Inv, TypeOK
  <1>2. \A s \in Tasks \ {t} : TaskOK(task[s], users', bound')
    BY TaskStays DEF Inv, TasksOK
  <1> QED BY <1>1, <1>2 DEF TasksOK

\* A step that is no request's.
LEMMA TasksStay ==
  ASSUME Inv, RowsMove, BindingsMove, UNCHANGED task
  PROVE  TasksOK'
  <1>1. \A s \in Tasks : TaskOK(task[s], users', bound') BY TaskStays DEF Inv, TasksOK
  <1> QED BY <1>1 DEF TasksOK

\* Reads only: the tables are as they were.
LEMMA Reads ==
  ASSUME Inv, Counters', NEW t \in Tasks, NEW x \in Task, task' = [task EXCEPT ![t] = x],
         TaskOK(x, users, bound), UNCHANGED <<users, bound, tokens>>
  PROVE  Inv'
  <1>1. RowsMove /\ BindingsMove BY DEF RowsMove, BindingsMove
  <1>2. TasksOK' BY <1>1, TasksMove
  <1>3. TypeOK' BY DEF Inv, TypeOK, Counters
  <1>4. Tables'
    BY DEF Inv, Tables, BoundIsThere, Exists, TokenShape, TokensNameTheirSubject,
       OneSubjectPerIssuer, OpsapiLinksById
  <1> QED BY <1>2, <1>3, <1>4 DEF Inv

-----------------------------------------------------------------------------
(* How a request goes on.                                                  *)

LEMMA GotoFields ==
  ASSUME TypeOK, NEW t \in Tasks, NEW pc \in Steps, Goto(t, pc)
  PROVE  \E x \in Task :
           /\ task' = [task EXCEPT ![t] = x]
           /\ x.pc = pc /\ x.issuer = task[t].issuer /\ x.account = task[t].account
           /\ x.email = task[t].email /\ x.user = task[t].user
  <1> DEFINE x == [task[t] EXCEPT !.pc = pc]
  <1>1. task[t] \in Task BY DEF TypeOK
  <1>2. /\ x \in Task
        /\ x.pc = pc /\ x.issuer = task[t].issuer /\ x.account = task[t].account
        /\ x.email = task[t].email /\ x.user = task[t].user
    BY <1>1 DEF Task
  <1>3. task' = [task EXCEPT ![t] = x] BY DEF Goto
  <1> HIDE DEF x
  <1> QED BY <1>2, <1>3

LEMMA ContinueFields ==
  ASSUME TypeOK, NEW t \in Tasks, NEW pc \in Steps, NEW u \in UserIds, Continue(t, pc, u)
  PROVE  \E x \in Task :
           /\ task' = [task EXCEPT ![t] = x]
           /\ x.pc = pc /\ x.issuer = task[t].issuer /\ x.account = task[t].account
           /\ x.email = task[t].email /\ x.user = u
  <1> DEFINE x == [task[t] EXCEPT !.pc = pc, !.user = u]
  <1>1. task[t] \in Task BY DEF TypeOK
  <1>2. /\ x \in Task
        /\ x.pc = pc /\ x.issuer = task[t].issuer /\ x.account = task[t].account
        /\ x.email = task[t].email /\ x.user = u
    BY <1>1 DEF Task
  <1>3. task' = [task EXCEPT ![t] = x] BY DEF Continue
  <1> HIDE DEF x
  <1> QED BY <1>2, <1>3

LEMMA RefuseReads ==
  ASSUME Inv, Counters', NEW t \in Tasks, Refuse(t), UNCHANGED <<users, bound, tokens>>
  PROVE  Inv'
  BY Reads, IdleIsOK DEF Refuse

\* The user of a request that goes on is nobody yet.
LEMMA GotoReads ==
  ASSUME Inv, Counters', NEW t \in Tasks, UNCHANGED <<users, bound, tokens>>,
         task[t].pc \in Resolving,
         NEW pc \in {"bound", "byEmail", "byExt", "taken", "insert"}, Goto(t, pc),
         pc = "byEmail" => task[t].issuer = "oidc"
  PROVE  Inv'
  <1>1. pc \in Steps BY DEF Steps
  <1>2. PICK x \in Task :
          /\ task' = [task EXCEPT ![t] = x]
          /\ x.pc = pc /\ x.issuer = task[t].issuer /\ x.account = task[t].account
          /\ x.email = task[t].email /\ x.user = task[t].user
    BY <1>1, GotoFields DEF Inv
  <1>3. TaskOK(task[t], users, bound) BY DEF Inv, TasksOK
  <1>4. TaskOK(x, users, bound) BY <1>2, <1>3 DEF TaskOK, Resolving, WithUser
  <1> QED BY <1>2, <1>4, Reads

-----------------------------------------------------------------------------
(* The requests that only read.                                            *)

LEMMA BeginKeeps ==
  ASSUME Inv, Counters', NEW t \in Tasks, NEW issuer, NEW pc, NEW a, NEW e \in Emails,
         BeginSignIn(t, issuer, pc, a, e),
         \/ pc \in {"bound", "lookup"} /\ issuer \in Issuers /\ a \in Accounts
         \/ pc = "devFind" /\ issuer = "dev" /\ a = None
  PROVE  Inv'
  <1> DEFINE x == [Idle EXCEPT !.pc = pc, !.issuer = issuer, !.account = a, !.email = Lower(e)]
  <1>1. Lower(e) \in Emails BY EmailTypes
  <1>2. x \in Task /\ x.pc = pc /\ x.issuer = issuer /\ x.account = a /\ x.email = Lower(e)
    BY <1>1 DEF Idle, Task, Steps
  <1>3. task' = [task EXCEPT ![t] = x] /\ UNCHANGED <<users, bound, tokens>> BY DEF BeginSignIn
  <1> HIDE DEF x
  <1>4. TaskOK(x, users, bound) BY <1>1, <1>2 DEF TaskOK, Resolving, WithUser
  <1> QED BY <1>2, <1>3, <1>4, Reads

LEMMA LookupKeeps ==
  ASSUME Inv, Counters', NEW t \in Tasks, Lookup(t) PROVE Inv'
  <1>1. CASE Goto(t, "bound") BY <1>1, GotoReads DEF Lookup, Resolving
  <1>2. CASE Refuse(t) BY <1>2, RefuseReads DEF Lookup
  <1> QED BY <1>1, <1>2 DEF Lookup

LEMMA FindBoundKeeps ==
  ASSUME Inv, Counters', NEW t \in Tasks, FindBound(t) PROVE Inv'
  <1> DEFINE u == bound[task[t].issuer][task[t].account]
  <1>1. TaskOK(task[t], users, bound) BY DEF Inv, TasksOK
  <1>2. task[t].issuer \in Issuers /\ task[t].account \in Accounts
    BY <1>1 DEF FindBound, TaskOK, Resolving
  <1>3. u \in UserIds \cup {None} BY <1>2 DEF Inv, TypeOK
  <1>4. UNCHANGED <<users, bound, tokens>> BY DEF FindBound
  <1>5. CASE u # None
    <2>0. u \in UserIds /\ Exists(u) BY <1>2, <1>3, <1>5 DEF Inv, Tables, BoundIsThere
    <2>1. Continue(t, "known", u) /\ "known" \in Steps BY <1>5 DEF FindBound, Steps
    <2>2. PICK x \in Task :
            /\ task' = [task EXCEPT ![t] = x]
            /\ x.pc = "known" /\ x.issuer = task[t].issuer /\ x.account = task[t].account
            /\ x.email = task[t].email /\ x.user = u
      BY <2>0, <2>1, ContinueFields DEF Inv
    <2>3. task[t].email \in Emails BY <1>1 DEF FindBound, TaskOK, Resolving
    <2>4. TaskOK(x, users, bound)
      BY <1>2, <2>0, <2>2, <2>3 DEF TaskOK, Resolving, WithUser, Exists
    <2> QED BY <1>4, <2>2, <2>4, Reads
  <1>6. CASE u = None
    <2>1. CASE task[t].issuer = "oidc" BY <1>4, <1>6, <2>1, GotoReads DEF FindBound, Resolving
    <2>2. CASE task[t].issuer # "oidc" BY <1>4, <1>6, <2>2, GotoReads DEF FindBound, Resolving
    <2> QED BY <2>1, <2>2
  <1> QED BY <1>5, <1>6

LEMMA ByEmailKeeps ==
  ASSUME Inv, Counters', NEW t \in Tasks, ByEmail(t) PROVE Inv'
  <1>1. TaskOK(task[t], users, bound) BY DEF Inv, TasksOK
  <1>2. ASSUME NEW u \in WithEmail(task[t].email), Continue(t, "already", u) PROVE Inv'
    <2>1. u \in UserIds /\ Exists(u) /\ "already" \in Steps BY DEF WithEmail, Steps
    <2>2. PICK x \in Task :
            /\ task' = [task EXCEPT ![t] = x]
            /\ x.pc = "already" /\ x.issuer = task[t].issuer /\ x.account = task[t].account
            /\ x.email = task[t].email /\ x.user = u
      BY <1>2, <2>1, ContinueFields DEF Inv
    <2>3. TaskOK(x, users, bound)
      BY <1>1, <2>1, <2>2 DEF ByEmail, TaskOK, Resolving, WithUser, Exists
    <2> QED BY <2>2, <2>3, Reads DEF ByEmail
  <1>3. CASE Goto(t, "insert") BY <1>3, GotoReads DEF ByEmail, Resolving
  <1>4. CASE Refuse(t) BY <1>4, RefuseReads DEF ByEmail
  <1> QED BY <1>2, <1>3, <1>4 DEF ByEmail

LEMMA AlreadyKeeps ==
  ASSUME Inv, Counters', NEW t \in Tasks, Already(t) PROVE Inv'
  <1>1. TaskOK(task[t], users, bound) BY DEF Inv, TasksOK
  <1>2. CASE Goto(t, "link")
    <2>1. "link" \in Steps BY DEF Steps
    <2>2. PICK x \in Task :
            /\ task' = [task EXCEPT ![t] = x]
            /\ x.pc = "link" /\ x.issuer = task[t].issuer /\ x.account = task[t].account
            /\ x.email = task[t].email /\ x.user = task[t].user
      BY <1>2, <2>1, GotoFields DEF Inv
    <2>3. TaskOK(x, users, bound)
      BY <1>1, <2>2 DEF Already, TaskOK, Resolving, WithUser
    <2> QED BY <2>2, <2>3, Reads DEF Already
  <1>3. CASE Refuse(t) BY <1>3, RefuseReads DEF Already
  <1> QED BY <1>2, <1>3 DEF Already

\* The uuid is the user's, and will be.
LEMMA ByExternalIdKeeps ==
  ASSUME Inv, Counters', NEW t \in Tasks, ByExternalId(t) PROVE Inv'
  <1>1. TaskOK(task[t], users, bound) BY DEF Inv, TasksOK
  <1>2. ASSUME NEW u \in WithExternalId(task[t].account), Continue(t, "link", u) PROVE Inv'
    <2>1. /\ u \in UserIds /\ Exists(u) /\ users[u].ext = task[t].account
          /\ "link" \in Steps
      BY DEF WithExternalId, Steps
    <2>2. PICK x \in Task :
            /\ task' = [task EXCEPT ![t] = x]
            /\ x.pc = "link" /\ x.issuer = task[t].issuer /\ x.account = task[t].account
            /\ x.email = task[t].email /\ x.user = u
      BY <1>2, <2>1, ContinueFields DEF Inv
    <2>3. TaskOK(x, users, bound)
      BY <1>1, <2>1, <2>2 DEF ByExternalId, TaskOK, Resolving, WithUser, Exists
    <2> QED BY <2>2, <2>3, Reads DEF ByExternalId
  <1>3. CASE Goto(t, "taken") BY <1>3, GotoReads DEF ByExternalId, Resolving
  <1> QED BY <1>2, <1>3 DEF ByExternalId

LEMMA TakenKeeps ==
  ASSUME Inv, Counters', NEW t \in Tasks, Taken(t) PROVE Inv'
  <1>1. CASE Goto(t, "insert") BY <1>1, GotoReads DEF Taken, Resolving
  <1>2. CASE Refuse(t) BY <1>2, RefuseReads DEF Taken
  <1> QED BY <1>1, <1>2 DEF Taken

LEMMA DevFindKeeps ==
  ASSUME Inv, Counters', NEW t \in Tasks, DevFind(t) PROVE Inv'
  <1>1. TaskOK(task[t], users, bound) BY DEF Inv, TasksOK
  <1>2. ASSUME NEW u \in WithEmail(task[t].email), Continue(t, "mint", u) PROVE Inv'
    <2>1. u \in UserIds /\ Exists(u) /\ "mint" \in Steps BY DEF WithEmail, Steps
    <2>2. PICK x \in Task :
            /\ task' = [task EXCEPT ![t] = x]
            /\ x.pc = "mint" /\ x.issuer = task[t].issuer /\ x.account = task[t].account
            /\ x.email = task[t].email /\ x.user = u
      BY <1>2, <2>1, ContinueFields DEF Inv
    <2>3. TaskOK(x, users, bound)
      BY <1>1, <2>1, <2>2 DEF DevFind, TaskOK, Resolving, WithUser, Exists
    <2> QED BY <2>2, <2>3, Reads DEF DevFind
  <1>3. CASE Goto(t, "devInsert")
    <2>1. "devInsert" \in Steps BY DEF Steps
    <2>2. PICK x \in Task :
            /\ task' = [task EXCEPT ![t] = x]
            /\ x.pc = "devInsert" /\ x.issuer = task[t].issuer /\ x.account = task[t].account
            /\ x.email = task[t].email /\ x.user = task[t].user
      BY <1>3, <2>1, GotoFields DEF Inv
    <2>3. TaskOK(x, users, bound) BY <1>1, <2>2 DEF DevFind, TaskOK, Resolving, WithUser
    <2> QED BY <2>2, <2>3, Reads DEF DevFind
  <1>4. CASE Refuse(t) BY <1>4, RefuseReads DEF DevFind
  <1> QED BY <1>2, <1>3, <1>4 DEF DevFind

LEMMA StartAdminKeeps ==
  ASSUME Inv, Counters', NEW t \in Tasks, NEW caller, NEW u \in UserIds, NEW change \in Changes,
         StartAdmin(t, caller, u, change)
  PROVE  Inv'
  <1> DEFINE x == [Idle EXCEPT !.pc = "admin", !.user = u, !.change = change]
  <1>1. x \in Task /\ x.pc = "admin" /\ x.user = u BY DEF Idle, Task, Steps
  <1>2. task' = [task EXCEPT ![t] = x] /\ UNCHANGED <<users, bound, tokens>> /\ Exists(u)
    BY DEF StartAdmin
  <1> HIDE DEF x
  <1>3. TaskOK(x, users, bound) BY <1>1, <1>2 DEF TaskOK, Resolving, WithUser, Exists
  <1> QED BY <1>1, <1>2, <1>3, Reads

-----------------------------------------------------------------------------
(* The requests that write.                                                *)

\* Users that are there stay, under the external id they have.
RowsStay ==
  \A v \in UserIds : users[v].state = "row" =>
    users'[v].state = "row" /\ (users[v].ext # None => users'[v].ext = users[v].ext)

LEMMA RowWritten ==
  ASSUME TypeOK, NEW u \in UserIds, NEW r \in UserRow, users' = [users EXCEPT ![u] = r],
         users[u].state # "gone",
         users[u].state = "row" /\ users[u].ext # None => r.ext = users[u].ext
  PROVE  /\ users' \in [UserIds -> UserRow \cup {NoRow("absent"), NoRow("gone")}]
         /\ RowsMove /\ RowsStay
         /\ users'[u] = r /\ users'[u].state = "row"
  <1>1. users'[u] = r /\ r.state = "row" /\ \A v \in UserIds \ {u} : users'[v] = users[v]
    BY DEF TypeOK, UserRow
  <1>2. users' \in [UserIds -> UserRow \cup {NoRow("absent"), NoRow("gone")}] BY DEF TypeOK
  <1>3. \A v \in UserIds : users[v].state \in {"row", "absent", "gone"}
    BY NoRowState DEF TypeOK, UserRow
  <1>4. RowsMove BY <1>1, <1>3 DEF RowsMove
  <1>5. RowsStay BY <1>1 DEF RowsStay
  <1> QED BY <1>1, <1>2, <1>4, <1>5

LEMMA TablesStay ==
  ASSUME Inv, RowsStay, UNCHANGED <<bound, tokens>>
  PROVE  Tables' /\ BindingsMove
  <1>1. BoundIsThere' BY DEF Inv, Tables, BoundIsThere, Exists, RowsStay
  <1>2. TokenShape' /\ TokensNameTheirSubject' /\ OneSubjectPerIssuer'
    BY DEF Inv, Tables, TokenShape, TokensNameTheirSubject, OneSubjectPerIssuer
  <1>3. OpsapiLinksById'
    <2> SUFFICES ASSUME NEW a \in Accounts, bound["opsapi"][a] # None
                 PROVE  users'[bound["opsapi"][a]].ext = a
      BY DEF OpsapiLinksById
    <2> DEFINE u == bound["opsapi"][a]
    <2>1. u \in UserIds /\ users[u].state = "row"
      BY DEF Inv, Tables, BoundIsThere, Exists, Issuers
    <2>2. users[u].ext = a /\ a # None
      BY DirectoryAssumption DEF Inv, Tables, OpsapiLinksById
    <2> QED BY <2>1, <2>2 DEF RowsStay
  <1>4. BindingsMove BY DEF BindingsMove
  <1> QED BY <1>1, <1>2, <1>3, <1>4 DEF Tables

\* link(): the unique indexes are what keeps an account and a user single.
LEMMA Binds ==
  ASSUME Inv, RowsStay, UNCHANGED tokens,
         NEW i \in Issuers, NEW a \in Accounts, NEW u \in UserIds,
         bound' = [bound EXCEPT ![i][a] = u], bound[i][a] = None,
         \A b \in Accounts : bound[i][b] # u,
         users'[u].state = "row", i = "opsapi" => users'[u].ext = a
  PROVE  /\ bound' \in [Issuers -> [Accounts -> UserIds \cup {None}]]
         /\ bound'[i][a] = u
         /\ Tables' /\ BindingsMove
  <1>0. bound \in [Issuers -> [Accounts -> UserIds \cup {None}]] BY DEF Inv, TypeOK
  <1>1. /\ bound' \in [Issuers -> [Accounts -> UserIds \cup {None}]]
        /\ bound'[i][a] = u
        /\ \A j \in Issuers : \A b \in Accounts :
             j # i \/ b # a => bound'[j][b] = bound[j][b]
    BY <1>0
  <1>2. \A j \in Issuers : \A b \in Accounts : bound[j][b] # None => bound'[j][b] = bound[j][b]
    BY <1>1
  <1>3. None \notin UserIds BY DirectoryAssumption
  <1>4. BindingsMove BY <1>2, <1>3 DEF BindingsMove
  <1>5. BoundIsThere' BY <1>0, <1>1 DEF Inv, Tables, BoundIsThere, Exists, RowsStay
  <1>6. TokenShape' BY DEF Inv, Tables, TokenShape
  <1>7. TokensNameTheirSubject'
    <2> SUFFICES ASSUME NEW k \in tokens, k.issuer # "dev"
                 PROVE  bound'[k.issuer][k.account] = k.user
      BY DEF TokensNameTheirSubject
    <2>1. k.issuer \in Issuers /\ k.user \in UserIds /\ k.account \in Accounts
      BY DEF Inv, TypeOK, Tables, TokenShape
    <2>2. bound[k.issuer][k.account] = k.user BY DEF Inv, Tables, TokensNameTheirSubject
    <2> QED BY <1>2, <1>3, <2>1, <2>2
  <1>8. OneSubjectPerIssuer'
    <2> SUFFICES ASSUME NEW j \in Issuers, NEW b \in Accounts, NEW c \in Accounts,
                        bound'[j][b] = bound'[j][c], b # c
                 PROVE  bound'[j][b] = None
      BY DEF OneSubjectPerIssuer
    <2>1. CASE j = i /\ (b = a \/ c = a) BY <1>1, <2>1
    <2>2. CASE j # i \/ (b # a /\ c # a)
      BY <1>1, <2>2 DEF Inv, Tables, OneSubjectPerIssuer
    <2> QED BY <2>1, <2>2
  <1>9. OpsapiLinksById'
    <2> SUFFICES ASSUME NEW b \in Accounts, bound'["opsapi"][b] # None
                 PROVE  users'[bound'["opsapi"][b]].ext = b
      BY DEF OpsapiLinksById
    <2>1. CASE i = "opsapi" /\ b = a BY <1>1, <2>1
    <2>2. CASE i # "opsapi" \/ b # a
      <3> DEFINE v == bound["opsapi"][b]
      <3>1. bound'["opsapi"][b] = v BY <1>1, <2>2 DEF Issuers
      <3>2. v \in UserIds /\ users[v].state = "row"
        BY <3>1 DEF Inv, Tables, BoundIsThere, Exists, Issuers
      <3>3. users[v].ext = b /\ b # None
        BY <3>1, DirectoryAssumption DEF Inv, Tables, OpsapiLinksById
      <3> QED BY <3>1, <3>2, <3>3 DEF RowsStay
    <2> QED BY <2>1, <2>2
  <1> QED BY <1>1, <1>4, <1>5, <1>6, <1>7, <1>8, <1>9 DEF Tables

LEMMA UpdateKnownKeeps ==
  ASSUME Inv, Counters', NEW t \in Tasks, UpdateKnown(t) PROVE Inv'
  <1> DEFINE u == task[t].user
  <1>1. TaskOK(task[t], users, bound) BY DEF Inv, TasksOK
  <1>2. UNCHANGED <<bound, tokens>> /\ task[t].pc = "known" BY DEF UpdateKnown
  <1>3. CASE Refuse(t) /\ UNCHANGED users BY <1>2, <1>3, RefuseReads
  <1>4. CASE /\ Exists(u) /\ Goto(t, "mint")
             /\ users' = IF task[t].issuer = "oidc"
                         THEN [users EXCEPT ![u].email = task[t].email] ELSE users
    <2>1. "mint" \in Steps BY DEF Steps
    <2>2. PICK x \in Task :
            /\ task' = [task EXCEPT ![t] = x]
            /\ x.pc = "mint" /\ x.issuer = task[t].issuer /\ x.account = task[t].account
            /\ x.email = task[t].email /\ x.user = task[t].user
      BY <1>4, <2>1, GotoFields DEF Inv
    <2>3. TaskOK(x, users, bound) BY <1>1, <1>2, <2>2 DEF TaskOK, Resolving, WithUser
    <2>4. CASE users' = users BY <1>2, <2>2, <2>3, <2>4, Reads
    <2>5. CASE users' = [users EXCEPT ![u].email = task[t].email]
      <3> DEFINE r == [users[u] EXCEPT !.email = task[t].email]
      <3>1. u \in UserIds /\ users[u].state = "row" BY <1>4 DEF Exists
      <3>2. users[u] \in UserRow BY <3>1, NoRowState DEF Inv, TypeOK
      <3>3. task[t].email \in Emails BY <1>1, <1>2 DEF TaskOK, Resolving
      <3>4. r \in UserRow /\ r.ext = users[u].ext BY <3>2, <3>3 DEF UserRow
      <3>5. users' = [users EXCEPT ![u] = r] BY <2>5
      <3> HIDE DEF r
      <3>6. /\ users' \in [UserIds -> UserRow \cup {NoRow("absent"), NoRow("gone")}]
            /\ RowsMove /\ RowsStay
        BY <3>1, <3>4, <3>5, RowWritten DEF Inv
      <3>7. Tables' /\ BindingsMove BY <1>2, <3>6, TablesStay
      <3>8. TaskOK(x, users', bound') BY <2>3, <3>6, <3>7, TaskStays DEF Inv
      <3>9. TasksOK' BY <2>2, <3>6, <3>7, <3>8, TasksMove
      <3>10. TypeOK' BY <1>2, <2>2, <3>6 DEF Inv, TypeOK, Counters
      <3> QED BY <3>7, <3>9, <3>10 DEF Inv
    <2> QED BY <1>4, <2>4, <2>5
  <1> QED BY <1>3, <1>4 DEF UpdateKnown

LEMMA LinkKeeps ==
  ASSUME Inv, Counters', NEW t \in Tasks, Link(t) PROVE Inv'
  <1> DEFINE i == task[t].issuer
             a == task[t].account
             u == task[t].user
  <1>1. TaskOK(task[t], users, bound) BY DEF Inv, TasksOK
  <1>2. UNCHANGED <<users, tokens>> /\ task[t].pc = "link" BY DEF Link
  <1>3. CASE Refuse(t) /\ UNCHANGED bound BY <1>2, <1>3, RefuseReads
  <1>4. CASE /\ Exists(u) /\ MayLink(i, a, u) /\ Goto(t, "mint")
             /\ bound' = [bound EXCEPT ![i][a] = u]
    <2>1. "mint" \in Steps BY DEF Steps
    <2>2. PICK x \in Task :
            /\ task' = [task EXCEPT ![t] = x]
            /\ x.pc = "mint" /\ x.issuer = i /\ x.account = a
            /\ x.email = task[t].email /\ x.user = u
      BY <1>4, <2>1, GotoFields DEF Inv
    <2>3. i \in Issuers /\ a \in Accounts /\ u \in UserIds /\ users[u].state = "row"
      BY <1>1, <1>2, <1>4 DEF TaskOK, Resolving, Exists
    <2>4. i = "opsapi" => users[u].ext = a BY <1>1, <1>2, <2>3 DEF TaskOK
    <2>5. RowsStay /\ RowsMove BY <1>2 DEF RowsStay, RowsMove
    <2>6. bound[i][a] = None /\ \A b \in Accounts : bound[i][b] # u BY <1>4 DEF MayLink
    <2>7. bound' = [bound EXCEPT ![i][a] = u] BY <1>4
    <2> HIDE DEF i, a, u
    <2>8. /\ bound' \in [Issuers -> [Accounts -> UserIds \cup {None}]]
          /\ bound'[i][a] = u /\ Tables' /\ BindingsMove
      BY <1>2, <2>3, <2>4, <2>5, <2>6, <2>7, Binds
    <2>9. TaskOK(x, users', bound')
      BY <1>2, <2>2, <2>3, <2>8 DEF TaskOK, Resolving, WithUser
    <2>10. TasksOK' BY <2>2, <2>5, <2>8, <2>9, TasksMove
    <2>11. TypeOK' BY <1>2, <2>2, <2>8 DEF Inv, TypeOK, Counters
    <2> QED BY <2>8, <2>10, <2>11 DEF Inv
  <1> QED BY <1>3, <1>4 DEF Link

\* A new id is nobody's: no request has found it and no account is bound to it.
LEMMA InsertKeeps ==
  ASSUME Inv, Counters', NEW t \in Tasks, Insert(t) PROVE Inv'
  <1> DEFINE i == task[t].issuer
             a == task[t].account
             ext == IF i = "opsapi" THEN a ELSE None
             r == NewRow(task[t].email, ext, TRUE)
  <1>1. TaskOK(task[t], users, bound) BY DEF Inv, TasksOK
  <1>2. UNCHANGED tokens /\ task[t].pc = "insert" BY DEF Insert
  <1>3. i \in Issuers /\ a \in Accounts /\ task[t].email \in Emails
    BY <1>1, <1>2 DEF TaskOK, Resolving
  <1>4. CASE Refuse(t) /\ UNCHANGED <<users, bound>> BY <1>2, <1>4, RefuseReads
  <1>5. ASSUME bound[i][a] = None, NEW u \in UserIds, Fresh(u), users' = [users EXCEPT ![u] = r],
               bound' = [bound EXCEPT ![i][a] = u], Continue(t, "mint", u)
        PROVE  Inv'
    <2>1. "mint" \in Steps BY DEF Steps
    <2>2. PICK x \in Task :
            /\ task' = [task EXCEPT ![t] = x]
            /\ x.pc = "mint" /\ x.issuer = i /\ x.account = a
            /\ x.email = task[t].email /\ x.user = u
      BY <1>5, <2>1, ContinueFields DEF Inv
    <2>3. r \in UserRow /\ r.ext = ext BY <1>3, NewRowFields
    <2>4. users[u].state = "absent" BY <1>5 DEF Fresh
    <2>5. i = "opsapi" => ext = a OBVIOUS
    <2> HIDE DEF r, ext
    <2>6. /\ users' \in [UserIds -> UserRow \cup {NoRow("absent"), NoRow("gone")}]
          /\ RowsMove /\ RowsStay /\ users'[u] = r /\ users'[u].state = "row"
      BY <1>5, <2>3, <2>4, RowWritten DEF Inv
    <2>7. \A b \in Accounts : bound[i][b] # u
      BY <1>3, <2>4, DirectoryAssumption DEF Inv, Tables, BoundIsThere, Exists
    <2>8. /\ bound[i][a] = None /\ bound' = [bound EXCEPT ![i][a] = u]
          /\ i = "opsapi" => users'[u].ext = a
      BY <1>5, <2>3, <2>5, <2>6
    <2> HIDE DEF i, a
    <2>9. /\ bound' \in [Issuers -> [Accounts -> UserIds \cup {None}]]
          /\ bound'[i][a] = u /\ Tables' /\ BindingsMove
      BY <1>2, <1>3, <2>6, <2>7, <2>8, Binds
    <2>10. TaskOK(x, users', bound')
      BY <1>3, <2>2, <2>6, <2>9 DEF TaskOK, Resolving, WithUser
    <2>11. TasksOK' BY <2>2, <2>6, <2>9, <2>10, TasksMove
    <2>12. TypeOK' BY <1>2, <2>2, <2>6, <2>9 DEF Inv, TypeOK, Counters
    <2> QED BY <2>9, <2>11, <2>12 DEF Inv
  <1> QED BY <1>4, <1>5 DEF Insert

LEMMA MintKeeps ==
  ASSUME Inv, Counters', NEW t \in Tasks, Mint(t) PROVE Inv'
  <1> DEFINE k == task[t]
             new == [user |-> k.user, issuer |-> k.issuer, account |-> k.account]
  <1>0. k \in Task BY DEF Inv, TypeOK
  <1>1. TaskOK(k, users, bound) BY DEF Inv, TasksOK
  <1>2. k.pc = "mint" /\ Refuse(t) /\ UNCHANGED <<users, bound>> BY DEF Mint
  <1>3. k.user \in UserIds /\ k.user # None
    BY <1>1, <1>2, DirectoryAssumption DEF TaskOK, WithUser
  <1>4. CASE UNCHANGED tokens BY <1>2, <1>4, RefuseReads
  <1>5. CASE Exists(k.user) /\ tokens' = tokens \cup {new}
    <2>1. /\ new.user = k.user /\ new.issuer = k.issuer /\ new.account = k.account
          /\ k.issuer \in Issuers \cup {"dev"}
          /\ k.issuer # "dev" => k.account \in Accounts
          /\ k.account \in Accounts \cup {None}
      BY <1>0, <1>1, <1>2 DEF TaskOK, Task
    <2>2. new \in [user : UserIds, issuer : Issuers \cup {"dev"}, account : Accounts \cup {None}]
      BY <1>3, <2>1
    <2>3. k.issuer # "dev" => bound[k.issuer][k.account] = k.user
      BY <1>1, <1>2, <1>5 DEF TaskOK, Exists
    <2>4. tokens' = tokens \cup {new} BY <1>5
    <2> HIDE DEF new, k
    <2>5. RowsMove /\ BindingsMove BY <1>2 DEF RowsMove, BindingsMove
    <2>6. TasksOK' BY <1>2, <2>5, IdleIsOK, TasksMove DEF Refuse
    <2>7. TypeOK' BY <1>2, <2>2, <2>4, IdleIsOK DEF Refuse, Inv, TypeOK, Counters
    <2>8. BoundIsThere' /\ OneSubjectPerIssuer' /\ OpsapiLinksById'
      BY <1>2 DEF Inv, Tables, BoundIsThere, Exists, OneSubjectPerIssuer, OpsapiLinksById
    <2>9. TokenShape' BY <2>1, <2>4 DEF Inv, Tables, TokenShape
    <2>10. TokensNameTheirSubject'
      BY <1>2, <2>1, <2>3, <2>4 DEF Inv, Tables, TokensNameTheirSubject
    <2> QED BY <2>6, <2>7, <2>8, <2>9, <2>10 DEF Inv, Tables
  <1> QED BY <1>3, <1>4, <1>5 DEF Mint

LEMMA DevInsertKeeps ==
  ASSUME Inv, Counters', NEW t \in Tasks, DevInsert(t) PROVE Inv'
  <1> DEFINE r == NewRow(task[t].email, None, TRUE)
  <1>1. TaskOK(task[t], users, bound) BY DEF Inv, TasksOK
  <1>2. UNCHANGED <<bound, tokens>> /\ task[t].pc = "devInsert" BY DEF DevInsert
  <1>3. CASE Refuse(t) /\ UNCHANGED users BY <1>2, <1>3, RefuseReads
  <1>4. ASSUME NEW u \in UserIds, Fresh(u), users' = [users EXCEPT ![u] = r],
               Continue(t, "mint", u)
        PROVE  Inv'
    <2>1. "mint" \in Steps /\ task[t].issuer = "dev" /\ task[t].email \in Emails
      BY <1>1, <1>2 DEF Steps, TaskOK
    <2>2. PICK x \in Task :
            /\ task' = [task EXCEPT ![t] = x]
            /\ x.pc = "mint" /\ x.issuer = task[t].issuer /\ x.account = task[t].account
            /\ x.email = task[t].email /\ x.user = u
      BY <1>4, <2>1, ContinueFields DEF Inv
    <2>3. r \in UserRow BY <2>1, NewRowFields
    <2>4. users[u].state = "absent" BY <1>4 DEF Fresh
    <2> HIDE DEF r
    <2>5. /\ users' \in [UserIds -> UserRow \cup {NoRow("absent"), NoRow("gone")}]
          /\ RowsMove /\ RowsStay /\ users'[u].state = "row"
      BY <1>4, <2>3, <2>4, RowWritten DEF Inv
    <2>6. Tables' /\ BindingsMove BY <1>2, <2>5, TablesStay
    <2>7. TaskOK(x, users', bound') BY <2>1, <2>2, <2>5 DEF TaskOK, Resolving, WithUser
    <2>8. TasksOK' BY <2>2, <2>5, <2>6, <2>7, TasksMove
    <2>9. TypeOK' BY <1>2, <2>2, <2>5 DEF Inv, TypeOK, Counters
    <2> QED BY <2>6, <2>8, <2>9 DEF Inv
  <1> QED BY <1>3, <1>4 DEF DevInsert

-----------------------------------------------------------------------------
(* Directories and administrators.                                         *)

\* One row is written, and no request is on its way through this step.
LEMMA RowStep ==
  ASSUME Inv, Counters', NEW u \in UserIds, NEW r \in UserRow, users' = [users EXCEPT ![u] = r],
         users[u].state # "gone",
         users[u].state = "row" /\ users[u].ext # None => r.ext = users[u].ext,
         UNCHANGED <<bound, tokens>>,
         UNCHANGED task \/ \E t \in Tasks : Refuse(t)
  PROVE  Inv'
  <1>1. /\ users' \in [UserIds -> UserRow \cup {NoRow("absent"), NoRow("gone")}]
        /\ RowsMove /\ RowsStay
    BY RowWritten DEF Inv
  <1>2. Tables' /\ BindingsMove BY <1>1, TablesStay
  <1>3. TasksOK' /\ task' \in [Tasks -> Task]
    <2>1. CASE UNCHANGED task BY <1>1, <1>2, <2>1, TasksStay DEF Inv, TypeOK
    <2>2. ASSUME NEW t \in Tasks, Refuse(t) PROVE TasksOK' /\ task' \in [Tasks -> Task]
      BY <1>1, <1>2, <2>2, TasksMove, IdleIsOK DEF Refuse, Inv, TypeOK
    <2> QED BY <2>1, <2>2
  <1>4. TypeOK' BY <1>1, <1>3 DEF Inv, TypeOK, Counters
  <1> QED BY <1>2, <1>3, <1>4 DEF Inv

LEMMA CreateUserKeeps ==
  ASSUME Inv, Counters', NEW e \in Emails, NEW x \in Accounts \cup {None}, NEW active \in BOOLEAN,
         CreateUser(e, x, active)
  PROVE  Inv'
  <1>1. UNCHANGED <<bound, tokens, task>> BY DEF CreateUser
  <1>2. ASSUME NEW u \in UserIds, Fresh(u), users' = [users EXCEPT ![u] = NewRow(e, x, active)]
        PROVE  Inv'
    <2>1. NewRow(e, x, active) \in UserRow BY NewRowFields
    <2>2. users[u].state = "absent" BY <1>2 DEF Fresh
    <2> QED BY <1>1, <1>2, <2>1, <2>2, RowStep
  <1>3. ASSUME NEW u \in WithEmail(e), users[u].ext \in {None, x},
               users' = [users EXCEPT ![u].ext = x]
        PROVE  Inv'
    <2> DEFINE r == [users[u] EXCEPT !.ext = x]
    <2>1. u \in UserIds /\ users[u].state = "row" BY DEF WithEmail, Exists
    <2>2. users[u] \in UserRow BY <2>1, NoRowState DEF Inv, TypeOK
    <2>3. r \in UserRow /\ r.ext = x BY <2>2 DEF UserRow
    <2>4. users' = [users EXCEPT ![u] = r] BY <1>3
    <2> HIDE DEF r
    <2> QED BY <1>1, <1>3, <2>1, <2>3, <2>4, RowStep
  <1> QED BY <1>2, <1>3 DEF CreateUser

LEMMA SetActiveKeeps ==
  ASSUME Inv, Counters', NEW u \in UserIds, NEW active \in BOOLEAN, SetActive(u, active)
  PROVE  Inv'
  <1> DEFINE r == [users[u] EXCEPT !.active = active]
  <1>1. users[u].state = "row" BY DEF SetActive, Exists
  <1>2. users[u] \in UserRow BY <1>1, NoRowState DEF Inv, TypeOK
  <1>3. r \in UserRow /\ r.ext = users[u].ext BY <1>2 DEF UserRow
  <1>4. users' = [users EXCEPT ![u] = r] /\ UNCHANGED <<bound, tokens, task>> BY DEF SetActive
  <1> HIDE DEF r
  <1> QED BY <1>1, <1>3, <1>4, RowStep

\* DELETE FROM users takes the bindings and the tokens along.
LEMMA DeleteKeeps ==
  ASSUME Inv, Counters', NEW u \in UserIds, Exists(u), Delete(u),
         UNCHANGED task \/ \E t \in Tasks : Refuse(t)
  PROVE  Inv'
  <1>1. /\ users' = [users EXCEPT ![u] = NoRow("gone")]
        /\ users' \in [UserIds -> UserRow \cup {NoRow("absent"), NoRow("gone")}]
        /\ users'[u].state = "gone" /\ \A v \in UserIds \ {u} : users'[v] = users[v]
    BY NoRowState DEF Delete, Inv, TypeOK
  <1>2. /\ bound' \in [Issuers -> [Accounts -> UserIds \cup {None}]]
        /\ \A i \in Issuers : \A a \in Accounts :
             bound'[i][a] = IF bound[i][a] = u THEN None ELSE bound[i][a]
    BY DEF Delete, Inv, TypeOK
  <1>3. tokens' = {k \in tokens : k.user # u} BY DEF Delete
  <1>4. RowsMove BY <1>1 DEF RowsMove, Exists
  <1>5. BindingsMove BY <1>1, <1>2 DEF BindingsMove
  <1>6. BoundIsThere' BY <1>1, <1>2 DEF Inv, Tables, BoundIsThere, Exists
  <1>7. TokenShape' BY <1>3 DEF Inv, Tables, TokenShape
  <1>8. TokensNameTheirSubject'
    <2> SUFFICES ASSUME NEW k \in tokens, k.user # u, k.issuer # "dev"
                 PROVE  bound'[k.issuer][k.account] = k.user
      BY <1>3 DEF TokensNameTheirSubject
    <2>1. k.issuer \in Issuers /\ k.account \in Accounts BY DEF Inv, TypeOK, Tables, TokenShape
    <2>2. bound[k.issuer][k.account] = k.user BY DEF Inv, Tables, TokensNameTheirSubject
    <2> QED BY <1>2, <2>1, <2>2
  <1>9. OneSubjectPerIssuer' BY <1>2 DEF Inv, Tables, OneSubjectPerIssuer
  <1>10. OpsapiLinksById'
    <2> SUFFICES ASSUME NEW a \in Accounts, bound'["opsapi"][a] # None
                 PROVE  users'[bound'["opsapi"][a]].ext = a
      BY DEF OpsapiLinksById
    <2> DEFINE v == bound["opsapi"][a]
    <2>1. bound'["opsapi"][a] = v /\ v # u /\ v # None BY <1>2 DEF Issuers
    <2>2. v \in UserIds BY <2>1 DEF Inv, TypeOK, Issuers
    <2>3. users[v].ext = a BY <2>1 DEF Inv, Tables, OpsapiLinksById
    <2> QED BY <1>1, <2>1, <2>2, <2>3
  <1>11. TasksOK' /\ task' \in [Tasks -> Task]
    <2>1. CASE UNCHANGED task BY <1>4, <1>5, <2>1, TasksStay DEF Inv, TypeOK
    <2>2. ASSUME NEW t \in Tasks, Refuse(t) PROVE TasksOK' /\ task' \in [Tasks -> Task]
      BY <1>4, <1>5, <2>2, TasksMove, IdleIsOK DEF Refuse, Inv, TypeOK
    <2> QED BY <2>1, <2>2
  <1>12. TypeOK' BY <1>1, <1>2, <1>3, <1>11 DEF Inv, TypeOK, Counters
  <1> QED BY <1>6, <1>7, <1>8, <1>9, <1>10, <1>11, <1>12 DEF Inv, Tables

LEMMA AdminChangeKeeps ==
  ASSUME Inv, Counters', NEW t \in Tasks, AdminChange(t) PROVE Inv'
  <1> DEFINE u == task[t].user
             change == task[t].change
  <1>1. Refuse(t) BY DEF AdminChange
  <1>2. CASE UNCHANGED <<users, bound, tokens>> BY <1>1, <1>2, RefuseReads
  <1>3. CASE Exists(u) /\ Delete(u) BY <1>1, <1>3, DeleteKeeps DEF Exists
  <1>4. CASE /\ Exists(u) /\ UNCHANGED <<bound, tokens>>
             /\ users' = [users EXCEPT
                            ![u].admin = (@ \/ change = "promote") /\ change # "demote",
                            ![u].active = (@ \/ change = "enable") /\ change # "disable"]
    <2> DEFINE admin == (users[u].admin \/ change = "promote") /\ change # "demote"
               active == (users[u].active \/ change = "enable") /\ change # "disable"
               r == [users[u] EXCEPT !.admin = admin, !.active = active]
    <2>1. u \in UserIds /\ users[u].state = "row" BY <1>4 DEF Exists
    <2>2. users[u] \in UserRow BY <2>1, NoRowState DEF Inv, TypeOK
    <2>3. users' = [users EXCEPT ![u] = r] BY <1>4, <2>1 DEF Inv, TypeOK
    <2>4. admin \in BOOLEAN /\ active \in BOOLEAN OBVIOUS
    <2> HIDE DEF admin, active
    <2>5. r \in UserRow /\ r.ext = users[u].ext BY <2>2, <2>4 DEF UserRow
    <2> HIDE DEF r
    <2> QED BY <1>1, <1>4, <2>1, <2>3, <2>5, RowStep
  <1> QED BY <1>1, <1>2, <1>3, <1>4 DEF AdminChange

-----------------------------------------------------------------------------
LEMMA InvNext == Inv /\ [Next]_vars => Inv'
  <1> SUFFICES ASSUME Inv, [Next]_vars PROVE Inv' OBVIOUS
  <1>1. CASE UNCHANGED vars
    BY <1>1 DEF vars, Inv, TypeOK, TasksOK, Tables, BoundIsThere, Exists, TokenShape,
       TokensNameTheirSubject, OneSubjectPerIssuer, OpsapiLinksById
  <1>2. CASE Next
    <2>0. Counters' BY <1>2, CountersNext DEF Inv
    <2>1. ASSUME NEW t \in Tasks, SignInStep(t) PROVE Inv'
      <3>1. ASSUME NEW a \in Accounts, NEW e \in Emails, StartOidc(t, a, e) PROVE Inv'
        BY <2>0, <3>1, BeginKeeps DEF StartOidc, Issuers
      <3>2. ASSUME NEW a \in Accounts, NEW e \in Emails, StartOpsapi(t, a, e) PROVE Inv'
        BY <2>0, <3>2, BeginKeeps DEF StartOpsapi, Issuers
      <3>3. ASSUME NEW e \in Emails, StartDev(t, e) PROVE Inv'
        BY <2>0, <3>3, BeginKeeps DEF StartDev
      <3> QED
        BY <2>0, <2>1, <3>1, <3>2, <3>3, LookupKeeps, FindBoundKeeps, UpdateKnownKeeps,
           ByEmailKeeps, AlreadyKeeps, ByExternalIdKeeps, TakenKeeps, LinkKeeps, InsertKeeps,
           MintKeeps, DevFindKeeps, DevInsertKeeps
        DEF SignInStep
    <2>2. ASSUME NEW t \in Tasks, AdminStep(t) PROVE Inv'
      BY <2>0, <2>2, StartAdminKeeps, AdminChangeKeeps DEF AdminStep
    <2>3. CASE DirectoryStep
      <3>1. ASSUME NEW u \in UserIds, DeleteUser(u) PROVE Inv'
        BY <2>0, <3>1, DeleteKeeps DEF DeleteUser
      <3> QED BY <2>0, <2>3, <3>1, CreateUserKeeps, SetActiveKeeps DEF DirectoryStep
    <2> QED BY <1>2, <2>1, <2>2, <2>3 DEF Next
  <1> QED BY <1>1, <1>2

LEMMA Invariance == Spec => []Inv
  BY InvInit, InvNext, PTL DEF Spec

-----------------------------------------------------------------------------
(* What follows.                                                           *)

\* Every table and every request keeps its shape; in particular no token is
\* minted without a user (mint_access_token's user_id).
THEOREM TypeCorrect == Spec => []TypeOK
  <1>1. Inv => TypeOK BY DEF Inv
  <1> QED BY <1>1, Invariance, PTL

\* For any number of sign-ins, directories and administrators at work at once: a
\* token that can be used names the user its account is bound to (resolve_user).
THEOREM BindingIsAuthoritative == Spec => []TokensNameTheirSubject
  <1>1. Inv => TokensNameTheirSubject BY DEF Inv, Tables
  <1> QED BY <1>1, Invariance, PTL

\* resolve_user never links a second subject of an issuer to a user, although it
\* checks in one statement and inserts in another.
THEOREM NeverRelinked == Spec => []OneSubjectPerIssuer
  <1>1. Inv => OneSubjectPerIssuer BY DEF Inv, Tables
  <1> QED BY <1>1, Invariance, PTL

\* An OpsAPI account is bound to the user with its uuid and to no other, at any
\* later moment too: the uuid of a user is never replaced (opsapi::exchange,
\* UserService::create).
THEOREM AddressNeverLinks == Spec => []OpsapiLinksById
  <1>1. Inv => OpsapiLinksById BY DEF Inv, Tables
  <1> QED BY <1>1, Invariance, PTL
=============================================================================
