------------------------------ MODULE Directory ------------------------------
(***************************************************************************)
(* Who is who: the users table, the bindings of identity provider accounts *)
(* to users (oidc_identities), and everything that writes them. Directories *)
(* provision users (SCIM, the ops API), administrators change them, and    *)
(* people sign in through OpenID Connect, OpsAPI or the local dev login.   *)
(*                                                                         *)
(* resolve_user is a transaction at READ COMMITTED: each SELECT is a step  *)
(* and sees what is committed by then. Its writes are invisible until the  *)
(* commit and rows they conflict with wait for it, so the writes, the check *)
(* of users.active and the commit are one step, with the unique indexes    *)
(* and foreign keys checked in it.                                         *)
(*                                                                         *)
(* Simplifications: an account is an OpenID Connect subject or an OpsAPI   *)
(* uuid, depending on the issuer; the external ids of users are accounts.  *)
(* Tokens do not expire here, and service tokens are valid. A DELETE of a  *)
(* user is refused while the audit log names them (AuditChain); here any   *)
(* DELETE may be.                                                          *)
(***************************************************************************)
EXTENDS Integers, FiniteSets

CONSTANTS
  UserIds,        \* ids the database may generate, in this order
  Addresses,      \* email addresses, whatever their case
  Capital,        \* addresses that are also written with capitals
  Accounts,       \* accounts at the identity providers
  Admins,         \* the administrators of the bootstrap
  Jit,            \* identity.admission.provisioning is jit, not directory
  DevLogin,       \* identity.dev_login_enabled on a loopback address
  Tasks,          \* requests in progress
  None,           \* no user, no account
  MaxSignIns,     \* bound on the sign-ins that begin
  MaxRequests     \* bound on the requests of directories and administrators

ASSUME DirectoryAssumption ==
  /\ UserIds \subseteq Nat /\ Admins \subseteq UserIds
  /\ Capital \subseteq Addresses
  /\ Jit \in BOOLEAN /\ DevLogin \in BOOLEAN
  /\ None \notin UserIds \cup Accounts
  /\ MaxSignIns \in Nat /\ MaxRequests \in Nat

VARIABLES
  users,      \* the row of each id
  bound,      \* oidc_identities: the user of each account, per issuer
  tokens,     \* access_tokens, with the sign-in each one came from
  task,       \* the requests in progress
  signIns,    \* how many sign-ins have begun
  requests    \* how many other requests have been made

vars == <<users, bound, tokens, task, signIns, requests>>

Issuers == {"oidc", "opsapi"}

\* An address and whether it is written with capitals.
Emails == (Addresses \X {FALSE}) \cup (Capital \X {TRUE})
Lower(e) == <<e[1], FALSE>>

NoEmail == <<None, FALSE>>
NoRow(state) ==
  [state |-> state, email |-> NoEmail, ext |-> None, active |-> FALSE, admin |-> FALSE]
NewRow(e, x, active) ==
  [state |-> "row", email |-> e, ext |-> x, active |-> active, admin |-> FALSE]

Idle == [pc |-> "idle", issuer |-> "none", account |-> None, email |-> NoEmail,
         user |-> None, change |-> "none"]

\* The bootstrap has made its administrators, with different addresses.
Init ==
  /\ \E email \in [Admins -> Addresses] :
       /\ \A u, v \in Admins : email[u] = email[v] => u = v
       /\ users = [u \in UserIds |->
                     IF u \in Admins
                     THEN [NewRow(<<email[u], FALSE>>, None, TRUE) EXCEPT !.admin = TRUE]
                     ELSE NoRow("absent")]
  /\ bound = [i \in Issuers |-> [a \in Accounts |-> None]]
  /\ tokens = {}
  /\ task = [t \in Tasks |-> Idle]
  /\ signIns = 0
  /\ requests = 0

Exists(u) == u \in UserIds /\ users[u].state = "row"
WithEmail(e) == {u \in UserIds : Exists(u) /\ users[u].email = e}
WithExternalId(x) == {u \in UserIds : Exists(u) /\ users[u].ext = x}

\* gen_random_uuid(): an id that has never been used.
Fresh(u) ==
  /\ users[u].state = "absent"
  /\ \A v \in UserIds : users[v].state = "absent" => u <= v

Goto(t, pc) == task' = [task EXCEPT ![t].pc = pc]
Continue(t, pc, u) == task' = [task EXCEPT ![t].pc = pc, ![t].user = u]
Refuse(t) == task' = [task EXCEPT ![t] = Idle]

-----------------------------------------------------------------------------
(* Signing in.                                                             *)

BeginSignIn(t, issuer, pc, a, e) ==
  /\ task[t] = Idle
  /\ signIns < MaxSignIns
  /\ signIns' = signIns + 1
  /\ task' = [task EXCEPT ![t] = [Idle EXCEPT !.pc = pc, !.issuer = issuer,
                                              !.account = a, !.email = Lower(e)]]
  /\ UNCHANGED <<users, bound, tokens, requests>>

\* callback() has verified an id_token of an account inside the allowed hosted
\* domains; any other is refused before the database is touched. The provider
\* may have given any address to the subject since its last sign-in.
StartOidc(t, a, e) == BeginSignIn(t, "oidc", "bound", a, e)

\* opsapi::exchange: /auth/me says whose session the token is, and that the
\* person is an active member of the workspace.
StartOpsapi(t, a, e) == BeginSignIn(t, "opsapi", "lookup", a, e)

\* directory_lookup: OpsAPI's SCIM confirms the person, with the same address.
Lookup(t) ==
  /\ task[t].pc = "lookup"
  /\ Goto(t, "bound") \/ Refuse(t)
  /\ UNCHANGED <<users, bound, tokens, signIns, requests>>

\* SELECT user_id FROM oidc_identities WHERE issuer = $1 AND subject = $2
FindBound(t) ==
  LET u == bound[task[t].issuer][task[t].account] IN
  /\ task[t].pc = "bound"
  /\ IF u # None THEN Continue(t, "known", u)
     ELSE Goto(t, IF task[t].issuer = "oidc" THEN "byEmail" ELSE "byExt")
  /\ UNCHANGED <<users, bound, tokens, signIns, requests>>

\* A known subject: an OpenID Connect sign-in carries its address over to the
\* user, unless another one has it. The user must be active.
UpdateKnown(t) ==
  LET u == task[t].user
      moves == task[t].issuer = "oidc" IN
  /\ task[t].pc = "known"
  /\ IF Exists(u) /\ users[u].active
        /\ (moves => WithEmail(task[t].email) \subseteq {u})
     THEN /\ Goto(t, "mint")
          /\ users' = IF moves THEN [users EXCEPT ![u].email = task[t].email] ELSE users
     ELSE Refuse(t) /\ UNCHANGED users
  /\ UNCHANGED <<bound, tokens, signIns, requests>>

\* SELECT id, active FROM users WHERE email = $1, and what the admission policy
\* says about somebody who is not there.
ByEmail(t) ==
  LET found == WithEmail(task[t].email) IN
  /\ task[t].pc = "byEmail"
  /\ \/ \E u \in found : Continue(t, "already", u)
     \/ found = {} /\ IF Jit THEN Goto(t, "insert") ELSE Refuse(t)
  /\ UNCHANGED <<users, bound, tokens, signIns, requests>>

\* SELECT subject FROM oidc_identities WHERE issuer = $1 AND user_id = $2: a
\* second subject is not attached to one user.
Already(t) ==
  /\ task[t].pc = "already"
  /\ IF \E a \in Accounts : bound[task[t].issuer][a] = task[t].user
     THEN Refuse(t) ELSE Goto(t, "link")
  /\ UNCHANGED <<users, bound, tokens, signIns, requests>>

\* The user OpsAPI provisioned under this uuid.
ByExternalId(t) ==
  LET found == WithExternalId(task[t].account) IN
  /\ task[t].pc = "byExt"
  /\ \/ \E u \in found : Continue(t, "link", u)
     \/ found = {} /\ Goto(t, "taken")
  /\ UNCHANGED <<users, bound, tokens, signIns, requests>>

\* Mutant: an OpsAPI account is linked to the user with its address.
TakenLinks(t) ==
  LET found == {u \in UserIds : Exists(u) /\ Lower(users[u].email) = task[t].email} IN
  /\ task[t].pc = "taken"
  /\ \/ \E u \in found : Continue(t, "link", u)
     \/ found = {} /\ IF Jit THEN Goto(t, "insert") ELSE Refuse(t)
  /\ UNCHANGED <<users, bound, tokens, signIns, requests>>

\* SELECT id FROM users WHERE lower(email) = $1: an address alone never links.
Taken(t) ==
  /\ task[t].pc = "taken"
  /\ IF Jit /\ \A u \in UserIds : Exists(u) => Lower(users[u].email) # task[t].email
     THEN Goto(t, "insert") ELSE Refuse(t)
  /\ UNCHANGED <<users, bound, tokens, signIns, requests>>

\* The primary key of oidc_identities and its index on (issuer, user_id).
MayLink(issuer, a, u) ==
  /\ bound[issuer][a] = None
  /\ \A b \in Accounts : bound[issuer][b] # u

\* Mutant: there is no unique index on (issuer, user_id).
LinkTwice(t) ==
  LET k == task[t] IN
  /\ k.pc = "link"
  /\ IF Exists(k.user) /\ users[k.user].active /\ bound[k.issuer][k.account] = None
     THEN Goto(t, "mint") /\ bound' = [bound EXCEPT ![k.issuer][k.account] = k.user]
     ELSE Refuse(t) /\ UNCHANGED bound
  /\ UNCHANGED <<users, tokens, signIns, requests>>

\* Mutant: the binding is upserted.
LinkUpserts(t) ==
  LET k == task[t] IN
  /\ k.pc = "link"
  /\ IF /\ Exists(k.user) /\ users[k.user].active
        /\ \A b \in Accounts \ {k.account} : bound[k.issuer][b] # k.user
     THEN Goto(t, "mint") /\ bound' = [bound EXCEPT ![k.issuer][k.account] = k.user]
     ELSE Refuse(t) /\ UNCHANGED bound
  /\ UNCHANGED <<users, tokens, signIns, requests>>

\* link(), the check of users.active, and the commit. A deactivated user, a
\* deleted one, or somebody else's binding ends the sign-in.
Link(t) ==
  LET k == task[t] IN
  /\ k.pc = "link"
  /\ IF Exists(k.user) /\ users[k.user].active /\ MayLink(k.issuer, k.account, k.user)
     THEN Goto(t, "mint") /\ bound' = [bound EXCEPT ![k.issuer][k.account] = k.user]
     ELSE Refuse(t) /\ UNCHANGED bound
  /\ UNCHANGED <<users, tokens, signIns, requests>>

\* A new user, under the unique indexes of users, and its binding.
Insert(t) ==
  LET k == task[t]
      ext == IF k.issuer = "opsapi" THEN k.account ELSE None IN
  /\ k.pc = "insert"
  /\ IF /\ WithEmail(k.email) = {}
        /\ ext # None => WithExternalId(ext) = {}
        /\ bound[k.issuer][k.account] = None
     THEN \E u \in UserIds :
            /\ Fresh(u)
            /\ users' = [users EXCEPT ![u] = NewRow(k.email, ext, TRUE)]
            /\ bound' = [bound EXCEPT ![k.issuer][k.account] = u]
            /\ Continue(t, "mint", u)
     ELSE Refuse(t) /\ UNCHANGED <<users, bound>>
  /\ UNCHANGED <<tokens, signIns, requests>>

\* mint_access_token, which needs the user to be there still.
Mint(t) ==
  LET k == task[t] IN
  /\ k.pc = "mint"
  /\ tokens' = IF k.user # None /\ ~Exists(k.user) THEN tokens
               ELSE tokens \cup {[user |-> k.user, issuer |-> k.issuer, account |-> k.account]}
  /\ Refuse(t)
  /\ UNCHANGED <<users, bound, signIns, requests>>

\* dev_login: no provider and no account, only an address.
StartDev(t, e) == DevLogin /\ BeginSignIn(t, "dev", "devFind", None, e)

DevFind(t) ==
  LET found == WithEmail(task[t].email) IN
  /\ task[t].pc = "devFind"
  /\ \/ \E u \in found : IF users[u].active THEN Continue(t, "mint", u) ELSE Refuse(t)
     \/ found = {} /\ Goto(t, "devInsert")
  /\ UNCHANGED <<users, bound, tokens, signIns, requests>>

DevInsert(t) ==
  /\ task[t].pc = "devInsert"
  /\ IF WithEmail(task[t].email) = {}
     THEN \E u \in UserIds :
            /\ Fresh(u)
            /\ users' = [users EXCEPT ![u] = NewRow(task[t].email, None, TRUE)]
            /\ Continue(t, "mint", u)
     ELSE Refuse(t) /\ UNCHANGED users
  /\ UNCHANGED <<bound, tokens, signIns, requests>>

-----------------------------------------------------------------------------
(* Directories: SCIM and the ops API, each call one statement.             *)

Request == requests < MaxRequests /\ requests' = requests + 1

\* UserService::create: a new user, or the external id of one that has none.
\* The address is stored as it is given.
CreateUser(e, x, active) ==
  /\ Request
  /\ x # None => WithExternalId(x) \subseteq WithEmail(e)
  /\ \/ /\ WithEmail(e) = {}
        /\ \E u \in UserIds : /\ Fresh(u)
                              /\ users' = [users EXCEPT ![u] = NewRow(e, x, active)]
     \/ /\ x # None
        /\ \E u \in WithEmail(e) : /\ users[u].ext \in {None, x}
                                   /\ users' = [users EXCEPT ![u].ext = x]
  /\ UNCHANGED <<bound, tokens, task, signIns>>

\* replace_user, patch_user, disable_user and enable_user; the sessions of a
\* disabled user are revoked in Sessions.
SetActive(u, active) ==
  /\ Request /\ Exists(u)
  /\ users' = [users EXCEPT ![u].active = active]
  /\ UNCHANGED <<bound, tokens, task, signIns>>

\* DELETE FROM users, with what refers to the row.
Delete(u) ==
  /\ users' = [users EXCEPT ![u] = NoRow("gone")]
  /\ bound' = [i \in Issuers |-> [a \in Accounts |->
                 IF bound[i][a] = u THEN None ELSE bound[i][a]]]
  /\ tokens' = {k \in tokens : k.user # u}

DeleteUser(u) ==
  /\ Request /\ Exists(u)
  /\ Delete(u)
  /\ UNCHANGED <<task, signIns>>

-----------------------------------------------------------------------------
(* Administrators: the role is read with the request's token, and the      *)
(* change is made later.                                                   *)

Changes == {"promote", "demote", "enable", "disable", "delete"}

\* AdminUser, and the refusal of the changes an administrator may not make to
\* the own account.
StartAdmin(t, caller, u, change) ==
  /\ task[t] = Idle
  /\ Request
  /\ Exists(caller) /\ users[caller].active /\ users[caller].admin
  /\ Exists(u)
  /\ u = caller => change \notin {"demote", "disable", "delete"}
  /\ task' = [task EXCEPT ![t] = [Idle EXCEPT !.pc = "admin", !.user = u, !.change = change]]
  /\ UNCHANGED <<users, bound, tokens, signIns>>

AdminChange(t) ==
  LET u == task[t].user
      change == task[t].change IN
  /\ task[t].pc = "admin"
  /\ Refuse(t)
  /\ IF ~Exists(u) THEN UNCHANGED <<users, bound, tokens>>
     ELSE IF change = "delete" THEN Delete(u) \/ UNCHANGED <<users, bound, tokens>>
     ELSE /\ users' = [users EXCEPT
                         ![u].admin = (@ \/ change = "promote") /\ change # "demote",
                         ![u].active = (@ \/ change = "enable") /\ change # "disable"]
          /\ UNCHANGED <<bound, tokens>>
  /\ UNCHANGED <<signIns, requests>>

-----------------------------------------------------------------------------
SignInStep(t) ==
  \/ \E a \in Accounts, e \in Emails : StartOidc(t, a, e) \/ StartOpsapi(t, a, e)
  \/ \E e \in Emails : StartDev(t, e)
  \/ Lookup(t) \/ FindBound(t) \/ UpdateKnown(t)
  \/ ByEmail(t) \/ Already(t) \/ ByExternalId(t) \/ Taken(t)
  \/ Link(t) \/ Insert(t) \/ Mint(t)
  \/ DevFind(t) \/ DevInsert(t)

DirectoryStep ==
  \/ \E e \in Emails, x \in Accounts \cup {None}, active \in BOOLEAN : CreateUser(e, x, active)
  \/ \E u \in UserIds : DeleteUser(u) \/ \E active \in BOOLEAN : SetActive(u, active)

AdminStep(t) ==
  \/ \E caller, u \in UserIds, change \in Changes : StartAdmin(t, caller, u, change)
  \/ AdminChange(t)

Next ==
  \/ \E t \in Tasks : SignInStep(t) \/ AdminStep(t)
  \/ DirectoryStep

Spec == Init /\ [][Next]_vars

-----------------------------------------------------------------------------
UserRow ==
  [state : {"row"}, email : Emails, ext : Accounts \cup {None}, active : BOOLEAN, admin : BOOLEAN]

Steps ==
  {"idle", "lookup", "bound", "known", "byEmail", "already", "byExt", "taken", "link",
   "insert", "mint", "devFind", "devInsert", "admin"}

Task ==
  [pc : Steps, issuer : Issuers \cup {"dev", "none"}, account : Accounts \cup {None},
   email : Emails \cup {NoEmail}, user : UserIds \cup {None}, change : Changes \cup {"none"}]

\* Types of the tables and of what a request remembers.
TypeOK ==
  /\ users \in [UserIds -> UserRow \cup {NoRow("absent"), NoRow("gone")}]
  /\ bound \in [Issuers -> [Accounts -> UserIds \cup {None}]]
  /\ tokens \subseteq [user : UserIds, issuer : Issuers \cup {"dev"},
                       account : Accounts \cup {None}]
  /\ task \in [Tasks -> Task]
  /\ signIns \in 0..MaxSignIns /\ requests \in 0..MaxRequests

\* A token from a sign-in with a provider is for the user the account is bound
\* to, as long as it can be used: whatever addresses move between accounts and
\* whoever signs in at the same time, no account ends up with another one's
\* user, or with two (resolve_user: the binding is authoritative).
TokensNameTheirSubject ==
  \A k \in tokens : k.issuer # "dev" => bound[k.issuer][k.account] = k.user

\* No user is reached by two accounts of one issuer, although the check for it
\* and the insert are two statements (resolve_user: never re-linked to a second
\* subject).
OneSubjectPerIssuer ==
  \A i \in Issuers : \A a, b \in Accounts :
    bound[i][a] = bound[i][b] /\ a # b => bound[i][a] = None

\* An OpsAPI account reaches only the user that OpsAPI provisioned under its
\* uuid, or that was created for it: an address never links (auth/opsapi.rs).
OpsapiLinksById ==
  \A a \in Accounts : LET u == bound["opsapi"][a] IN u # None => users[u].ext = a

=============================================================================
