---------------------------- MODULE SignInProofs ----------------------------
(***************************************************************************)
(* SignIn for any number of clients, ports, handshakes and people. The     *)
(* inductive invariant says how far each handshake has come: its row, the  *)
(* handler that took it, the code that ended it and the token are there    *)
(* one after the other and never together (Progress), what is known of the *)
(* person is passed on unchanged (PersonIsPassedOn), and a client that is  *)
(* about to get a token, or has it, has used up a code of its own          *)
(* (MintingIsOwn, SignedInByOwnCode). The second part is about Gate.       *)
(***************************************************************************)
EXTENDS SignIn, Gate, FiniteSetTheorems, TLAPS

Progress ==
  \A s \in States :
    /\ row[s].status # "gone" =>
         handler[s].pc = "none" /\ code[s].status = "none" /\ minted[s] = 0
    /\ handler[s].pc # "none" => code[s].status = "none" /\ minted[s] = 0
    /\ code[s].status \in {"live", "expired"} => minted[s] = 0
    /\ minted[s] <= 1

PersonIsPassedOn ==
  \A s \in States :
    /\ handler[s].pc \in {"verify", "resolve", "answer"} =>
         handler[s].person = account[s] /\ account[s] # None
    /\ code[s].status # "none" =>
         /\ code[s].challenge = row[s].challenge
         /\ code[s].person = account[s] /\ account[s] # None

MintingIsOwn ==
  \A c \in Clients :
    /\ client[c].pc \in {"idle", "waiting", "password", "challenge", "opsapi"} =>
         client[c].code = None
    /\ client[c].pc \in {"redeem", "minting"} => client[c].code \in States
    /\ client[c].pc = "minting" =>
         LET k == client[c].code
         IN  /\ code[k].status = "gone" /\ minted[k] = 0
             /\ code[k].challenge = Challenge(c)

\* The handler of a provider's code is one whose person has signed in.
CodesAreApproved ==
  \A s \in States : handler[s].pc = "provider" =>
    handler[s].code \in States /\ account[handler[s].code] # None

SignedInByOwnCode ==
  \A c \in Clients : client[c].pc = "signedIn" /\ client[c].code # None =>
    LET k == client[c].code
    IN  /\ k \in States /\ code[k].status # "none"
        /\ code[k].challenge = Challenge(c) /\ code[k].person = client[c].person

Inv == /\ TypeOK /\ Progress /\ PersonIsPassedOn /\ MintingIsOwn /\ CodesAreApproved
       /\ SignedInByOwnCode

-----------------------------------------------------------------------------
(* Types.                                                                  *)

LEMMA TypeInit == Init => TypeOK
  <1>1. NoClient \in Client BY DEF NoClient, Client
  <1>2. NoRow \in Row BY DEF NoRow, Row
  <1>3. NoHandler \in Handler BY DEF NoHandler, Handler
  <1>4. NoCode \in Code BY DEF NoCode, Code
  <1> QED BY <1>1, <1>2, <1>3, <1>4 DEF Init, TypeOK

Pcs == {"idle", "waiting", "redeem", "minting", "password", "challenge", "opsapi"} \cup Ended

LEMMA StepType ==
  ASSUME TypeOK, NEW c \in Clients, NEW pc \in Pcs, Step(c, pc)
  PROVE  client' \in [Clients -> Client]
  BY DEF TypeOK, Step, Client, Pcs

LEMMA TypeNext ==
  ASSUME TypeOK, MintingIsOwn, [Next]_vars
  PROVE  TypeOK'
  <1>1. ASSUME NEW c \in Clients, ClientStep(c) PROVE TypeOK'
    <2> USE DEF TypeOK, Pcs, Ended
    <2>1. CASE PreflightFails(c) BY <2>1, StepType DEF PreflightFails
    <2>2. CASE StartBrowser(c)
      <3>1. PICK p \in Ports : client' = [client EXCEPT ![c].pc = "waiting", ![c].port = p]
        BY <2>2 DEF StartBrowser
      <3>2. [client[c] EXCEPT !.pc = "waiting", !.port = p] \in Client BY DEF Client
      <3>3. client' = [client EXCEPT ![c] = [client[c] EXCEPT !.pc = "waiting", !.port = p]]
        BY <3>1
      <3> QED BY <2>2, <3>2, <3>3 DEF StartBrowser
    <2>3. CASE StartPassword(c) BY <2>3, StepType DEF StartPassword
    <2>4. ASSUME NEW m \in tab, Receive(c, m) PROVE TypeOK'
      BY <2>4, StepType DEF Receive, Client
    <2>5. CASE Timeout(c) BY <2>5, StepType DEF Timeout
    <2>6. CASE ClientFails(c) BY <2>6, StepType DEF ClientFails
    <2>7. CASE Exchange(c)
      <3> DEFINE k == client[c].code
      <3>1. code' \in [States -> Code]
        <4>1. k \in States BY <2>7 DEF Exchange, MintingIsOwn
        <4>2. \A x \in {"gone", code[k].status} : [code[k] EXCEPT !.status = x] \in Code
          BY <4>1 DEF Code
        <4> QED BY <2>7, <4>1, <4>2 DEF Exchange
      <3> QED BY <2>7, <3>1, StepType DEF Exchange
    <2>8. CASE MintForClient(c)
      <3>0. client[c].code \in States BY <2>8 DEF MintForClient, MintingIsOwn
      <3>1. minted' \in [States -> Nat] BY <2>8, <3>0 DEF MintForClient
      <3>2. client' \in [Clients -> Client]
        <4>1. CASE Step(c, "failed") BY <4>1, StepType
        <4>2. CASE client' = [client EXCEPT ![c].pc = "signedIn",
                                            ![c].person = code[client[c].code].person]
          <5> DEFINE q == code[client[c].code].person
          <5>1. q \in People \cup {None} BY <3>0 DEF Code
          <5>2. client' = [client EXCEPT ![c] = [client[c] EXCEPT !.pc = "signedIn", !.person = q]]
            BY <4>2
          <5> HIDE DEF q
          <5>3. [client[c] EXCEPT !.pc = "signedIn", !.person = q] \in Client
            BY <5>1 DEF Client
          <5> QED BY <5>2, <5>3
        <4> QED BY <2>8, <4>1, <4>2 DEF MintForClient
      <3> QED BY <2>8, <3>1, <3>2 DEF MintForClient
    <2>9. CASE Begin(c) BY <2>9, StepType DEF Begin
    <2>10. CASE VerifyCode(c) BY <2>10, StepType DEF VerifyCode
    <2>11. CASE OpsapiExchange(c) BY <2>11, StepType DEF OpsapiExchange
    <2> QED
      BY <1>1, <2>1, <2>2, <2>3, <2>4, <2>5, <2>6, <2>7, <2>8, <2>9, <2>10, <2>11
      DEF ClientStep
  <1>2. ASSUME NEW s \in States, HandlerStep(s) PROVE TypeOK'
    <2> USE DEF TypeOK
    <2>0. NoHandler \in Handler BY DEF NoHandler, Handler
    <2>1. CASE TokenEndpoint(s) BY <2>0, <2>1 DEF TokenEndpoint, EndHandler, Handler
    <2>2. CASE Verify(s) BY <2>2 DEF Verify, Handler
    <2>3. CASE Resolve(s)
      <3>1. handler' \in [States -> Handler] BY <2>0, <2>3 DEF Resolve, EndHandler, Handler
      <3>2. row[s].port # None => row[s].port \in Ports BY DEF Row
      <3>3. tab' \subseteq [port : Ports, state : States, answer : {"code", "error"}]
        BY <2>3, <3>2 DEF Resolve, Redirect
      <3> QED BY <2>3, <3>1, <3>3 DEF Resolve
    <2>4. CASE Answer(s)
      <3>1. handler' \in [States -> Handler] BY <2>0, <2>4 DEF Answer, EndHandler
      <3>2. row[s].port # None => row[s].port \in Ports BY DEF Row
      <3>3. tab' \subseteq [port : Ports, state : States, answer : {"code", "error"}]
        BY <2>4, <3>2 DEF Answer, Redirect
      <3>4. [status |-> "live", challenge |-> row[s].challenge,
             person |-> handler[s].person] \in Code
        BY DEF Row, Handler, Code
      <3>5. code' \in [States -> Code] BY <2>4, <3>4 DEF Answer
      <3>6. minted' \in [States -> Nat] BY <2>4 DEF Answer
      <3> QED BY <2>4, <3>1, <3>3, <3>5, <3>6 DEF Answer
    <2>5. CASE HandlerFails(s) BY <2>0, <2>5 DEF HandlerFails, EndHandler
    <2> QED BY <1>2, <2>1, <2>2, <2>3, <2>4, <2>5 DEF HandlerStep
  <1>3. ASSUME NEW s \in States, BrowserStep(s) PROVE TypeOK'
    <2> USE DEF TypeOK
    <2>1. ASSUME NEW c \in Clients \cup {None}, Authorize(s, c) PROVE TypeOK'
      <3>1. CASE c = None BY <2>1, <3>1 DEF Authorize, NoRow, Row
      <3>2. CASE c # None BY <2>1, <3>2 DEF Authorize, Challenge, Row, Client
      <3> QED BY <3>1, <3>2
    <2>2. ASSUME NEW p \in People, Approve(s, p) PROVE TypeOK' BY <2>2 DEF Approve
    <2>3. ASSUME NEW k \in States, TakeRow(s, k) PROVE TypeOK'
      <3>1. row' \in [States -> Row] BY <2>3 DEF TakeRow, Row
      <3>2. [handler[s] EXCEPT !.pc = "provider", !.code = k] \in Handler BY DEF Handler
      <3>3. handler' = [handler EXCEPT ![s] = [handler[s] EXCEPT !.pc = "provider", !.code = k]]
        BY <2>3 DEF TakeRow
      <3> QED BY <2>3, <3>1, <3>2, <3>3 DEF TakeRow
    <2>4. CASE Expire(s)
      <3>0. [row[s] EXCEPT !.status = "expired"] \in Row BY DEF Row
      <3>1. row' \in [States -> Row] BY <2>4, <3>0 DEF Expire
      <3>2. code' \in [States -> Code] BY <2>4 DEF Expire, Code
      <3> QED BY <2>4, <3>1, <3>2 DEF Expire
    <2>5. CASE PresentOther(s) BY <2>5 DEF PresentOther, Code
    <2> QED BY <1>3, <2>1, <2>2, <2>3, <2>4, <2>5 DEF BrowserStep
  <1>4. CASE UNCHANGED vars BY <1>4 DEF vars, TypeOK
  <1> QED BY <1>1, <1>2, <1>3, <1>4 DEF Next

-----------------------------------------------------------------------------
(* The invariant, step by step. Clients first.                             *)

Rest == Progress /\ PersonIsPassedOn /\ MintingIsOwn /\ CodesAreApproved /\ SignedInByOwnCode

LEMMA InvInit == Init => Inv
  BY TypeInit
  DEF Init, NoClient, NoRow, NoHandler, NoCode, Inv, Progress, PersonIsPassedOn, MintingIsOwn,
      CodesAreApproved, SignedInByOwnCode

\* What a client's step leaves alone.
LEMMA ClientMoves ==
  ASSUME Inv, NEW c \in Clients, NEW x, client' = [client EXCEPT ![c] = x],
         UNCHANGED <<row, account, handler, code, tab, minted>>,
         x.pc # "minting",
         x.pc \in {"idle", "waiting", "password", "challenge", "opsapi"} => x.code = None,
         x.pc = "redeem" => x.code \in States,
         x.pc = "signedIn" => x.code = None
  PROVE  Rest'
  <1>1. client'[c] = x /\ \A d \in Clients \ {c} : client'[d] = client[d]
    BY DEF Inv, TypeOK
  <1>2. Progress' /\ PersonIsPassedOn' /\ CodesAreApproved'
    BY DEF Inv, Progress, PersonIsPassedOn, CodesAreApproved
  <1>3. MintingIsOwn' BY <1>1 DEF Inv, MintingIsOwn
  <1>4. SignedInByOwnCode' BY <1>1 DEF Inv, SignedInByOwnCode
  <1> QED BY <1>2, <1>3, <1>4 DEF Rest

\* The fields of a client whose pc moves.
LEMMA StepFields ==
  ASSUME Inv, NEW c \in Clients, NEW pc, Step(c, pc)
  PROVE  LET x == [client[c] EXCEPT !.pc = pc]
         IN  client' = [client EXCEPT ![c] = x] /\ x.pc = pc /\ x.code = client[c].code
  <1>1. client[c] \in Client BY DEF Inv, TypeOK
  <1> QED BY <1>1 DEF Step, Client, Inv, TypeOK

LEMMA StepMoves ==
  ASSUME Inv, NEW c \in Clients, NEW pc, Step(c, pc),
         UNCHANGED <<row, account, handler, code, tab, minted>>,
         \/ pc \in {"refused", "failed"}
         \/ /\ pc \in {"password", "challenge", "opsapi", "signedIn"}
            /\ client[c].code = None
  PROVE  Rest'
  <1> DEFINE x == [client[c] EXCEPT !.pc = pc]
  <1>1. client' = [client EXCEPT ![c] = x] /\ x.pc = pc /\ x.code = client[c].code
    BY StepFields
  <1> HIDE DEF x
  <1> QED BY <1>1, ClientMoves

LEMMA ExchangeKeeps ==
  ASSUME Inv, NEW c \in Clients, Exchange(c) PROVE Rest'
  <1> DEFINE k == client[c].code
  <1>1. k \in States /\ client[c].pc = "redeem" BY DEF Exchange, Inv, MintingIsOwn
  <1>2. /\ code'[k].status = IF code[k].status = "live" THEN "gone" ELSE code[k].status
        /\ code'[k].challenge = code[k].challenge /\ code'[k].person = code[k].person
        /\ \A s \in States \ {k} : code'[s] = code[s]
    <2>1. code[k] \in Code BY <1>1 DEF Inv, TypeOK
    <2>2. code' = [code EXCEPT ![k] = [code[k] EXCEPT !.status =
                     IF code[k].status = "live" THEN "gone" ELSE code[k].status]]
      BY DEF Exchange
    <2> QED BY <1>1, <2>1, <2>2 DEF Code, Inv, TypeOK
  <1>3. UNCHANGED <<row, account, handler, minted>> BY DEF Exchange
  <1>4. /\ client'[c].code = k
        /\ client'[c].pc \in {"minting", "failed"}
        /\ client'[c].pc = "minting" =>
             code[k].status = "live" /\ code[k].challenge = Challenge(c)
        /\ \A d \in Clients \ {c} : client'[d] = client[d]
    <2>1. client[c] \in Client BY DEF Inv, TypeOK
    <2>2. PICK pc \in {"minting", "failed"} :
            /\ Step(c, pc)
            /\ pc = "minting" => code[k].status = "live" /\ code[k].challenge = Challenge(c)
      BY DEF Exchange
    <2>3. client'[c] = [client[c] EXCEPT !.pc = pc] /\ \A d \in Clients \ {c} : client'[d] = client[d]
      BY <2>2 DEF Step, Inv, TypeOK
    <2> QED BY <2>1, <2>2, <2>3 DEF Client
  <1>5. \A s \in States : /\ code'[s].status = "none" <=> code[s].status = "none"
                          /\ code'[s].status \in {"live", "expired"} =>
                               code[s].status \in {"live", "expired"}
                          /\ code[s].status = "gone" => code'[s].status = "gone"
                          /\ code'[s].challenge = code[s].challenge
                          /\ code'[s].person = code[s].person
    BY <1>2
  <1>6. Progress' BY <1>3, <1>5 DEF Inv, Progress
  <1>7. PersonIsPassedOn' BY <1>3, <1>5 DEF Inv, PersonIsPassedOn
  <1>8. CodesAreApproved' BY <1>3 DEF Inv, CodesAreApproved
  <1>9. client'[c].pc = "minting" => code'[k].status = "gone" /\ minted'[k] = 0
                                     /\ code'[k].challenge = Challenge(c)
    BY <1>1, <1>2, <1>3, <1>4 DEF Inv, Progress
  <1>10. MintingIsOwn' BY <1>1, <1>3, <1>4, <1>5, <1>9 DEF Inv, MintingIsOwn
  <1>11. SignedInByOwnCode' BY <1>4, <1>5 DEF Inv, SignedInByOwnCode
  <1> QED BY <1>6, <1>7, <1>8, <1>10, <1>11 DEF Rest

LEMMA MintKeeps ==
  ASSUME Inv, NEW c \in Clients, MintForClient(c) PROVE Rest'
  <1> DEFINE k == client[c].code
  <1>1. /\ client[c].pc = "minting" /\ k \in States
        /\ code[k].status = "gone" /\ minted[k] = 0 /\ code[k].challenge = Challenge(c)
    BY DEF MintForClient, Inv, MintingIsOwn
  <1>2. /\ minted'[k] = 1 /\ \A s \in States \ {k} : minted'[s] = minted[s]
        /\ UNCHANGED <<row, account, handler, code>>
    BY <1>1 DEF MintForClient, Inv, TypeOK
  <1>3. /\ client'[c].code = k
        /\ \/ client'[c].pc = "failed"
           \/ client'[c].pc = "signedIn" /\ client'[c].person = code[k].person
        /\ \A d \in Clients \ {c} : client'[d] = client[d]
    <2>1. client[c] \in Client BY DEF Inv, TypeOK
    <2>2. CASE Step(c, "failed") BY <2>1, <2>2 DEF Step, Client, Inv, TypeOK
    <2>3. CASE client' = [client EXCEPT ![c].pc = "signedIn", ![c].person = code[k].person]
      <3>1. client'[c] = [client[c] EXCEPT !.pc = "signedIn", !.person = code[k].person]
        BY <2>3 DEF Inv, TypeOK
      <3> QED BY <2>1, <2>3, <3>1 DEF Client, Inv, TypeOK
    <2> QED BY <2>2, <2>3 DEF MintForClient
  <1>4. \A d \in Clients \ {c} : client[d].pc = "minting" => client[d].code # k
    <2>1. \A d \in Clients : Challenge(d).s256 = d BY DEF Challenge
    <2> QED BY <1>1, <2>1 DEF Inv, MintingIsOwn
  <1>5. row[k].status = "gone" /\ handler[k].pc = "none"
    BY <1>1 DEF Inv, Progress
  <1>6. Progress' BY <1>1, <1>2, <1>5 DEF Inv, Progress
  <1>7. PersonIsPassedOn' /\ CodesAreApproved'
    BY <1>2 DEF Inv, PersonIsPassedOn, CodesAreApproved
  <1>8. MintingIsOwn' BY <1>1, <1>2, <1>3, <1>4 DEF Inv, MintingIsOwn
  <1>9. SignedInByOwnCode' BY <1>1, <1>2, <1>3 DEF Inv, SignedInByOwnCode
  <1> QED BY <1>6, <1>7, <1>8, <1>9 DEF Rest

LEMMA ClientKeeps ==
  ASSUME Inv, NEW c \in Clients, ClientStep(c) PROVE Rest'
  <1>0. client[c] \in Client BY DEF Inv, TypeOK
  <1>1. CASE PreflightFails(c) BY <1>1, StepMoves DEF PreflightFails
  <1>2. CASE StartBrowser(c)
    <2>1. PICK p \in Ports : client' = [client EXCEPT ![c].pc = "waiting", ![c].port = p]
      BY <1>2 DEF StartBrowser
    <2> DEFINE x == [client[c] EXCEPT !.pc = "waiting", !.port = p]
    <2>2. client' = [client EXCEPT ![c] = x] /\ x.pc = "waiting" /\ x.code = None
      BY <1>0, <1>2, <2>1 DEF StartBrowser, Client, Inv, MintingIsOwn
    <2> HIDE DEF x
    <2> QED BY <1>2, <2>2, ClientMoves DEF StartBrowser
  <1>3. CASE StartPassword(c) BY <1>3, StepMoves DEF StartPassword, Inv, MintingIsOwn
  <1>4. ASSUME NEW m \in tab, Receive(c, m) PROVE Rest'
    <2>1. CASE m.answer = "code"
      <3> DEFINE x == [client[c] EXCEPT !.pc = "redeem", !.code = m.state]
      <3>1. m.state \in States BY DEF Inv, TypeOK
      <3>2. client' = [client EXCEPT ![c] = x] /\ x.pc = "redeem" /\ x.code = m.state
        BY <1>0, <1>4, <2>1 DEF Receive, Client
      <3> HIDE DEF x
      <3> QED BY <1>4, <3>1, <3>2, ClientMoves DEF Receive
    <2>2. CASE m.answer # "code" BY <1>4, <2>2, StepMoves DEF Receive
    <2> QED BY <2>1, <2>2
  <1>5. CASE Timeout(c) BY <1>5, StepMoves DEF Timeout
  <1>6. CASE ClientFails(c) BY <1>6, StepMoves DEF ClientFails
  <1>7. CASE Exchange(c) BY <1>7, ExchangeKeeps
  <1>8. CASE MintForClient(c) BY <1>8, MintKeeps
  <1>9. CASE Begin(c) BY <1>9, StepMoves DEF Begin, Inv, MintingIsOwn
  <1>10. CASE VerifyCode(c) BY <1>10, StepMoves DEF VerifyCode, Inv, MintingIsOwn
  <1>11. CASE OpsapiExchange(c) BY <1>11, StepMoves DEF OpsapiExchange, Inv, MintingIsOwn
  <1> QED
    BY <1>1, <1>2, <1>3, <1>4, <1>5, <1>6, <1>7, <1>8, <1>9, <1>10, <1>11 DEF ClientStep

-----------------------------------------------------------------------------
(* Handlers and browsers.                                                  *)

\* Clients are not concerned by a step that leaves what codes say and the
\* handshakes of used codes alone.
LEMMA ClientsAside ==
  ASSUME Inv, UNCHANGED client,
         \A s \in States : code[s].status # "none" =>
           /\ code'[s].status # "none"
           /\ code'[s].challenge = code[s].challenge /\ code'[s].person = code[s].person,
         \A s \in States : code[s].status = "gone" =>
           code'[s].status = "gone" /\ minted'[s] = minted[s]
  PROVE  MintingIsOwn' /\ SignedInByOwnCode'
  <1>1. MintingIsOwn' BY DEF Inv, MintingIsOwn
  <1>2. SignedInByOwnCode' BY DEF Inv, SignedInByOwnCode
  <1> QED BY <1>1, <1>2

\* A step of the handler of s that changes nothing but the handler and the tabs.
LEMMA HandlerMoves ==
  ASSUME Inv, NEW s \in States, NEW x, handler' = [handler EXCEPT ![s] = x],
         handler[s].pc # "none",
         UNCHANGED <<client, row, account, code, minted>>,
         x.pc # "provider",
         x.pc \in {"verify", "resolve", "answer"} => x.person = account[s] /\ account[s] # None
  PROVE  Rest'
  <1>1. handler'[s] = x /\ \A r \in States \ {s} : handler'[r] = handler[r]
    BY DEF Inv, TypeOK
  <1>2. MintingIsOwn' /\ SignedInByOwnCode' BY ClientsAside
  <1>3. Progress' BY <1>1 DEF Inv, Progress
  <1>4. PersonIsPassedOn' BY <1>1 DEF Inv, PersonIsPassedOn
  <1>5. CodesAreApproved' BY <1>1 DEF Inv, CodesAreApproved
  <1> QED BY <1>2, <1>3, <1>4, <1>5 DEF Rest

LEMMA EndMoves ==
  ASSUME Inv, NEW s \in States, EndHandler(s), handler[s].pc # "none",
         UNCHANGED <<client, row, account, code, minted>>
  PROVE  Rest'
  <1>1. NoHandler.pc = "none" BY DEF NoHandler
  <1>2. handler' = [handler EXCEPT ![s] = NoHandler] BY DEF EndHandler
  <1> QED BY <1>1, <1>2, HandlerMoves

LEMMA AnswerKeeps ==
  ASSUME Inv, NEW s \in States, Answer(s) PROVE Rest'
  <1>1. /\ handler[s].pc = "answer"
        /\ handler[s].person = account[s] /\ account[s] # None
        /\ code[s].status = "none" /\ minted[s] = 0 /\ row[s].status = "gone"
    BY DEF Answer, Inv, Progress, PersonIsPassedOn
  <1>2. /\ handler'[s].pc = "none" /\ \A r \in States \ {s} : handler'[r] = handler[r]
        /\ UNCHANGED <<client, row, account>>
    BY DEF Answer, EndHandler, NoHandler, Inv, TypeOK
  <1>3. /\ \/ code'[s] = code[s] /\ minted'[s] = 1
           \/ /\ minted'[s] = 0
              /\ code'[s].status = "live" /\ code'[s].challenge = row[s].challenge
              /\ code'[s].person = account[s]
        /\ \A r \in States \ {s} : code'[r] = code[r] /\ minted'[r] = minted[r]
    BY <1>1 DEF Answer, Inv, TypeOK
  <1>4. MintingIsOwn' /\ SignedInByOwnCode' BY <1>1, <1>2, <1>3, ClientsAside
  <1>5. Progress' BY <1>1, <1>2, <1>3 DEF Inv, Progress
  <1>6. PersonIsPassedOn' BY <1>1, <1>2, <1>3 DEF Inv, PersonIsPassedOn
  <1>7. CodesAreApproved' BY <1>2 DEF Inv, CodesAreApproved
  <1> QED BY <1>4, <1>5, <1>6, <1>7 DEF Rest

LEMMA HandlerKeeps ==
  ASSUME Inv, NEW s \in States, HandlerStep(s) PROVE Rest'
  <1>0. handler[s] \in Handler BY DEF Inv, TypeOK
  <1>1. CASE TokenEndpoint(s)
    <2>1. CASE handler[s].code = s
      <3> DEFINE x == [handler[s] EXCEPT !.pc = "verify", !.person = account[s]]
      <3>1. handler' = [handler EXCEPT ![s] = x] /\ x.pc = "verify" /\ x.person = account[s]
        BY <1>0, <1>1, <2>1 DEF TokenEndpoint, Handler
      <3>2. account[s] # None BY <1>1, <2>1 DEF TokenEndpoint, Inv, CodesAreApproved
      <3> HIDE DEF x
      <3> QED BY <1>1, <3>1, <3>2, HandlerMoves DEF TokenEndpoint
    <2>2. CASE handler[s].code # s
      BY <1>1, <2>2, EndMoves DEF TokenEndpoint
    <2> QED BY <2>1, <2>2
  <1>2. CASE Verify(s)
    <2> DEFINE x == [handler[s] EXCEPT !.pc = "resolve"]
    <2>1. handler' = [handler EXCEPT ![s] = x] /\ x.pc = "resolve" /\ x.person = account[s]
          /\ account[s] # None
      BY <1>0, <1>2 DEF Verify, Handler, Inv, PersonIsPassedOn
    <2> HIDE DEF x
    <2> QED BY <1>2, <2>1, HandlerMoves DEF Verify
  <1>3. CASE Resolve(s)
    <2>1. CASE handler' = [handler EXCEPT ![s].pc = "answer"]
      <3> DEFINE x == [handler[s] EXCEPT !.pc = "answer"]
      <3>1. handler' = [handler EXCEPT ![s] = x] /\ x.pc = "answer" /\ x.person = account[s]
            /\ account[s] # None
        BY <1>0, <1>3, <2>1 DEF Resolve, Handler, Inv, PersonIsPassedOn
      <3> HIDE DEF x
      <3> QED BY <1>3, <3>1, HandlerMoves DEF Resolve
    <2>2. CASE EndHandler(s)
      BY <1>3, <2>2, EndMoves DEF Resolve
    <2> QED BY <1>3, <2>1, <2>2 DEF Resolve
  <1>4. CASE Answer(s) BY <1>4, AnswerKeeps
  <1>5. CASE HandlerFails(s) BY <1>5, EndMoves DEF HandlerFails
  <1> QED BY <1>1, <1>2, <1>3, <1>4, <1>5 DEF HandlerStep

\* A handshake begins: nothing is known of it but its row.
LEMMA AuthorizeKeeps ==
  ASSUME Inv, NEW s \in States, NEW c \in Clients \cup {None}, Authorize(s, c) PROVE Rest'
  <1>1. /\ row[s].status = "none" /\ row'[s].status = "live"
        /\ \A r \in States \ {s} : row'[r] = row[r]
        /\ UNCHANGED <<client, account, handler, code, tab, minted>>
    BY DEF Authorize, NoRow, Inv, TypeOK
  <1>2. handler[s].pc = "none" /\ code[s].status = "none" /\ minted[s] = 0
    BY <1>1 DEF Inv, Progress
  <1>3. MintingIsOwn' /\ SignedInByOwnCode' BY <1>1, ClientsAside
  <1>4. Progress' BY <1>1, <1>2 DEF Inv, Progress
  <1>5. PersonIsPassedOn' BY <1>1, <1>2 DEF Inv, PersonIsPassedOn
  <1>6. CodesAreApproved' BY <1>1 DEF Inv, CodesAreApproved
  <1> QED BY <1>3, <1>4, <1>5, <1>6 DEF Rest

\* Who signs in at the provider does so once, before anybody is told.
LEMMA ApproveKeeps ==
  ASSUME Inv, NEW s \in States, NEW p \in People, Approve(s, p) PROVE Rest'
  <1>1. /\ account[s] = None /\ account'[s] = p /\ p # None
        /\ \A r \in States \ {s} : account'[r] = account[r]
        /\ UNCHANGED <<client, row, handler, code, tab, minted>>
    BY SignInAssumption DEF Approve, Inv, TypeOK
  <1>2. MintingIsOwn' /\ SignedInByOwnCode' BY <1>1, ClientsAside
  <1>3. Progress' BY <1>1 DEF Inv, Progress
  <1>4. PersonIsPassedOn' BY <1>1 DEF Inv, PersonIsPassedOn
  <1>5. CodesAreApproved' BY <1>1 DEF Inv, CodesAreApproved
  <1> QED BY <1>2, <1>3, <1>4, <1>5 DEF Rest

LEMMA TakeRowKeeps ==
  ASSUME Inv, NEW s \in States, NEW k \in States, TakeRow(s, k) PROVE Rest'
  <1>1. row[s] \in Row /\ handler[s] \in Handler BY DEF Inv, TypeOK
  <1>2. row'[s] = [row[s] EXCEPT !.status = "gone"] /\ \A r \in States \ {s} : row'[r] = row[r]
    BY DEF TakeRow, Inv, TypeOK
  <1>3. row'[s].status = "gone" /\ row'[s].challenge = row[s].challenge BY <1>1, <1>2 DEF Row
  <1>4. /\ handler'[s] = [handler[s] EXCEPT !.pc = "provider", !.code = k]
        /\ \A r \in States \ {s} : handler'[r] = handler[r]
    BY DEF TakeRow, Inv, TypeOK
  <1>5. handler'[s].pc = "provider" /\ handler'[s].code = k BY <1>1, <1>4 DEF Handler
  <1>6. /\ row[s].status = "live" /\ account[k] # None
        /\ UNCHANGED <<client, account, code, tab, minted>>
    BY DEF TakeRow
  <1>7. MintingIsOwn' /\ SignedInByOwnCode' BY <1>6, ClientsAside
  <1>8. code[s].status = "none" /\ minted[s] = 0 BY <1>6 DEF Inv, Progress
  <1>9. Progress'
    <2> SUFFICES ASSUME NEW r \in States
                 PROVE  /\ row'[r].status # "gone" =>
                             handler'[r].pc = "none" /\ code[r].status = "none" /\ minted[r] = 0
                        /\ handler'[r].pc # "none" => code[r].status = "none" /\ minted[r] = 0
                        /\ code[r].status \in {"live", "expired"} => minted[r] = 0
                        /\ minted[r] <= 1
      BY <1>6 DEF Progress
    <2>1. CASE r = s BY <1>3, <1>8, <2>1
    <2>2. CASE r # s BY <1>2, <1>4, <2>2 DEF Inv, Progress
    <2> QED BY <2>1, <2>2
  <1>10. PersonIsPassedOn'
    <2> SUFFICES ASSUME NEW r \in States
                 PROVE  /\ handler'[r].pc \in {"verify", "resolve", "answer"} =>
                             handler'[r].person = account[r] /\ account[r] # None
                        /\ code[r].status # "none" =>
                             /\ code[r].challenge = row'[r].challenge
                             /\ code[r].person = account[r] /\ account[r] # None
      BY <1>6 DEF PersonIsPassedOn
    <2>1. CASE r = s BY <1>5, <1>8, <2>1
    <2>2. CASE r # s BY <1>2, <1>4, <2>2 DEF Inv, PersonIsPassedOn
    <2> QED BY <2>1, <2>2
  <1>11. CodesAreApproved' BY <1>4, <1>5, <1>6 DEF Inv, CodesAreApproved
  <1> QED BY <1>7, <1>9, <1>10, <1>11 DEF Rest

\* A code that is used or expires keeps what it says.
LEMMA CodeMoves ==
  ASSUME Inv, NEW s \in States, NEW status \in {"gone", "expired"}, code[s].status = "live",
         code' = [code EXCEPT ![s].status = status],
         UNCHANGED <<client, row, account, handler, tab, minted>>
  PROVE  Rest'
  <1>1. code[s] \in Code BY DEF Inv, TypeOK
  <1>2. code'[s] = [code[s] EXCEPT !.status = status] /\ \A r \in States \ {s} : code'[r] = code[r]
    BY DEF Inv, TypeOK
  <1>3. /\ code'[s].status = status
        /\ code'[s].challenge = code[s].challenge /\ code'[s].person = code[s].person
    BY <1>1, <1>2 DEF Code
  <1>4. MintingIsOwn' /\ SignedInByOwnCode' BY <1>2, <1>3, ClientsAside
  <1>5. Progress' BY <1>2, <1>3 DEF Inv, Progress
  <1>6. PersonIsPassedOn' BY <1>2, <1>3 DEF Inv, PersonIsPassedOn
  <1>7. CodesAreApproved' BY DEF Inv, CodesAreApproved
  <1> QED BY <1>4, <1>5, <1>6, <1>7 DEF Rest

LEMMA ExpireKeeps ==
  ASSUME Inv, NEW s \in States, Expire(s) PROVE Rest'
  <1>1. CASE code[s].status = "live" /\ code' = [code EXCEPT ![s].status = "expired"]
             /\ UNCHANGED row
    BY <1>1, CodeMoves DEF Expire
  <1>2. CASE row[s].status = "live" /\ row' = [row EXCEPT ![s].status = "expired"]
             /\ UNCHANGED code
    <2>1. row[s] \in Row BY DEF Inv, TypeOK
    <2>2. row'[s] = [row[s] EXCEPT !.status = "expired"] /\ \A r \in States \ {s} : row'[r] = row[r]
      BY <1>2 DEF Inv, TypeOK
    <2>3. row'[s].status = "expired" /\ row'[s].challenge = row[s].challenge
      BY <2>1, <2>2 DEF Row
    <2>4. UNCHANGED <<client, account, handler, code, tab, minted>> BY <1>2 DEF Expire
    <2>5. MintingIsOwn' /\ SignedInByOwnCode' BY <2>4, ClientsAside
    <2>6. Progress' BY <1>2, <2>2, <2>3, <2>4 DEF Inv, Progress
    <2>7. PersonIsPassedOn' BY <2>2, <2>3, <2>4 DEF Inv, PersonIsPassedOn
    <2>8. CodesAreApproved' BY <2>4 DEF Inv, CodesAreApproved
    <2> QED BY <2>5, <2>6, <2>7, <2>8 DEF Rest
  <1> QED BY <1>1, <1>2 DEF Expire

LEMMA BrowserKeeps ==
  ASSUME Inv, NEW s \in States, BrowserStep(s) PROVE Rest'
  <1>1. CASE PresentOther(s) BY <1>1, CodeMoves DEF PresentOther
  <1> QED BY <1>1, AuthorizeKeeps, ApproveKeeps, TakeRowKeeps, ExpireKeeps DEF BrowserStep

LEMMA InvNext == Inv /\ [Next]_vars => Inv'
  <1> SUFFICES ASSUME Inv, [Next]_vars PROVE Inv' OBVIOUS
  <1>1. TypeOK' BY TypeNext DEF Inv
  <1>2. Rest'
    <2>1. CASE UNCHANGED vars
      BY <2>1 DEF vars, Inv, Rest, Progress, PersonIsPassedOn, MintingIsOwn, CodesAreApproved,
         SignedInByOwnCode
    <2>2. CASE Next BY <2>2, ClientKeeps, HandlerKeeps, BrowserKeeps DEF Next
    <2> QED BY <2>1, <2>2
  <1> QED BY <1>1, <1>2 DEF Inv, Rest

LEMMA Invariance == Spec => []Inv
  BY InvInit, InvNext, PTL DEF Spec

-----------------------------------------------------------------------------
(* What follows.                                                           *)

\* Rows, handlers, codes and clients keep their shape; a redirect always names a
\* port (cli_redirect is built from the row's redirect_uri).
THEOREM TypeCorrect == Spec => []TypeOK
  <1>1. Inv => TypeOK BY DEF Inv
  <1> QED BY <1>1, Invariance, PTL

\* However many windows, clients and reused ports there are: a client that went
\* through the browser is signed in as somebody who signed in at the provider in
\* a handshake of its own (exchange() compares the verifier).
THEOREM OwnPersonOnly == Spec => []SignedInAsOwnPerson
  <1>1. Inv => SignedInAsOwnPerson
    BY DEF Inv, SignedInByOwnCode, PersonIsPassedOn, SignedInAsOwnPerson
  <1> QED BY <1>1, Invariance, PTL

\* DELETE ... RETURNING of the row and then of the code: one access token per
\* handshake, for any number of repeated callbacks and presented codes.
THEOREM OneTokenAtMost == Spec => []OneTokenPerHandshake
  <1>1. Inv => OneTokenPerHandshake BY DEF Inv, Progress, OneTokenPerHandshake
  <1> QED BY <1>1, Invariance, PTL

\* An expired row has no handler and an expired code no client that is given a
\* token for it, then or later.
THEOREM ExpiredStaysWorthless == Spec => []ExpiredIsWorthless
  <1>1. Inv => ExpiredIsWorthless BY DEF Inv, Progress, MintingIsOwn, ExpiredIsWorthless
  <1> QED BY <1>1, Invariance, PTL

\* A handshake without a redirect_uri has no challenge.
ChallengeHasPort == \A s \in States : row[s].port = None => row[s].challenge = None

\* A client is given one code at most.
LEMMA CodeIsKept ==
  ASSUME Inv, [Next]_vars, NEW c \in Clients
  PROVE  client'[c].code = client[c].code \/ client[c].code = None
  <1>0. client[c] \in Client /\ client \in [Clients -> Client] BY DEF Inv, TypeOK
  <1>1. ASSUME NEW d \in Clients, NEW pc, Step(d, pc) PROVE client'[c].code = client[c].code
    BY <1>0, <1>1 DEF Step, Client
  <1>2. ASSUME NEW d \in Clients, ClientStep(d)
        PROVE  client'[c].code = client[c].code \/ client[c].code = None
    <2>1. CASE StartBrowser(d) BY <1>0, <2>1 DEF StartBrowser, Client
    <2>2. ASSUME NEW m \in tab, Receive(d, m)
          PROVE  client'[c].code = client[c].code \/ client[c].code = None
      <3>1. CASE m.answer = "code"
        <4>1. client' = [client EXCEPT ![d].pc = "redeem", ![d].code = m.state]
              /\ client[d].code = None
          BY <2>2, <3>1 DEF Receive, Inv, MintingIsOwn
        <4> QED BY <1>0, <4>1
      <3>2. CASE m.answer # "code" BY <1>1, <2>2, <3>2 DEF Receive
      <3> QED BY <3>1, <3>2
    <2>3. CASE MintForClient(d)
      <3>1. CASE client' = [client EXCEPT ![d].pc = "signedIn",
                                          ![d].person = code[client[d].code].person]
        BY <1>0, <3>1 DEF Client
      <3> QED BY <1>1, <2>3, <3>1 DEF MintForClient
    <2>4. CASE Exchange(d) BY <1>1, <2>4 DEF Exchange
    <2>5. CASE PreflightFails(d) \/ StartPassword(d) \/ Timeout(d) \/ ClientFails(d) \/ Begin(d)
               \/ VerifyCode(d) \/ OpsapiExchange(d)
      BY <1>1, <2>5 DEF PreflightFails, StartPassword, Timeout, ClientFails, Begin, VerifyCode,
                        OpsapiExchange
    <2> QED BY <1>2, <2>1, <2>2, <2>3, <2>4, <2>5 DEF ClientStep
  <1>3. ASSUME NEW s \in States, HandlerStep(s) \/ BrowserStep(s) PROVE UNCHANGED client
    BY <1>3 DEF HandlerStep, TokenEndpoint, Verify, Resolve, Answer, HandlerFails, BrowserStep,
                Authorize, Approve, TakeRow, Expire, PresentOther
  <1> QED BY <1>2, <1>3 DEF Next, vars

\* A row keeps whose it is.
LEMMA RowsAreKept ==
  ASSUME Inv, [Next]_vars
  PROVE  \A s \in States :
           \/ row'[s].challenge = row[s].challenge /\ row'[s].port = row[s].port
           \/ /\ row[s].status = "none" /\ UNCHANGED minted
              /\ row'[s].port = None => row'[s].challenge = None
  <1>0. row \in [States -> Row] BY DEF Inv, TypeOK
  <1>1. CASE UNCHANGED row BY <1>1
  <1>2. ASSUME NEW c \in Clients, ClientStep(c) PROVE UNCHANGED row
    BY <1>2 DEF ClientStep, PreflightFails, StartBrowser, StartPassword, Receive, Timeout,
                ClientFails, Exchange, MintForClient, Begin, VerifyCode, OpsapiExchange
  <1>3. ASSUME NEW s \in States, HandlerStep(s) PROVE UNCHANGED row
    BY <1>3 DEF HandlerStep, TokenEndpoint, Verify, Resolve, Answer, HandlerFails
  <1>4. ASSUME NEW s \in States, NEW status, row' = [row EXCEPT ![s].status = status]
        PROVE  \A r \in States : row'[r].challenge = row[r].challenge /\ row'[r].port = row[r].port
    BY <1>0, <1>4 DEF Row
  <1>5. ASSUME NEW s \in States, NEW k \in States, TakeRow(s, k)
        PROVE  \A r \in States : row'[r].challenge = row[r].challenge /\ row'[r].port = row[r].port
    BY <1>4, <1>5 DEF TakeRow
  <1>6. ASSUME NEW s \in States, Expire(s)
        PROVE  \A r \in States : row'[r].challenge = row[r].challenge /\ row'[r].port = row[r].port
    BY <1>4, <1>6 DEF Expire
  <1>7. ASSUME NEW s \in States, (\E p \in People : Approve(s, p)) \/ PresentOther(s)
        PROVE  UNCHANGED row
    BY <1>7 DEF Approve, PresentOther
  <1>8. ASSUME NEW s \in States, NEW c \in Clients \cup {None}, Authorize(s, c)
        PROVE  /\ row[s].status = "none" /\ UNCHANGED minted
               /\ row'[s].port = None => row'[s].challenge = None
               /\ \A r \in States \ {s} : row'[r] = row[r]
    <2>1. CASE c = None BY <1>0, <1>8, <2>1 DEF Authorize, NoRow
    <2>2. CASE c # None
      <3>1. row' = [row EXCEPT ![s] = [status |-> "live", challenge |-> Challenge(c),
                                       port |-> client[c].port]]
            /\ client[c].port # None /\ row[s].status = "none" /\ UNCHANGED minted
        BY <1>8, <2>2 DEF Authorize
      <3> QED BY <1>0, <3>1
    <2> QED BY <2>1, <2>2
  <1>9. ASSUME NEW s \in States, BrowserStep(s)
        PROVE  \A r \in States :
                 \/ row'[r].challenge = row[r].challenge /\ row'[r].port = row[r].port
                 \/ /\ row[r].status = "none" /\ UNCHANGED minted
                    /\ row'[r].port = None => row'[r].challenge = None
    <2>1. CASE \E c \in Clients \cup {None} : Authorize(s, c)
      <3>1. PICK c \in Clients \cup {None} : Authorize(s, c) BY <2>1
      <3> QED BY <1>8, <3>1
    <2> QED BY <1>1, <1>5, <1>6, <1>7, <1>9, <2>1 DEF BrowserStep
  <1> QED BY <1>1, <1>2, <1>3, <1>9 DEF Next, vars

LEMMA ChallengeHasPortAlways == Spec => []ChallengeHasPort
  <1>1. Init => ChallengeHasPort BY DEF Init, NoRow, ChallengeHasPort
  <1>2. Inv /\ ChallengeHasPort /\ [Next]_vars => ChallengeHasPort'
    BY RowsAreKept DEF ChallengeHasPort
  <1> QED BY <1>1, <1>2, Invariance, PTL DEF Spec

\* However late the browser finishes and whoever listens at the port by then: a
\* handshake yields a token only after the client that started it presented the
\* code (exchange() compares the verifier with the row's challenge).
THEOREM AbandonedStaysWorthless == Spec => []AbandonedIsWorthless
  <1>1. Init => AbandonedIsWorthless BY DEF Init, AbandonedIsWorthless
  <1>2. Inv /\ ChallengeHasPort /\ AbandonedIsWorthless /\ [Next]_vars => AbandonedIsWorthless'
    <2> SUFFICES ASSUME Inv, ChallengeHasPort, AbandonedIsWorthless, [Next]_vars,
                        NEW s \in States, NEW c \in Clients,
                        row'[s].challenge = Challenge(c), client'[c].code # s
                 PROVE  minted'[s] = 0
      BY DEF AbandonedIsWorthless
    <2>0. Challenge(c) # None /\ \A d \in Clients : Challenge(d) = Challenge(c) => d = c
      <3>1. \A d \in Clients : Challenge(d).s256 = d BY DEF Challenge
      <3>2. Challenge(c) \in [s256 : Clients] BY DEF Challenge
      <3> QED BY <3>1, <3>2, SignInAssumption
    <2>1. minted[s] = 0
      <3>1. client[c].code # s BY CodeIsKept, SignInAssumption DEF Inv, TypeOK
      <3>2. CASE row'[s].challenge = row[s].challenge BY <3>1, <3>2 DEF AbandonedIsWorthless
      <3>3. CASE row[s].status = "none" BY <3>3 DEF Inv, Progress
      <3> QED BY <3>2, <3>3, RowsAreKept
    <2>2. CASE UNCHANGED minted BY <2>1, <2>2
    <2>3. ASSUME NEW d \in Clients, MintForClient(d) PROVE minted'[s] = 0
      <3> DEFINE k == client[d].code
      <3>1. /\ k \in States /\ code[k].status = "gone" /\ code[k].challenge = Challenge(d)
            /\ row[k].challenge = Challenge(d)
        BY <2>3 DEF MintForClient, Inv, MintingIsOwn, PersonIsPassedOn
      <3>2. UNCHANGED row /\ minted' = [minted EXCEPT ![k] = @ + 1] BY <2>3 DEF MintForClient
      <3>3. CASE s = k
        <4>1. d = c BY <2>0, <3>1, <3>2, <3>3
        <4>2. client'[d].code = k
          <5>1. k # None BY <3>1, SignInAssumption
          <5> QED BY <5>1, CodeIsKept
        <4> QED BY <3>3, <4>1, <4>2
      <3>4. CASE s # k BY <2>1, <3>1, <3>2, <3>4 DEF Inv, TypeOK
      <3> QED BY <3>3, <3>4
    <2>4. ASSUME NEW r \in States, Answer(r) PROVE minted'[s] = 0
      <3>1. UNCHANGED row BY <2>4 DEF Answer
      <3>2. CASE row[r].port # None BY <2>1, <2>4, <3>2 DEF Answer
      <3>3. CASE row[r].port = None
        <4>1. row[r].challenge = None BY <3>3 DEF ChallengeHasPort
        <4>2. r # s BY <2>0, <3>1, <4>1
        <4> QED BY <2>1, <2>4, <3>3, <4>2 DEF Answer, Inv, TypeOK
      <3> QED BY <3>2, <3>3
    <2>5. ASSUME NEW d \in Clients, ClientStep(d) PROVE UNCHANGED minted \/ MintForClient(d)
      BY <2>5 DEF ClientStep, PreflightFails, StartBrowser, StartPassword, Receive, Timeout,
                  ClientFails, Exchange, Begin, VerifyCode, OpsapiExchange
    <2>6. ASSUME NEW r \in States, HandlerStep(r) \/ BrowserStep(r) PROVE UNCHANGED minted \/ Answer(r)
      BY <2>6 DEF HandlerStep, TokenEndpoint, Verify, Resolve, HandlerFails, BrowserStep,
                  Authorize, Approve, TakeRow, Expire, PresentOther
    <2> QED BY <2>2, <2>3, <2>4, <2>5, <2>6 DEF Next, vars
  <1> QED BY <1>1, <1>2, Invariance, ChallengeHasPortAlways, PTL DEF Spec

-----------------------------------------------------------------------------
(***************************************************************************)
(* Gate for any number of addresses and requests, any budget and window,   *)
(* and a clock that may be late by any part of a window. The invariant of  *)
(* the limiter (LimiterInv) says what a window it holds has seen: all of   *)
(* what was let through in the spans that began after the window did, so   *)
(* that a window that is over leaves one budget behind and no more. Behind *)
(* it, the requests that ask for keys and the fetches of the last cooldown *)
(* are together no more than there are requests, since nobody sets out to  *)
(* ask while a fetch is that recent (FetchesInv).                          *)
(***************************************************************************)

WindowBounds(a) ==
  IF a \in DOMAIN windows
  THEN \A t \in Span :
         /\ admitted[a][t] <= windows[a].count + Budget
         /\ t < windows[a].age - Skew => admitted[a][t] <= windows[a].count
  ELSE \A t \in Span : admitted[a][t] <= Budget

LimiterInv == Limits => \A a \in Addrs : WindowBounds(a)

\* A window the limiter holds.
WindowType == [age : 0 .. (Window + Skew), count : 1 .. Budget]

LEMMA SweptFacts ==
  ASSUME LimiterTypeOK, NEW late \in 0 .. Skew
  PROVE  /\ DOMAIN Swept(late) \subseteq DOMAIN windows
         /\ \A b \in DOMAIN Swept(late) : Swept(late)[b] = windows[b]
         /\ \A b \in DOMAIN windows \ DOMAIN Swept(late) : Expired(windows[b], late)
<1>1. CASE Cardinality(DOMAIN windows) > SweepThreshold
  BY <1>1 DEF Swept, Restrict
<1>2. CASE ~(Cardinality(DOMAIN windows) > SweepThreshold)
  BY <1>2 DEF Swept
<1> QED
  BY <1>1, <1>2

\* An expired window has seen all that was let through in a span.
LEMMA ExpiredSawAll ==
  ASSUME LimiterTypeOK, LimiterInv, Limits, NEW late \in 0 .. Skew,
         NEW a \in DOMAIN windows, Expired(windows[a], late)
  PROVE  \A t \in Span : admitted[a][t] <= Budget
<1>1. a \in Addrs /\ windows[a] \in WindowType
  BY DEF LimiterTypeOK, WindowType
<1>2. windows[a].age \in Nat /\ windows[a].count \in Nat /\ windows[a].count <= Budget
  BY <1>1, RateLimitAssumption DEF WindowType
<1>3. windows[a].age - late >= Window
  BY <1>2, RateLimitAssumption DEF Expired, Elapsed
<1> TAKE t \in Span
<1>4. t \in Nat /\ t <= Window - Skew - 1
  BY RateLimitAssumption DEF Span
<1>5. t < windows[a].age - Skew
  BY <1>2, <1>3, <1>4, RateLimitAssumption
<1>6. admitted[a][t] <= windows[a].count
  BY <1>1, <1>5 DEF LimiterInv, WindowBounds
<1>7. admitted[a][t] \in Nat
  BY <1>1 DEF LimiterTypeOK
<1> QED
  BY <1>2, <1>6, <1>7, RateLimitAssumption

\* The window a request is counted in.
LEMMA CurrentFacts ==
  ASSUME LimiterTypeOK, LimiterInv, Limits, NEW late \in 0 .. Skew, NEW a \in Addrs
  PROVE  /\ Current(a, late) \in [age : 0 .. (Window + Skew), count : 0 .. Budget]
         /\ \A t \in Span :
              /\ admitted[a][t] <= Current(a, late).count + Budget
              /\ t < Current(a, late).age - Skew => admitted[a][t] <= Current(a, late).count
<1>1. CASE a \in DOMAIN Swept(late) /\ ~Expired(Swept(late)[a], late)
  <2>1. Current(a, late) = windows[a] /\ a \in DOMAIN windows
    BY <1>1, SweptFacts DEF Current
  <2>2. windows[a] \in WindowType
    BY <2>1 DEF LimiterTypeOK, WindowType
  <2>3. windows[a] \in [age : 0 .. (Window + Skew), count : 0 .. Budget]
    BY <2>2, RateLimitAssumption DEF WindowType
  <2>4. WindowBounds(a)
    BY DEF LimiterInv
  <2> QED
    BY <2>1, <2>3, <2>4 DEF WindowBounds
<1>2. CASE ~(a \in DOMAIN Swept(late) /\ ~Expired(Swept(late)[a], late))
  <2>1. Current(a, late) = [age |-> late, count |-> 0]
    BY <1>2 DEF Current
  <2>2. Current(a, late) \in [age : 0 .. (Window + Skew), count : 0 .. Budget]
    <3>1. late \in 0 .. (Window + Skew) /\ 0 \in 0 .. Budget
      BY RateLimitAssumption
    <3> QED
      BY <2>1, <3>1
  <2>3. \A t \in Span : admitted[a][t] <= Budget
    <3>1. CASE a \notin DOMAIN windows
      BY <3>1 DEF LimiterInv, WindowBounds
    <3>2. CASE a \in DOMAIN windows
      <4>1. Expired(windows[a], late)
        BY <1>2, <3>2, SweptFacts
      <4> QED
        BY <3>2, <4>1, ExpiredSawAll
    <3> QED
      BY <3>1, <3>2
  <2>4. \A t \in Span : admitted[a][t] \in Nat /\ ~(t < late - Skew)
    BY RateLimitAssumption DEF LimiterTypeOK, Span
  <2> QED
    BY <2>1, <2>2, <2>3, <2>4, RateLimitAssumption
<1> QED
  BY <1>1, <1>2

\* What holding a window leaves of the others.
LEMMA HoldKeeps ==
  ASSUME LimiterTypeOK, NEW late \in 0 .. Skew, NEW a \in Addrs, NEW w \in WindowType,
         Hold(a, late, w)
  PROVE  /\ DOMAIN windows' \subseteq Addrs
         /\ windows' \in [DOMAIN windows' -> WindowType]
         /\ a \in DOMAIN windows' /\ windows'[a] = w
         /\ \A b \in Addrs \ {a} :
              \/ b \in DOMAIN windows' /\ b \in DOMAIN windows /\ windows'[b] = windows[b]
              \/ b \notin DOMAIN windows' /\ b \notin DOMAIN windows
              \/ b \notin DOMAIN windows' /\ b \in DOMAIN windows /\ Expired(windows[b], late)
<1> DEFINE D == DOMAIN Swept(late) \cup {a}
<1>1. windows' = [b \in D |-> IF b = a THEN w ELSE Swept(late)[b]]
  BY DEF Hold
<1>2. DOMAIN windows' = D
  BY <1>1
<1>3. DOMAIN windows \subseteq Addrs /\ \A b \in DOMAIN windows : windows[b] \in WindowType
  BY DEF LimiterTypeOK, WindowType
<1>4. \A b \in D : b # a => b \in DOMAIN windows /\ windows'[b] = windows[b]
  BY <1>1, SweptFacts
<1>5. a \in D /\ windows'[a] = w
  BY <1>1
<1>6. \A b \in D : windows'[b] \in WindowType
  BY <1>3, <1>4, <1>5
<1>7. windows' \in [D -> WindowType]
  BY <1>1, <1>6
<1>8. ASSUME NEW b \in Addrs \ {a}, b \notin D, b \in DOMAIN windows
      PROVE  Expired(windows[b], late)
  BY <1>8, SweptFacts
<1> HIDE DEF D
<1> QED
  BY <1>2, <1>3, <1>4, <1>5, <1>7, <1>8

LEMMA LimiterStep ==
  ASSUME LimiterTypeOK, LimiterInv, NEW a \in Addrs, NEW late \in 0 .. Skew,
         Allowed(a, late) \/ Limited(a, late)
  PROVE  LimiterTypeOK' /\ LimiterInv'
<1>1. CASE UNCHANGED limiterVars
  BY <1>1 DEF limiterVars, LimiterTypeOK, LimiterInv, WindowBounds, Limits
<1>2. CASE Limits /\ ~UNCHANGED limiterVars
  <2>1. PICK w : w = Current(a, late)
    OBVIOUS
  <2>2. /\ w \in [age : 0 .. (Window + Skew), count : 0 .. Budget]
        /\ \A t \in Span :
              /\ admitted[a][t] <= w.count + Budget
              /\ t < w.age - Skew => admitted[a][t] <= w.count
    BY <1>2, <2>1, CurrentFacts
  <2>3. PICK v \in WindowType :
          /\ Hold(a, late, v)
          /\ v.age = w.age
          /\ \/ v.count = w.count + 1 /\ Count(a)
             \/ v.count = w.count /\ admitted' = admitted
    <3>1. CASE Allowed(a, late)
      <4> DEFINE v == [w EXCEPT !.count = @ + 1]
      <4>1. w.count < Budget /\ Hold(a, late, v) /\ Count(a)
        BY <1>2, <2>1, <3>1 DEF Allowed
      <4>2. w.count + 1 \in 1 .. Budget /\ w.age \in 0 .. (Window + Skew)
        BY <2>2, <4>1, RateLimitAssumption
      <4>3. v = [age |-> w.age, count |-> w.count + 1]
        BY <2>2
      <4>4. v \in WindowType /\ v.age = w.age /\ v.count = w.count + 1
        BY <4>2, <4>3 DEF WindowType
      <4> QED
        BY <4>1, <4>4
    <3>2. CASE Limited(a, late)
      <4>1. w.count >= Budget /\ Hold(a, late, w) /\ admitted' = admitted
        BY <1>2, <2>1, <3>2 DEF Limited
      <4>2. w.count \in 1 .. Budget /\ w.age \in 0 .. (Window + Skew)
        BY <2>2, <4>1, <1>2, RateLimitAssumption DEF Limits
      <4>3. w = [age |-> w.age, count |-> w.count]
        BY <2>2
      <4>4. w \in WindowType
        BY <4>2, <4>3 DEF WindowType
      <4> QED
        BY <4>1, <4>4
    <3> QED
      BY <3>1, <3>2
  <2>4. /\ DOMAIN windows' \subseteq Addrs
        /\ windows' \in [DOMAIN windows' -> WindowType]
        /\ a \in DOMAIN windows' /\ windows'[a] = v
        /\ \A b \in Addrs \ {a} :
              \/ b \in DOMAIN windows' /\ b \in DOMAIN windows /\ windows'[b] = windows[b]
              \/ b \notin DOMAIN windows' /\ b \notin DOMAIN windows
              \/ b \notin DOMAIN windows' /\ b \in DOMAIN windows /\ Expired(windows[b], late)
    BY <2>3, HoldKeeps
  <2>5. \A b \in Addrs : \A t \in Span : admitted[b][t] \in Nat
    BY DEF LimiterTypeOK
  <2>6. /\ admitted' \in [Addrs -> [Span -> Nat]]
        /\ \A b \in Addrs \ {a} : admitted'[b] = admitted[b]
    <3>1. CASE Count(a)
      <4>1. admitted' = [admitted EXCEPT ![a] = [t \in Span |-> admitted[a][t] + 1]]
        BY <3>1 DEF Count
      <4>2. [t \in Span |-> admitted[a][t] + 1] \in [Span -> Nat]
        BY <2>5
      <4> QED
        BY <4>1, <4>2 DEF LimiterTypeOK
    <3>2. CASE admitted' = admitted
      BY <3>2 DEF LimiterTypeOK
    <3> QED
      BY <2>3, <3>1, <3>2
  <2>7. \A t \in Span :
          /\ admitted'[a][t] <= v.count + Budget
          /\ t < v.age - Skew => admitted'[a][t] <= v.count
    <3> TAKE t \in Span
    <3>1. admitted[a][t] \in Nat /\ w.count \in Nat /\ w.age \in Nat
      BY <2>2, <2>5
    <3>2. CASE v.count = w.count + 1 /\ Count(a)
      <4>1. admitted'[a][t] = admitted[a][t] + 1
        BY <3>2 DEF Count, LimiterTypeOK
      <4> QED
        BY <2>2, <2>3, <3>1, <3>2, <4>1, RateLimitAssumption
    <3>3. CASE v.count = w.count /\ admitted' = admitted
      BY <2>2, <2>3, <3>1, <3>3, RateLimitAssumption
    <3> QED
      BY <2>3, <3>2, <3>3
  <2>8. \A b \in Addrs : WindowBounds(b)'
    <3> TAKE b \in Addrs
    <3>1. CASE b = a
      BY <2>4, <2>7, <3>1 DEF WindowBounds, Span
    <3>2. CASE b # a
      <4>1. WindowBounds(b) /\ admitted'[b] = admitted[b]
        BY <1>2, <2>6, <3>2 DEF LimiterInv
      <4>2. CASE b \notin DOMAIN windows' /\ b \in DOMAIN windows /\ Expired(windows[b], late)
        <5>1. \A t \in Span : admitted[b][t] <= Budget
          BY <1>2, <4>2, ExpiredSawAll
        <5> QED
          BY <4>1, <4>2, <5>1 DEF WindowBounds, Span
      <4>3. CASE b \in DOMAIN windows' /\ b \in DOMAIN windows /\ windows'[b] = windows[b]
        BY <4>1, <4>3 DEF WindowBounds, Span
      <4>4. CASE b \notin DOMAIN windows' /\ b \notin DOMAIN windows
        BY <4>1, <4>4 DEF WindowBounds, Span
      <4> QED
        BY <2>4, <3>2, <4>2, <4>3, <4>4
    <3> QED
      BY <3>1, <3>2
  <2> QED
    BY <2>4, <2>6, <2>8 DEF LimiterTypeOK, LimiterInv, WindowType, Span
<1> QED
  BY <1>1, <1>2 DEF Allowed, Limited

LEMMA LimiterTickStep ==
  ASSUME LimiterTypeOK, LimiterInv, LimiterTick
  PROVE  LimiterTypeOK' /\ LimiterInv'
<1>1. DOMAIN windows' = DOMAIN windows
  BY DEF LimiterTick
<1>2. \A a \in DOMAIN windows :
        /\ windows[a] \in WindowType
        /\ windows'[a] = [windows[a] EXCEPT !.age = Age(@, Window + Skew)]
  BY DEF LimiterTick, LimiterTypeOK, WindowType
<1>3. ASSUME NEW a \in DOMAIN windows
      PROVE  /\ windows'[a] \in WindowType
             /\ windows'[a].count = windows[a].count
             /\ windows'[a].age = Age(windows[a].age, Window + Skew)
  <2>1. PICK w \in WindowType : w = windows[a]
    BY <1>2
  <2>2. w.age \in 0 .. (Window + Skew) /\ w.count \in 1 .. Budget
    BY <2>1 DEF WindowType
  <2>3. Age(w.age, Window + Skew) \in 0 .. (Window + Skew)
    BY <2>2, RateLimitAssumption DEF Age
  <2>4. [w EXCEPT !.age = Age(@, Window + Skew)]
          = [age |-> Age(w.age, Window + Skew), count |-> w.count]
    BY <2>1 DEF WindowType
  <2> QED
    BY <1>2, <2>1, <2>2, <2>3, <2>4 DEF WindowType
<1>4. windows' \in [DOMAIN windows' -> WindowType]
  BY <1>1, <1>3 DEF LimiterTick
<1>5. \A a \in Addrs : \A t \in Span : admitted[a][t] \in Nat
  BY DEF LimiterTypeOK
<1>6. \A a \in Addrs : \A t \in Span :
        admitted'[a][t] = IF t = 0 THEN 0 ELSE admitted[a][t - 1]
  BY DEF LimiterTick
<1>7. \A t \in Span : t # 0 => t - 1 \in Span
  BY RateLimitAssumption DEF Span
<1>8. admitted' \in [Addrs -> [Span -> Nat]]
  <2>1. \A a \in Addrs : \A t \in Span : (IF t = 0 THEN 0 ELSE admitted[a][t - 1]) \in Nat
    BY <1>5, <1>7
  <2>2. admitted' = [a \in Addrs |-> [t \in Span |-> IF t = 0 THEN 0 ELSE admitted[a][t - 1]]]
    BY DEF LimiterTick
  <2> QED
    BY <2>1, <2>2
<1>9. ASSUME Limits, NEW a \in Addrs
      PROVE  WindowBounds(a)'
  <2>1. WindowBounds(a)
    BY <1>9 DEF LimiterInv
  <2>2. CASE a \in DOMAIN windows
    <3>1. windows[a].age \in 0 .. (Window + Skew) /\ windows[a].count \in Nat
      <4>1. windows[a].age \in 0 .. (Window + Skew) /\ windows[a].count \in 1 .. Budget
        BY <1>2, <2>2 DEF WindowType
      <4> QED
        BY <4>1, RateLimitAssumption
    <3>2. windows'[a].count = windows[a].count /\ windows'[a].age = Age(windows[a].age, Window + Skew)
      BY <1>3, <2>2
    <3>3. ASSUME NEW t \in Span
          PROVE  /\ admitted'[a][t] <= windows'[a].count + Budget
                 /\ t < windows'[a].age - Skew => admitted'[a][t] <= windows'[a].count
      <4>1. CASE t = 0
        <5>1. admitted'[a][t] = 0
          BY <1>6, <4>1
        <5> QED
          BY <3>1, <3>2, <5>1, RateLimitAssumption
      <4>2. CASE t # 0
        <5>1. PICK s \in Span : s = t - 1
          BY <1>7, <4>2
        <5>2. admitted'[a][t] = admitted[a][s] /\ admitted[a][s] \in Nat
          BY <1>5, <1>6, <4>2, <5>1
        <5>3. admitted[a][s] <= windows[a].count + Budget
          BY <2>1, <2>2 DEF WindowBounds
        <5>4. s < windows[a].age - Skew => admitted[a][s] <= windows[a].count
          BY <2>1, <2>2 DEF WindowBounds
        <5>5. t < windows'[a].age - Skew => s < windows[a].age - Skew
          BY <3>1, <3>2, <5>1, RateLimitAssumption DEF Age, Span
        <5> QED
          BY <3>2, <5>2, <5>3, <5>4, <5>5
      <4> QED
        BY <4>1, <4>2
    <3> QED
      BY <1>1, <2>2, <3>3 DEF WindowBounds, Span
  <2>3. CASE a \notin DOMAIN windows
    <3>1. \A t \in Span : admitted[a][t] <= Budget
      BY <2>1, <2>3 DEF WindowBounds
    <3>2. \A t \in Span : admitted'[a][t] <= Budget
      BY <1>6, <1>7, <3>1, RateLimitAssumption
    <3> QED
      BY <1>1, <2>3, <3>2 DEF WindowBounds, Span
  <2> QED
    BY <2>2, <2>3
<1> QED
  BY <1>1, <1>4, <1>8, <1>9 DEF LimiterTypeOK, LimiterInv, WindowType, Span, Limits

LEMMA NewestIs ==
  ASSUME NEW S, S \subseteq Nat, NEW k \in S, \A j \in S : j <= k
  PROVE  Newest(S) = k
<1>1. \E n \in S : \A j \in S : j <= n
  OBVIOUS
<1>2. PICK n : n = Newest(S)
  OBVIOUS
<1>3. n \in S /\ \A j \in S : j <= n
  BY <1>1, <1>2 DEF Newest
<1> QED
  BY <1>2, <1>3

\* A newest key is published.
NewestPublished == \E k \in published : \A j \in published : j <= k

\* The requests that have set out to ask for the keys. While a fetch is recent the
\* keys it brought are held, and no older than it.
Asking == {r \in Requests : request[r].pc \in {"fetch", "store"}}

FetchesInv ==
  \A t \in Recent :
    /\ fetched[t] + Cardinality(Asking) <= Cardinality(Requests)
    /\ fetched[t] > 0 => jwks.held /\ jwks.age <= t

GateInv == GateTypeOK /\ LimiterInv /\ NewestPublished /\ FetchesInv

RequestType ==
  [pc : {"idle", "discover", "exchange", "keys", "fetch", "store", "verify", "accepted"},
   kid : 0 .. Kids, keys : SUBSET Key]

LEMMA AskingFinite ==
  /\ IsFiniteSet(Asking) /\ Cardinality(Asking) \in Nat /\ Cardinality(Requests) \in Nat
  /\ Cardinality(Asking) <= Cardinality(Requests)
<1>1. Asking \subseteq Requests /\ IsFiniteSet(Requests)
  BY GateAssumption DEF Asking
<1>2. IsFiniteSet(Asking) /\ Cardinality(Asking) <= Cardinality(Requests)
  BY <1>1, FS_Subset
<1> QED
  BY <1>1, <1>2, FS_CardinalityType

LEMMA GateInitial == GateInit => GateInv
<1> SUFFICES ASSUME GateInit PROVE GateInv
  OBVIOUS
<1>1. LimiterTypeOK
  <2>1. DOMAIN windows = {}
    BY DEF GateInit, LimiterInit
  <2>2. windows \in [DOMAIN windows -> WindowType]
    BY DEF GateInit, LimiterInit
  <2>3. admitted \in [Addrs -> [Span -> Nat]]
    BY DEF GateInit, LimiterInit
  <2> QED
    BY <2>1, <2>2, <2>3 DEF LimiterTypeOK, WindowType
<1>2. LimiterInv
  BY RateLimitAssumption DEF GateInit, LimiterInit, LimiterInv, WindowBounds
<1>3. CacheTypeOK
  <2>1. 1 \in Key /\ 0 \in 0 .. Outages /\ 0 \in 0 .. Cooldown
    BY KeyCacheAssumption DEF Key
  <2>2. NoKeys \in [held : BOOLEAN, keys : SUBSET Key, age : 0 .. Cooldown]
    BY <2>1 DEF NoKeys
  <2>3. published \subseteq Key /\ published # {}
    BY <2>1 DEF GateInit, CacheInit
  <2>4. fetched \in [Recent -> Nat]
    BY DEF GateInit, CacheInit
  <2> QED
    BY <2>1, <2>2, <2>3, <2>4 DEF GateInit, CacheInit, CacheTypeOK
<1>4. \A r \in Requests : request[r] = NoRequest
  BY DEF GateInit
<1>5. NoRequest \in RequestType
  BY KeyCacheAssumption DEF NoRequest, RequestType
<1>6. request \in [Requests -> RequestType]
  BY <1>4, <1>5 DEF GateInit
<1>7. Newest(published) = 1 /\ published = {1}
  <2>1. published = {1}
    BY DEF GateInit, CacheInit
  <2> QED
    BY <2>1, NewestIs
<1>8. NewestPublished
  BY <1>7 DEF NewestPublished
<1>9. FetchesInv
  <2>1. \A t \in Recent : fetched[t] = 0
    BY DEF GateInit, CacheInit
  <2> QED
    BY <2>1, AskingFinite DEF FetchesInv
<1> QED
  BY <1>1, <1>2, <1>3, <1>6, <1>8, <1>9 DEF GateInv, GateTypeOK, RequestType

\* One request moves on. If it stores keys the fetch is counted and it has
\* stopped asking, and it sets out to ask only when no fetch is recent.
LEMMA RequestStep ==
  ASSUME CacheTypeOK, CacheTypeOK', request \in [Requests -> RequestType], FetchesInv,
         NEW r \in Requests, NEW x \in RequestType,
         request' = [request EXCEPT ![r] = x],
         \/ /\ UNCHANGED <<jwks, fetched>>
            /\ \/ x.pc \notin {"fetch", "store"}
               \/ request[r].pc \in {"fetch", "store"}
               \/ \A t \in Recent : fetched[t] = 0
         \/ /\ x.pc \notin {"fetch", "store"} /\ request[r].pc \in {"fetch", "store"}
            /\ fetched' = [t \in Recent |-> fetched[t] + 1]
            /\ jwks'.held /\ jwks'.age = 0
  PROVE  FetchesInv'
<1>0. Recent \subseteq Nat /\ fetched \in [Recent -> Nat]
  BY KeyCacheAssumption DEF CacheTypeOK, Recent
<1>1. \A q \in Requests : request'[q] = IF q = r THEN x ELSE request[q]
  OBVIOUS
<1>2. /\ IsFiniteSet(Asking) /\ Cardinality(Asking) \in Nat /\ Cardinality(Requests) \in Nat
      /\ Cardinality(Asking) <= Cardinality(Requests)
  BY AskingFinite
<1>3. /\ Cardinality(Asking') \in Nat /\ Cardinality(Asking') <= Cardinality(Requests)
  <2>1. Asking' \subseteq Requests /\ IsFiniteSet(Requests)
    BY GateAssumption DEF Asking
  <2>2. IsFiniteSet(Asking') /\ Cardinality(Asking') <= Cardinality(Requests)
    BY <2>1, FS_Subset
  <2> QED
    BY <2>2, FS_CardinalityType
<1>4. CASE UNCHANGED <<jwks, fetched>> /\ \A t \in Recent : fetched[t] = 0
  BY <1>3, <1>4 DEF FetchesInv
<1>5. CASE /\ UNCHANGED <<jwks, fetched>>
           /\ x.pc \notin {"fetch", "store"} \/ request[r].pc \in {"fetch", "store"}
  <2>1. Asking' \subseteq Asking
    BY <1>1, <1>5 DEF Asking
  <2>2. Cardinality(Asking') <= Cardinality(Asking)
    BY <1>2, <2>1, FS_Subset
  <2> QED
    BY <1>0, <1>2, <1>3, <1>5, <2>2 DEF FetchesInv
<1>6. CASE /\ x.pc \notin {"fetch", "store"} /\ request[r].pc \in {"fetch", "store"}
           /\ fetched' = [t \in Recent |-> fetched[t] + 1]
           /\ jwks'.held /\ jwks'.age = 0
  <2>1. Asking' = Asking \ {r} /\ r \in Asking
    BY <1>1, <1>6 DEF Asking
  <2>2. Cardinality(Asking') = Cardinality(Asking) - 1
    BY <1>2, <2>1, FS_RemoveElement
  <2>3. ASSUME NEW t \in Recent
        PROVE  fetched'[t] + Cardinality(Asking') <= Cardinality(Requests) /\ jwks'.age <= t
    BY <1>0, <1>2, <1>6, <2>2 DEF FetchesInv
  <2> QED
    BY <1>6, <2>3 DEF FetchesInv
<1> QED
  BY <1>4, <1>5, <1>6

LEMMA CallbackStep ==
  ASSUME GateInv, NEW r \in Requests, Callback(r)
  PROVE  GateInv'
<1>1. request \in [Requests -> RequestType] /\ CacheTypeOK /\ LimiterTypeOK
  BY DEF GateInv, GateTypeOK, RequestType
<1>2. PICK y \in RequestType : y = request[r]
  BY <1>1
<1>3. published \subseteq Key /\ published \subseteq Nat
  <2>1. published \subseteq Key
    BY <1>1 DEF CacheTypeOK
  <2> QED
    BY <2>1, KeyCacheAssumption DEF Key
<1>4. PICK k \in published : Newest(published) = k
  <2>1. PICK S : S = published
    OBVIOUS
  <2>2. PICK k \in S : \A j \in S : j <= k
    BY <2>1 DEF GateInv, NewestPublished
  <2> QED
    BY <1>3, <2>1, <2>2, NewestIs
<1>5. k \in 0 .. Kids
  BY <1>3 DEF Key
<1>6. UNCHANGED limiterVars
  BY DEF Callback, KnowProvider, Discover, ExchangeCode, KeysFor, FetchKeys, StoreKeys,
         ProviderFails, VerifyToken, Resolved
<1>7. LimiterTypeOK' /\ LimiterInv'
  BY <1>6 DEF GateInv, GateTypeOK, limiterVars, LimiterTypeOK, LimiterInv, WindowBounds, Limits
<1>8. published' = published
  BY DEF Callback, KnowProvider, Discover, ExchangeCode, KeysFor, FetchKeys, StoreKeys,
         ProviderFails, VerifyToken, Resolved, cacheVars, HoldDocument, HoldKeys, Outage
<1>9. CacheTypeOK'
  <2>1. CASE UNCHANGED cacheVars
    BY <1>1, <2>1 DEF cacheVars, CacheTypeOK
  <2>2. CASE HoldDocument
    BY <1>1, <2>2 DEF HoldDocument, CacheTypeOK
  <2>3. CASE HoldKeys(y.keys)
    <3>1. y.keys \in SUBSET Key /\ 0 \in 0 .. Cooldown
      BY KeyCacheAssumption DEF RequestType
    <3>2. fetched' \in [Recent -> Nat]
      BY <1>1, <2>3 DEF HoldKeys, CacheTypeOK
    <3> QED
      BY <1>1, <2>3, <3>1, <3>2 DEF HoldKeys, CacheTypeOK
  <2>4. CASE Outage
    BY <1>1, <2>4, KeyCacheAssumption DEF Outage, CacheTypeOK
  <2> QED
    BY <1>2, <2>1, <2>2, <2>3, <2>4
       DEF Callback, KnowProvider, Discover, ExchangeCode, KeysFor, FetchKeys, StoreKeys,
           ProviderFails, VerifyToken, Resolved
<1>10. NoRequest \in RequestType /\ NoRequest.pc = "idle"
  BY KeyCacheAssumption DEF NoRequest, RequestType
<1> DEFINE Moved(x) == request' = [request EXCEPT ![r] = x]
<1>12. ASSUME NEW pc \in {"exchange", "fetch", "verify"}, Go(r, pc)
       PROVE  \E x \in RequestType : Moved(x) /\ x.pc = pc
  <2> DEFINE x == [y EXCEPT !.pc = pc]
  <2>1. x \in RequestType /\ x.pc = pc
    BY DEF RequestType
  <2>2. Moved(x)
    BY <1>1, <1>2, <1>12 DEF Go
  <2> QED
    BY <2>1, <2>2
<1>13. ASSUME NEW pc \in {"verify", "store", "accepted"}, NEW keys \in SUBSET Key,
              request' = [request EXCEPT ![r].pc = pc, ![r].keys = keys]
       PROVE  \E x \in RequestType : Moved(x) /\ x.pc = pc
  <2> DEFINE x == [y EXCEPT !.pc = pc, !.keys = keys]
  <2>1. x \in RequestType /\ x.pc = pc
    BY DEF RequestType
  <2>2. Moved(x)
    BY <1>1, <1>2, <1>13
  <2> QED
    BY <2>1, <2>2
<1>14. CASE StoreKeys(r)
  <2>1. PICK x \in RequestType : Moved(x) /\ x.pc = "verify"
    BY <1>12, <1>14 DEF StoreKeys
  <2>2. /\ fetched' = [t \in Recent |-> fetched[t] + 1] /\ jwks'.held /\ jwks'.age = 0
        /\ request[r].pc = "store"
    BY <1>14 DEF StoreKeys, HoldKeys, At
  <2>3. FetchesInv'
    BY <1>1, <1>9, <2>1, <2>2, RequestStep DEF GateInv
  <2> QED
    BY <1>1, <1>7, <1>8, <1>9, <2>1, <2>3 DEF GateInv, GateTypeOK, RequestType, NewestPublished
<1>15. ASSUME NEW x \in RequestType, Moved(x), UNCHANGED <<jwks, fetched>>,
              \/ x.pc \notin {"fetch", "store"}
              \/ request[r].pc \in {"fetch", "store"}
              \/ \A t \in Recent : fetched[t] = 0
       PROVE  GateInv'
  <2>1. FetchesInv'
    BY <1>1, <1>9, <1>15, RequestStep DEF GateInv
  <2> QED
    BY <1>1, <1>7, <1>8, <1>9, <1>15, <2>1 DEF GateInv, GateTypeOK, RequestType, NewestPublished
<1>16. ~StoreKeys(r) => UNCHANGED <<jwks, fetched>>
  BY DEF Callback, KnowProvider, Discover, ExchangeCode, KeysFor, FetchKeys,
         ProviderFails, VerifyToken, Resolved, cacheVars, HoldDocument, Outage
<1>17. CASE KnowProvider(r) \/ Discover(r)
  <2>1. PICK x \in RequestType : Moved(x) /\ x.pc = "exchange"
    BY <1>12, <1>17 DEF KnowProvider, Discover
  <2> QED
    BY <1>14, <1>15, <1>16, <2>1
<1>18. CASE ExchangeCode(r)
  <2> DEFINE x == [y EXCEPT !.pc = "keys", !.kid = k]
  <2>1. x \in RequestType /\ x.pc = "keys"
    BY <1>5 DEF RequestType
  <2>2. Moved(x)
    BY <1>1, <1>2, <1>4, <1>18 DEF ExchangeCode
  <2> HIDE DEF x
  <2> QED
    BY <1>14, <1>15, <1>16, <2>1, <2>2
<1>19. CASE KeysFor(r) /\ Serves(request[r].kid)
  <2>1. jwks.keys \in SUBSET Key
    BY <1>1 DEF CacheTypeOK
  <2>2. PICK x \in RequestType : Moved(x) /\ x.pc = "verify"
    BY <1>13, <1>19, <2>1 DEF KeysFor
  <2> QED
    BY <1>14, <1>15, <1>16, <2>2
<1>20. CASE KeysFor(r) /\ ~Serves(request[r].kid)
  <2>1. PICK x \in RequestType : Moved(x)
    BY <1>12, <1>20 DEF KeysFor
  <2>2. ASSUME NEW t \in Recent PROVE fetched[t] = 0
    <3>1. t < Cooldown /\ t \in Nat /\ fetched[t] \in Nat
      BY <1>1, KeyCacheAssumption DEF Recent, CacheTypeOK
    <3>2. ~(jwks.held /\ jwks.age < Cooldown) /\ jwks.age \in Nat
      BY <1>1, <1>20 DEF Serves, CacheTypeOK
    <3>3. fetched[t] > 0 => jwks.held /\ jwks.age <= t
      BY DEF GateInv, FetchesInv
    <3> QED
      BY <3>1, <3>2, <3>3, KeyCacheAssumption
  <2> QED
    BY <1>14, <1>15, <1>16, <2>1, <2>2
<1>21. CASE FetchKeys(r)
  <2>1. PICK x \in RequestType : Moved(x)
    BY <1>3, <1>13, <1>21 DEF FetchKeys
  <2>2. request[r].pc = "fetch"
    BY <1>21 DEF FetchKeys, At
  <2> QED
    BY <1>14, <1>15, <1>16, <2>1, <2>2
<1>22. CASE End(r)
  <2>1. PICK x \in RequestType : Moved(x) /\ x.pc = "idle"
    BY <1>10, <1>22 DEF End
  <2> QED
    BY <1>14, <1>15, <1>16, <2>1
<1>23. CASE VerifyToken(r) /\ ~End(r)
  <2>1. PICK x \in RequestType : Moved(x) /\ x.pc = "accepted"
    BY <1>13, <1>23 DEF VerifyToken
  <2> QED
    BY <1>14, <1>15, <1>16, <2>1
<1> QED
  BY <1>14, <1>17, <1>18, <1>19, <1>20, <1>21, <1>22, <1>23 DEF Callback, ProviderFails, Resolved

LEMMA ProviderStep ==
  ASSUME GateInv, (Provider \/ DocumentExpires) /\ UNCHANGED <<limiterVars, request>>
  PROVE  GateInv'
<1>1. LimiterTypeOK' /\ LimiterInv' /\ request' = request
  BY DEF GateInv, GateTypeOK, limiterVars, LimiterTypeOK, LimiterInv, WindowBounds, Limits
<1>2. CacheTypeOK /\ request \in [Requests -> RequestType]
  BY DEF GateInv, GateTypeOK, RequestType
<1>3. published \subseteq Key /\ Key \subseteq Nat
  BY <1>2, KeyCacheAssumption DEF CacheTypeOK, Key
<1>4. PICK S : S = published
  OBVIOUS
<1>5. PICK k \in S : \A j \in S : j <= k
  BY <1>4 DEF GateInv, NewestPublished
<1>6. Newest(published) = k
  BY <1>3, <1>4, <1>5, NewestIs
<1>8. CacheTypeOK' /\ NewestPublished'
  <2>1. CASE Rotate
    <3>1. PICK T : T = S \cup {k + 1}
      OBVIOUS
    <3>2. published' = T /\ k + 1 \in Key
      <4>1. published' = T /\ k < Kids
        BY <1>4, <1>6, <2>1, <3>1 DEF Rotate
      <4>2. k \in 1 .. Kids
        BY <1>3, <1>4, <1>5 DEF Key
      <4> QED
        BY <4>1, <4>2, KeyCacheAssumption DEF Key
    <3>3. T \subseteq Nat /\ k + 1 \in T /\ \A j \in T : j <= k + 1
      BY <1>3, <1>4, <1>5, <3>1
    <3>6. NewestPublished'
      BY <3>2, <3>3 DEF NewestPublished
    <3> QED
      BY <1>2, <1>3, <1>4, <2>1, <3>1, <3>2, <3>6 DEF Rotate, CacheTypeOK
  <2>2. CASE Withdraw
    <3>1. PICK T : T = {k}
      OBVIOUS
    <3>2. published' = T
      BY <1>6, <2>2, <3>1 DEF Withdraw
    <3>3. T \subseteq Nat /\ k \in T /\ \A j \in T : j <= k
      BY <1>3, <1>4, <1>5, <3>1
    <3>5. NewestPublished'
      BY <3>2, <3>3 DEF NewestPublished
    <3> QED
      BY <1>2, <1>3, <1>4, <2>2, <3>1, <3>2, <3>5 DEF Withdraw, CacheTypeOK
  <2>3. CASE DocumentExpires
    BY <1>1, <1>2, <2>3 DEF DocumentExpires, CacheTypeOK, GateInv, NewestPublished
  <2> QED
    BY <2>1, <2>2, <2>3 DEF Provider
<1>9. FetchesInv'
  <2>1. UNCHANGED <<jwks, fetched>>
    BY DEF Provider, Rotate, Withdraw, DocumentExpires
  <2> QED
    BY <1>1, <2>1 DEF GateInv, FetchesInv, Asking
<1> QED
  BY <1>1, <1>2, <1>8, <1>9 DEF GateInv, GateTypeOK, RequestType

LEMMA GateStep == GateInv /\ [GateNext]_gateVars => GateInv'
<1> SUFFICES ASSUME GateInv, [GateNext]_gateVars PROVE GateInv'
  OBVIOUS
<1>1. LimiterTypeOK /\ LimiterInv /\ CacheTypeOK /\ request \in [Requests -> RequestType]
  BY DEF GateInv, GateTypeOK, RequestType
<1>2. ASSUME LimiterTypeOK', LimiterInv', UNCHANGED cacheVars, UNCHANGED request
      PROVE  GateInv'
  BY <1>2 DEF GateInv, GateTypeOK, cacheVars, CacheTypeOK, NewestPublished, FetchesInv, Asking
<1>3. ASSUME NEW a \in Addrs, Enter(a)
      PROVE  GateInv'
  <2>1. PICK r \in Requests, late \in 0 .. Skew :
          At(r, "idle") /\ Allowed(a, late) /\ Go(r, "discover") /\ UNCHANGED cacheVars
    BY <1>3 DEF Enter
  <2>2. LimiterTypeOK' /\ LimiterInv'
    BY <1>1, <2>1, LimiterStep
  <2>3. PICK y \in RequestType : y = request[r]
    BY <1>1
  <2> DEFINE x == [y EXCEPT !.pc = "discover"]
  <2>4. x \in RequestType /\ x.pc = "discover"
    BY DEF RequestType
  <2>5. request' = [request EXCEPT ![r] = x]
    BY <1>1, <2>1, <2>3 DEF Go
  <2>6. CacheTypeOK' /\ UNCHANGED <<jwks, fetched>> /\ NewestPublished'
    BY <1>1, <2>1 DEF cacheVars, CacheTypeOK, GateInv, NewestPublished
  <2> HIDE DEF x
  <2>7. request' \in [Requests -> RequestType]
    BY <1>1, <2>4, <2>5
  <2>8. FetchesInv'
    BY <1>1, <2>4, <2>5, <2>6, RequestStep DEF GateInv
  <2> QED
    BY <2>2, <2>6, <2>7, <2>8 DEF GateInv, GateTypeOK, RequestType
<1>4. ASSUME NEW a \in Addrs, Refuse(a)
      PROVE  GateInv'
  <2>1. PICK late \in 0 .. Skew : Limited(a, late)
    BY <1>4 DEF Refuse
  <2> QED
    BY <1>1, <1>2, <1>4, <2>1, LimiterStep DEF Refuse
<1>5. CASE Tick
  <2>1. LimiterTypeOK' /\ LimiterInv'
    BY <1>1, <1>5, LimiterTickStep DEF Tick
  <2>2. jwks' \in [held : BOOLEAN, keys : SUBSET Key, age : 0 .. Cooldown]
    <3>1. PICK j \in [held : BOOLEAN, keys : SUBSET Key, age : 0 .. Cooldown] : j = jwks
      BY <1>1 DEF CacheTypeOK
    <3>2. (IF j.held /\ j.age < Cooldown THEN j.age + 1 ELSE j.age) \in 0 .. Cooldown
      BY KeyCacheAssumption
    <3>3. jwks' = [j EXCEPT !.age = IF j.held /\ @ < Cooldown THEN @ + 1 ELSE @]
      BY <1>5, <3>1 DEF Tick, CacheTick
    <3> QED
      BY <3>2, <3>3
  <2>3. UNCHANGED <<published, outages, document, request>>
    BY <1>5 DEF Tick, CacheTick
  <2>4. /\ fetched' \in [Recent -> Nat]
        /\ \A t \in Recent : IF t = 0 THEN fetched'[t] = 0
                             ELSE t - 1 \in Recent /\ fetched'[t] = fetched[t - 1]
    <3>1. \A t \in Recent : t # 0 => t - 1 \in Recent
      BY KeyCacheAssumption DEF Recent
    <3>2. fetched' = [t \in Recent |-> IF t = 0 THEN 0 ELSE fetched[t - 1]]
      BY <1>5 DEF Tick, CacheTick
    <3> QED
      BY <1>1, <3>1, <3>2 DEF CacheTypeOK
  <2>5. /\ jwks.held => jwks'.held /\ jwks'.age <= jwks.age + 1
        /\ jwks.age \in Nat /\ jwks'.age \in Nat
    BY <1>1, <1>5, <2>2, KeyCacheAssumption DEF Tick, CacheTick, CacheTypeOK
  <2>6. Asking' = Asking
    BY <2>3 DEF Asking
  <2>7. FetchesInv'
    <3> SUFFICES ASSUME NEW t \in Recent
                 PROVE  /\ fetched'[t] + Cardinality(Asking) <= Cardinality(Requests)
                        /\ fetched'[t] > 0 => jwks'.held /\ jwks'.age <= t
      BY <2>6 DEF FetchesInv
    <3>1. CASE t = 0
      BY <2>4, <3>1, AskingFinite
    <3>2. CASE t # 0
      <4>1. t - 1 \in Recent /\ fetched'[t] = fetched[t - 1] /\ t \in Nat
        BY <2>4, <3>2, KeyCacheAssumption DEF Recent
      <4>2. /\ fetched[t - 1] + Cardinality(Asking) <= Cardinality(Requests)
            /\ fetched[t - 1] > 0 => jwks.held /\ jwks.age <= t - 1
        BY <4>1 DEF GateInv, FetchesInv
      <4> QED
        BY <2>5, <4>1, <4>2
    <3> QED
      BY <3>1, <3>2
  <2> QED
    BY <1>1, <2>1, <2>2, <2>3, <2>4, <2>7
       DEF GateInv, GateTypeOK, CacheTypeOK, NewestPublished
<1>6. CASE UNCHANGED gateVars
  <2>1. LimiterTypeOK' /\ LimiterInv'
    BY <1>1, <1>6 DEF gateVars, LimiterTypeOK, LimiterInv, WindowBounds, Limits
  <2> QED
    BY <1>2, <1>6, <2>1 DEF gateVars, cacheVars
<1> QED
  BY <1>3, <1>4, <1>5, <1>6, CallbackStep, ProviderStep DEF GateNext

\* Requests, the cache and the limiter's table keep their shape, and no counter
\* goes over its budget, however many requests run at once (check_at, keys_for).
THEOREM GateTypeCorrect == GateSpec => []GateTypeOK
<1>1. GateInv => GateTypeOK
  BY DEF GateInv
<1> QED
  BY <1>1, GateInitial, GateStep, PTL DEF GateSpec

\* An address gets at most two budgets through in a span shorter than a window
\* by the clock's lateness, for every budget, window, lateness and number of
\* addresses, and wherever the sweep comes in (check_at).
THEOREM TwiceBudgetAtMost == GateSpec => []AtMostTwiceBudget
<1>1. GateInv => AtMostTwiceBudget
  <2> SUFFICES ASSUME GateInv, Limits, NEW a \in Addrs, NEW t \in Span
               PROVE  admitted[a][t] <= 2 * Budget
    BY DEF AtMostTwiceBudget
  <2>1. admitted[a][t] \in Nat
    BY DEF GateInv, GateTypeOK, LimiterTypeOK
  <2>2. WindowBounds(a)
    BY DEF GateInv, LimiterInv
  <2>3. CASE a \in DOMAIN windows
    <3>1. windows[a].count \in 1 .. Budget
      BY <2>3 DEF GateInv, GateTypeOK, LimiterTypeOK
    <3>2. admitted[a][t] <= windows[a].count + Budget
      BY <2>2, <2>3 DEF WindowBounds
    <3> QED
      BY <2>1, <3>1, <3>2, RateLimitAssumption
  <2>4. CASE a \notin DOMAIN windows
    <3>1. admitted[a][t] <= Budget
      BY <2>2, <2>4 DEF WindowBounds
    <3> QED
      BY <2>1, <3>1, RateLimitAssumption
  <2> QED
    BY <2>3, <2>4
<1> QED
  BY <1>1, GateInitial, GateStep, PTL DEF GateSpec

\* keys_for: in less than a cooldown the key set is fetched at most as often as
\* there are handlers that run at once, for every cooldown and number of handlers
\* and whatever keys the provider signs with and withdraws.
THEOREM FetchesAreLimited == GateSpec => []RefetchesLimited
<1>1. GateInv => RefetchesLimited
  <2> SUFFICES ASSUME GateInv, NEW t \in Recent PROVE fetched[t] <= Cardinality(Requests)
    BY DEF RefetchesLimited
  <2>1. fetched[t] \in Nat
    BY DEF GateInv, GateTypeOK, CacheTypeOK
  <2> QED
    BY <2>1, AskingFinite DEF GateInv, FetchesInv
<1> QED
  BY <1>1, GateInitial, GateStep, PTL DEF GateSpec
=============================================================================
