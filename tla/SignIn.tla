------------------------------- MODULE SignIn -------------------------------
(***************************************************************************)
(* Signing in from a native client: the agent's browser_login, the browser *)
(* it opens, the identity provider, and the handlers authorize, callback   *)
(* and exchange of the control plane; beside it the password sign-in with  *)
(* OpsAPI.                                                                 *)
(*                                                                         *)
(* A handshake is named by the state parameter it was given. The browser   *)
(* may repeat any request it has made, with any code and any state it has  *)
(* seen, as long after as it likes; requests and replies may be lost. A    *)
(* row expires at any moment, which stands for the clocks of both tables,  *)
(* and a client stops waiting at any moment. The kernel may give a client  *)
(* the loopback port of an earlier one.                                    *)
(*                                                                         *)
(* Simplifications: a client's verifier is the client itself; the          *)
(* provider's PKCE verifier and the nonce of a handshake are its state.    *)
(* Which user a person is, is in Directory, and with which key an id_token *)
(* is checked, in Gate.                                                    *)
(***************************************************************************)
EXTENDS Integers, FiniteSets

CONSTANTS
  Clients,      \* sign-in attempts of native clients
  Ports,        \* loopback ports
  States,       \* values of the state parameter, which bound the handshakes
  People,       \* who may sign in at the provider
  None          \* no client, no port, nobody

ASSUME SignInAssumption ==
  /\ None \notin Clients \cup Ports \cup States \cup People \cup [s256 : Clients]
  /\ Clients \cap States = {}

VARIABLES
  client,     \* the native clients
  row,        \* oidc_auth_states
  account,    \* who signed in at the provider in each handshake
  handler,    \* the callback() that runs for each state
  code,       \* oidc_cli_exchanges, by the handshake that ended in it
  tab,        \* the redirects to native clients that browsers have been sent
  minted      \* access tokens, by the handshake they come from

vars == <<client, row, account, handler, code, tab, minted>>

NoClient == [pc |-> "idle", port |-> None, code |-> None, person |-> None]
NoRow == [status |-> "none", port |-> None, challenge |-> None]
NoHandler == [pc |-> "none", code |-> None, person |-> None]
NoCode == [status |-> "none", challenge |-> None, person |-> None]

Init ==
  /\ client = [c \in Clients |-> NoClient]
  /\ row = [s \in States |-> NoRow]
  /\ account = [s \in States |-> None]
  /\ handler = [s \in States |-> NoHandler]
  /\ code = [s \in States |-> NoCode]
  /\ tab = {}
  /\ minted = [s \in States |-> 0]

Ended == {"signedIn", "refused", "failed"}

\* The challenge of a client's verifier: a hash, which gives nothing away.
Challenge(c) == [s256 |-> c]

\* The browser's redirect to the client that started handshake s.
Redirect(s, answer) == [port |-> row[s].port, state |-> s, answer |-> answer]

-----------------------------------------------------------------------------
(* The native client.                                                      *)

Step(c, pc) == client' = [client EXCEPT ![c].pc = pc]

\* A port the kernel may pick: nobody listens there now.
FreePort(p) == \A c \in Clients : client[c].port = p => client[c].pc \in Ended

\* check_control_plane: what answers there is no control plane, or nothing does.
PreflightFails(c) ==
  /\ client[c].pc = "idle"
  /\ Step(c, "failed")
  /\ UNCHANGED <<row, account, handler, code, tab, minted>>

\* browser_login: the control plane is there, a listener is bound, and the
\* browser is given the authorize URL.
StartBrowser(c) ==
  /\ client[c].pc = "idle"
  /\ \E p \in Ports : /\ FreePort(p)
                      /\ client' = [client EXCEPT ![c].pc = "waiting", ![c].port = p]
  /\ UNCHANGED <<row, account, handler, code, tab, minted>>

\* wait_for_code: the callback path was requested with a code or an error.
\* Every other request is answered and forgotten.
Receive(c, m) ==
  /\ client[c].pc = "waiting"
  /\ m \in tab /\ m.port = client[c].port
  /\ IF m.answer = "code"
     THEN client' = [client EXCEPT ![c].pc = "redeem", ![c].code = m.state]
     ELSE Step(c, "refused")
  /\ UNCHANGED <<row, account, handler, code, tab, minted>>

\* LOGIN_TIMEOUT: the listener is closed, and whatever the browser does later
\* finds nobody, or the client that was given the port next.
Timeout(c) ==
  /\ client[c].pc = "waiting"
  /\ Step(c, "failed")
  /\ UNCHANGED <<row, account, handler, code, tab, minted>>

\* Mutant: the verifier is not compared.
ExchangeUnbound(c) ==
  LET s == client[c].code IN
  /\ client[c].pc = "redeem"
  /\ code' = [code EXCEPT ![s].status = IF @ = "live" THEN "gone" ELSE @]
  /\ Step(c, IF code[s].status = "live" THEN "minting" ELSE "failed")
  /\ UNCHANGED <<row, account, handler, tab, minted>>

\* redeem(): the control plane's exchange() deletes the code if it has not
\* expired, whoever presents it, and then compares the verifier.
Exchange(c) ==
  LET s == client[c].code IN
  /\ client[c].pc = "redeem"
  /\ code' = [code EXCEPT ![s].status = IF @ = "live" THEN "gone" ELSE @]
  /\ Step(c, IF code[s].status = "live" /\ code[s].challenge = Challenge(c) THEN "minting" ELSE "failed")
  /\ UNCHANGED <<row, account, handler, tab, minted>>

\* Mutant: an answer that was lost is asked for again.
MintAgain(c) ==
  LET s == client[c].code IN
  /\ client[c].pc = "minting"
  /\ minted' = [minted EXCEPT ![s] = @ + 1]
  /\ \/ client' = [client EXCEPT ![c].pc = "signedIn", ![c].person = code[s].person]
     \/ UNCHANGED client
  /\ UNCHANGED <<row, account, handler, code, tab>>

\* mint_access_token, and the reply reaches the client or is lost.
MintForClient(c) ==
  LET s == client[c].code IN
  /\ client[c].pc = "minting"
  /\ minted' = [minted EXCEPT ![s] = @ + 1]
  /\ \/ client' = [client EXCEPT ![c].pc = "signedIn", ![c].person = code[s].person]
     \/ Step(c, "failed")
  /\ UNCHANGED <<row, account, handler, code, tab>>

\* The control plane cannot be reached, or cannot mint.
ClientFails(c) ==
  /\ client[c].pc \in {"redeem", "minting", "password", "challenge", "opsapi"}
  /\ Step(c, "failed")
  /\ UNCHANGED <<row, account, handler, code, tab, minted>>

\* Another process that has seen the redirect presents the code, with a
\* verifier of its own.
PresentOther(s) ==
  /\ \E m \in tab : m.state = s /\ m.answer = "code"
  /\ code[s].status = "live"
  /\ code' = [code EXCEPT ![s].status = "gone"]
  /\ UNCHANGED <<client, row, account, handler, tab, minted>>

\* OpsAPI: methods() and opsapi_url() give the address the password may go to.
StartPassword(c) ==
  /\ client[c].pc = "idle"
  /\ Step(c, "password")
  /\ UNCHANGED <<row, account, handler, code, tab, minted>>

\* begin(): OpsAPI answers a right password with a token or asks for the code
\* it has sent.
Begin(c) ==
  /\ client[c].pc = "password"
  /\ Step(c, "challenge") \/ Step(c, "opsapi")
  /\ UNCHANGED <<row, account, handler, code, tab, minted>>

\* verify_code().
VerifyCode(c) ==
  /\ client[c].pc = "challenge"
  /\ Step(c, "opsapi")
  /\ UNCHANGED <<row, account, handler, code, tab, minted>>

\* exchange(): the control plane asks OpsAPI whose session it is.
OpsapiExchange(c) ==
  /\ client[c].pc = "opsapi"
  /\ Step(c, "signedIn") \/ Step(c, "refused")
  /\ UNCHANGED <<row, account, handler, code, tab, minted>>

-----------------------------------------------------------------------------
(* The browser, and the provider.                                          *)

\* authorize() for the URL of client c, or without a redirect_uri of its own
\* (c = None). The redirect is validated and the provider discovered before the
\* row is inserted.
Authorize(s, c) ==
  /\ row[s].status = "none"
  /\ c # None => client[c].port # None
  /\ row' = [row EXCEPT ![s] =
       IF c = None THEN [NoRow EXCEPT !.status = "live"]
       ELSE [status |-> "live", challenge |-> Challenge(c), port |-> client[c].port]]
  /\ UNCHANGED <<client, account, handler, code, tab, minted>>

\* Somebody signs in at the provider.
Approve(s, p) ==
  /\ row[s].status # "none"
  /\ account[s] = None
  /\ account' = [account EXCEPT ![s] = p]
  /\ UNCHANGED <<client, row, handler, code, tab, minted>>

\* expires_at passes, of a handshake or of a code. The rows stay.
Expire(s) ==
  /\ \/ /\ row[s].status = "live"
        /\ row' = [row EXCEPT ![s].status = "expired"] /\ UNCHANGED code
     \/ /\ code[s].status = "live"
        /\ code' = [code EXCEPT ![s].status = "expired"] /\ UNCHANGED row
  /\ UNCHANGED <<client, account, handler, tab, minted>>

-----------------------------------------------------------------------------
(* callback().                                                             *)

\* Mutant: the row's expiry is not looked at.
TakeRowExpired(s, k) ==
  /\ row[s].status \in {"live", "expired"} /\ account[k] # None
  /\ row' = [row EXCEPT ![s].status = IF @ = "live" THEN "gone" ELSE @]
  /\ handler' = [handler EXCEPT ![s].pc = "provider", ![s].code = k]
  /\ UNCHANGED <<client, account, code, tab, minted>>

\* DELETE FROM oidc_auth_states ... RETURNING, for the state and the provider's
\* code of handshake k in the request.
TakeRow(s, k) ==
  /\ row[s].status = "live" /\ account[k] # None
  /\ row' = [row EXCEPT ![s].status = "gone"]
  /\ handler' = [handler EXCEPT ![s].pc = "provider", ![s].code = k]
  /\ UNCHANGED <<client, account, code, tab, minted>>

EndHandler(s) == handler' = [handler EXCEPT ![s] = NoHandler]

\* The provider's token endpoint: a code is good with the verifier of the
\* handshake it was issued in. That it is good once only is not relied on.
TokenEndpoint(s) ==
  LET k == handler[s].code IN
  /\ handler[s].pc = "provider"
  /\ IF k = s
     THEN handler' = [handler EXCEPT ![s].pc = "verify", ![s].person = account[k]]
     ELSE EndHandler(s)
  /\ UNCHANGED <<client, row, account, code, tab, minted>>

\* verify() with the nonce of the row. One that a replica of an older version
\* has inserted has none, and fails.
Verify(s) ==
  /\ handler[s].pc = "verify"
  /\ handler' = [handler EXCEPT ![s].pc = "resolve"]
  /\ UNCHANGED <<client, row, account, code, tab, minted>>

\* resolve_user: the person is a user, or a native client is told of the refusal.
Resolve(s) ==
  /\ handler[s].pc = "resolve"
  /\ \/ handler' = [handler EXCEPT ![s].pc = "answer"] /\ UNCHANGED tab
     \/ /\ EndHandler(s)
        /\ tab' = IF row[s].port = None THEN tab ELSE tab \cup {Redirect(s, "error")}
  /\ UNCHANGED <<client, row, account, code, minted>>

\* A native client is sent a code it can redeem, a browser its token.
Answer(s) ==
  /\ handler[s].pc = "answer"
  /\ EndHandler(s)
  /\ IF row[s].port = None
     THEN minted' = [minted EXCEPT ![s] = @ + 1] /\ UNCHANGED <<code, tab>>
     ELSE /\ code' = [code EXCEPT ![s] = [status |-> "live", challenge |-> row[s].challenge,
                                          person |-> handler[s].person]]
          /\ tab' = tab \cup {Redirect(s, "code")}
          /\ UNCHANGED minted
  /\ UNCHANGED <<client, row, account>>

\* A statement or the provider fails, or the browser goes away. The row is gone
\* all the same.
HandlerFails(s) ==
  /\ handler[s].pc # "none"
  /\ EndHandler(s)
  /\ UNCHANGED <<client, row, account, code, tab, minted>>

-----------------------------------------------------------------------------
ClientStep(c) ==
  \/ PreflightFails(c) \/ StartBrowser(c) \/ StartPassword(c)
  \/ (\E m \in tab : Receive(c, m)) \/ Timeout(c) \/ ClientFails(c)
  \/ Exchange(c) \/ MintForClient(c)
  \/ Begin(c) \/ VerifyCode(c) \/ OpsapiExchange(c)

HandlerStep(s) ==
  TokenEndpoint(s) \/ Verify(s) \/ Resolve(s) \/ Answer(s) \/ HandlerFails(s)

BrowserStep(s) ==
  \/ \E c \in Clients \cup {None} : Authorize(s, c)
  \/ \E p \in People : Approve(s, p)
  \/ \E k \in States : TakeRow(s, k)
  \/ Expire(s) \/ PresentOther(s)

Next ==
  \/ \E c \in Clients : ClientStep(c)
  \/ \E s \in States : HandlerStep(s) \/ BrowserStep(s)

\* Nothing is assumed to happen: a person may leave any prompt unanswered, and
\* redeem() waits for its reply without a limit.
Spec == Init /\ [][Next]_vars

-----------------------------------------------------------------------------
Client == [pc : {"idle", "waiting", "redeem", "minting", "password", "challenge",
                 "opsapi"} \cup Ended,
           port : Ports \cup {None}, code : States \cup {None}, person : People \cup {None}]
Row == [status : {"none", "live", "expired", "gone"},
        port : Ports \cup {None}, challenge : [s256 : Clients] \cup {None}]
Handler == [pc : {"none", "provider", "verify", "resolve", "answer"},
            code : States \cup {None}, person : People \cup {None}]
Code == [status : {"none", "live", "expired", "gone"},
         challenge : [s256 : Clients] \cup {None}, person : People \cup {None}]

\* Types of the state; a redirect names the client it is for.
TypeOK ==
  /\ client \in [Clients -> Client]
  /\ row \in [States -> Row]
  /\ account \in [States -> People \cup {None}]
  /\ handler \in [States -> Handler]
  /\ code \in [States -> Code]
  /\ tab \subseteq [port : Ports, state : States, answer : {"code", "error"}]
  /\ minted \in [States -> Nat]

\* A client that was sent through the browser is signed in as somebody who
\* signed in at the provider in a handshake this client started: not as whoever
\* used another window, nor as the user of the client that had its port before
\* (exchange() compares the verifier; callback() the PKCE verifier and nonce).
SignedInAsOwnPerson ==
  \A c \in Clients :
    client[c].pc = "signedIn" /\ client[c].code # None =>
      \E s \in States : row[s].challenge = Challenge(c) /\ account[s] = client[c].person

\* A handshake ends in one access token at most, however often the browser
\* repeats the callback and whoever presents the code.
OneTokenPerHandshake == \A s \in States : minted[s] <= 1

\* Nothing comes of a handshake whose row or code expired first.
ExpiredIsWorthless ==
  \A s \in States :
    row[s].status = "expired" \/ code[s].status = "expired" =>
      /\ minted[s] = 0
      /\ \A c \in Clients : client[c].pc = "minting" => client[c].code # s

\* A handshake is worth a token only to the client that started it, and only if
\* that client was still there to redeem its code: after LOGIN_TIMEOUT the browser
\* may finish, the redirect may reach the client that has the port by now and the
\* code may be presented by anybody, and yet no token is minted (wait_for_code,
\* exchange).
AbandonedIsWorthless ==
  \A s \in States, c \in Clients :
    row[s].challenge = Challenge(c) /\ client[c].code # s => minted[s] = 0
=============================================================================
