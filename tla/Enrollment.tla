----------------------------- MODULE Enrollment -----------------------------
(***************************************************************************)
(* The credential of one gateway name: GatewayService::register and        *)
(* rotate_token on the control plane, and on the gateway the start-up, the *)
(* stored enrollment.json and the recovery from a rejected credential.     *)
(*                                                                         *)
(* register reads the gateway's row in one statement and upserts it in     *)
(* another; anything may happen in between, and the reply, which holds the *)
(* only copy of the new credential, may be lost.                           *)
(*                                                                         *)
(* Simplifications: every host knows the shared enrollment secret and is   *)
(* configured with the same name; a credential stands for its own hash. A  *)
(* random value is one that nobody holds: credentials and keys that no     *)
(* longer occur anywhere may be used again, which bounds neither.          *)
(***************************************************************************)
EXTENDS Integers, FiniteSets

CONSTANTS
  Hosts,          \* hosts configured with this gateway's name
  Tokens,         \* credentials
  KeyPairs,       \* WireGuard key pairs
  GeneratesKey,   \* wireguard.public_key is not configured
  NoToken,        \* no credential, a NULL auth_token_hash
  NoKey,          \* no key pair yet
  MaxFaults       \* bound on crashes, lost calls and administrators' changes

ASSUME EnrollmentAssumption ==
  /\ Hosts # {} /\ KeyPairs # {} /\ GeneratesKey \in BOOLEAN
  /\ NoToken \notin Tokens /\ NoKey \notin KeyPairs
  /\ MaxFaults \in Nat

\* A random value is always one that nobody holds: there are more credentials
\* than places for them (three on every host, the row and the administrator),
\* and more key pairs than hosts and the row have.
ASSUME EnoughAssumption ==
  /\ IsFiniteSet(Hosts)
  /\ IsFiniteSet(Tokens) => Cardinality(Tokens) > 3 * Cardinality(Hosts) + 2
  /\ IsFiniteSet(KeyPairs) => Cardinality(KeyPairs) > Cardinality(Hosts) + 1

VARIABLES
  row,      \* the row in gateways, if there is one
  file,     \* enrollment.json
  mem,      \* the credential the running process uses
  key,      \* the key pair of the running process
  pc,       \* where each gateway process is
  minted,   \* the credential in the reply to a host's register call
  handed,   \* the credential rotate-token last gave an administrator
  faults    \* how many of the bounded events have happened

hostVars == <<file, mem, key, pc, minted>>
vars == <<row, handed, hostVars, faults>>

NoGateway == [exists |-> FALSE, hash |-> NoToken, key |-> NoKey]

\* The name is new, or it was enrolled before gateways had credentials.
Init ==
  /\ row \in {NoGateway, [exists |-> TRUE, hash |-> NoToken, key |-> NoKey]}
  /\ handed = NoToken
  /\ file = [h \in Hosts |-> NoToken]
  /\ mem = [h \in Hosts |-> NoToken]
  /\ key = [h \in Hosts |-> NoKey]
  /\ pc = [h \in Hosts |-> "down"]
  /\ minted = [h \in Hosts |-> NoToken]
  /\ faults = 0

Goto(h, step) == pc' = [pc EXCEPT ![h] = step]

Spend == faults < MaxFaults /\ faults' = faults + 1

\* generate_token
Held(t) == t \in {row.hash, handed} \/ \E h \in Hosts : t \in {file[h], mem[h], minted[h]}
Unused == {t \in Tokens : ~Held(t)}
NewToken == CHOOSE t \in Unused : TRUE

\* generate_wireguard_keypair
NewKey == CHOOSE k \in KeyPairs : k # row.key /\ \A h \in Hosts : k # key[h]

-----------------------------------------------------------------------------
(* The gateway process.                                                    *)

\* Mutant: the stored credential is not looked at.
StartIgnoresFile(h) ==
  /\ pc[h] = "down"
  /\ key' = [key EXCEPT ![h] = IF GeneratesKey \/ @ = NoKey THEN NewKey ELSE @]
  /\ Goto(h, "enroll")
  /\ UNCHANGED <<row, handed, file, mem, minted, faults>>

\* A process starts: the key pair is configured or generated, and the stored
\* credential is used if there is one.
Start(h) ==
  /\ pc[h] = "down"
  /\ key' = [key EXCEPT ![h] = IF GeneratesKey \/ @ = NoKey THEN NewKey ELSE @]
  /\ mem' = [mem EXCEPT ![h] = file[h]]
  /\ Goto(h, IF file[h] = NoToken THEN "enroll" ELSE "loop")
  /\ UNCHANGED <<row, handed, file, minted, faults>>

\* Where a process continues whose enrollment failed: an error in main() ends
\* it, the loop sleeps and goes on.
Failed(step) == IF step \in {"enroll", "upsert", "reply"} THEN "down" ELSE "loop"

\* register(): the row is read. enroll() sends no credential of its own, so a
\* gateway that has one is Forbidden.
RegisterSelect(h) ==
  /\ pc[h] \in {"enroll", "reenroll"}
  /\ IF row.exists /\ row.hash # NoToken
     THEN Goto(h, Failed(pc[h]))
     ELSE Goto(h, IF pc[h] = "enroll" THEN "upsert" ELSE "reupsert")
  /\ UNCHANGED <<row, handed, file, mem, key, minted, faults>>

\* Mutant: a known gateway is sent the credential it has.
RegisterUpsertKeeps(h) ==
  LET t == IF row.hash = NoToken THEN NewToken ELSE row.hash IN
  /\ pc[h] \in {"upsert", "reupsert"}
  /\ row' = [exists |-> TRUE, hash |-> t, key |-> key[h]]
  /\ minted' = [minted EXCEPT ![h] = t]
  /\ Goto(h, IF pc[h] = "upsert" THEN "reply" ELSE "rereply")
  /\ UNCHANGED <<handed, file, mem, key, faults>>

\* register(): INSERT ... ON CONFLICT (name) DO UPDATE, with a new credential.
RegisterUpsert(h) ==
  /\ pc[h] \in {"upsert", "reupsert"}
  /\ row' = [exists |-> TRUE, hash |-> NewToken, key |-> key[h]]
  /\ minted' = [minted EXCEPT ![h] = NewToken]
  /\ Goto(h, IF pc[h] = "upsert" THEN "reply" ELSE "rereply")
  /\ UNCHANGED <<handed, file, mem, key, faults>>

\* Mutant: the credential is used without having been stored.
StoreMissing(h) ==
  /\ pc[h] \in {"reply", "rereply"}
  /\ mem' = [mem EXCEPT ![h] = minted[h]]
  /\ minted' = [minted EXCEPT ![h] = NoToken]
  /\ Goto(h, "loop")
  /\ UNCHANGED <<row, handed, file, key, faults>>

\* enrollment::store, and the loop uses the new credential.
Store(h) ==
  /\ pc[h] \in {"reply", "rereply"}
  /\ file' = [file EXCEPT ![h] = minted[h]]
  /\ mem' = [mem EXCEPT ![h] = minted[h]]
  /\ minted' = [minted EXCEPT ![h] = NoToken]
  /\ Goto(h, "loop")
  /\ UNCHANGED <<row, handed, key, faults>>

\* The request or its reply is lost, or the credential cannot be written.
EnrollFails(h) ==
  /\ pc[h] \in {"enroll", "upsert", "reply", "reenroll", "reupsert", "rereply"}
  /\ Spend
  /\ minted' = [minted EXCEPT ![h] = NoToken]
  /\ Goto(h, Failed(pc[h]))
  /\ UNCHANGED <<row, handed, file, mem, key>>

\* require_gateway
Accepted(h) == pc[h] = "loop" /\ row.exists /\ mem[h] # NoToken /\ mem[h] = row.hash

\* An accepted heartbeat is answered with a configuration (module Reconcile).
HeartbeatAccepted(h) == Accepted(h) /\ UNCHANGED vars

\* A rejected heartbeat discards the stored credential and enrolls again.
HeartbeatRejected(h) ==
  /\ pc[h] = "loop"
  /\ ~Accepted(h)
  /\ file' = [file EXCEPT ![h] = NoToken]
  /\ Goto(h, "reenroll")
  /\ UNCHANGED <<row, handed, mem, key, minted, faults>>

\* The process is killed, at any point.
Crash(h) ==
  /\ pc[h] # "down"
  /\ Spend
  /\ minted' = [minted EXCEPT ![h] = NoToken]
  /\ Goto(h, "down")
  /\ UNCHANGED <<row, handed, file, mem, key>>

-----------------------------------------------------------------------------
(* The administrator.                                                      *)

\* rotate_token
Rotate ==
  /\ row.exists
  /\ row' = [row EXCEPT !.hash = NewToken]
  /\ handed' = NewToken
  /\ UNCHANGED hostVars

\* The credential may have leaked.
RotateToken == Spend /\ Rotate

\* The credential is lost: nobody has a copy of it.
RotateLost ==
  /\ row.hash # NoToken /\ row.hash # handed
  /\ \A h \in Hosts : row.hash \notin {file[h], mem[h], minted[h]}
  /\ Rotate
  /\ UNCHANGED faults

\* "Place the returned auth_token in the gateway's enrollment.json", while it is
\* the current one, on a host that is refused.
PlaceToken(h) ==
  /\ handed # NoToken /\ handed = row.hash
  /\ \A g \in Hosts : ~Accepted(g) /\ file[g] # handed
  /\ file' = [file EXCEPT ![h] = handed]
  /\ UNCHANGED <<row, handed, mem, key, pc, minted, faults>>

\* A process that runs with some other credential is restarted.
RestartPlaced(h) ==
  /\ pc[h] # "down"
  /\ handed # NoToken /\ handed = row.hash /\ file[h] = handed
  /\ mem[h] # handed
  /\ minted' = [minted EXCEPT ![h] = NoToken]
  /\ Goto(h, "down")
  /\ UNCHANGED <<row, handed, file, mem, key, faults>>

\* "... or delete the gateway record and let it enroll fresh."
DeleteRecord ==
  /\ row.exists
  /\ Spend
  /\ row' = NoGateway
  /\ UNCHANGED <<handed, hostVars>>

-----------------------------------------------------------------------------
HostStep(h) ==
  \/ RegisterSelect(h) \/ RegisterUpsert(h) \/ Store(h)
  \/ HeartbeatAccepted(h) \/ HeartbeatRejected(h)

Next ==
  \/ \E h \in Hosts : \/ Start(h) \/ HostStep(h) \/ EnrollFails(h) \/ Crash(h)
                      \/ PlaceToken(h) \/ RestartPlaced(h)
  \/ RotateToken \/ RotateLost \/ DeleteRecord

Spec == Init /\ [][Next]_vars

(***************************************************************************)
(* A process takes its next step and the service manager starts it again   *)
(* (Restart=always). The administrator attends to the gateway: a lost      *)
(* credential is rotated, the new one placed and the process restarted.    *)
(***************************************************************************)
AttendedSpec ==
  /\ Spec
  /\ WF_vars(RotateLost)
  /\ \A h \in Hosts : /\ WF_vars(HostStep(h)) /\ WF_vars(Start(h))
                      /\ SF_vars(PlaceToken(h)) /\ SF_vars(RestartPlaced(h))

-----------------------------------------------------------------------------
\* The row, the credentials and the processes keep their shape.
TypeOK ==
  /\ row \in [exists : BOOLEAN, hash : Tokens \union {NoToken}, key : KeyPairs \union {NoKey}]
  /\ handed \in Tokens \union {NoToken}
  /\ file \in [Hosts -> Tokens \union {NoToken}]
  /\ mem \in [Hosts -> Tokens \union {NoToken}]
  /\ minted \in [Hosts -> Tokens \union {NoToken}]
  /\ key \in [Hosts -> KeyPairs \union {NoKey}]
  /\ pc \in [Hosts -> {"down", "enroll", "upsert", "reply",
                       "reenroll", "reupsert", "rereply", "loop"}]
  /\ faults \in Nat

(***************************************************************************)
(* A gateway that is served holds its credential on disk: whenever it is   *)
(* killed, it resumes instead of asking to be enrolled again, which would  *)
(* be refused.                                                             *)
(***************************************************************************)
ServedSurvivesRestart == \A h \in Hosts : Accepted(h) => file[h] = row.hash

(***************************************************************************)
(* Of the hosts that share a name at most one is served, however their     *)
(* enrollments and the administrator's rotations interleave.               *)
(***************************************************************************)
OneHostServed == \A g, h \in Hosts : Accepted(g) /\ Accepted(h) => g = h

(***************************************************************************)
(* gateways.rs:70-74: re-enrolling a name that already exists requires the *)
(* gateway's current credential. Nobody here presents one, so the key of a *)
(* gateway with a credential never changes while its record stands. Two    *)
(* first enrollments that both read the row before either writes it break  *)
(* it: the second overwrites the gateway the first has just enrolled (see  *)
(* EnrollmentRace.cfg).                                                    *)
(***************************************************************************)
TakeoverNeedsProof ==
  [][row.exists /\ row.hash # NoToken /\ row'.exists => row'.key = row.key]_vars

(***************************************************************************)
(* The documented recovery works: rotate, place, restart. However many     *)
(* crashes, lost calls and rotations came before, in the end a gateway is  *)
(* served and stays so.                                                    *)
(***************************************************************************)
AttendedGatewayReturns == <>[](\E h \in Hosts : Accepted(h))
=============================================================================
