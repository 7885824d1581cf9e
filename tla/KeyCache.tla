------------------------------ MODULE KeyCache ------------------------------
(***************************************************************************)
(* The provider's signing keys as the control plane holds them: the cached *)
(* discovery document, the cached key set, and the provider they come      *)
(* from, which rotates its keys and does not always answer.                *)
(*                                                                         *)
(* The provider signs with its newest key. It publishes a key before or    *)
(* when it signs with it, and withdraws the older ones when it likes.      *)
(***************************************************************************)
EXTENDS Integers

CONSTANTS
  Kids,         \* the provider's keys are 1 .. Kids, in the order of their use
  Cooldown,     \* JWKS_REFRESH_COOLDOWN
  Outages       \* how many requests the provider may fail to answer

ASSUME KeyCacheAssumption ==
  /\ Kids \in Nat \ {0}
  /\ Cooldown \in Nat \ {0}
  /\ Outages \in Nat

VARIABLES
  published,    \* the provider's key set
  outages,      \* how many requests it has failed to answer
  document,     \* whether a discovery document is held, and within METADATA_TTL
  jwks,         \* the held key set and its age
  fetched       \* for checking: key sets fetched since the tick t ticks ago began

cacheVars == <<published, outages, document, jwks, fetched>>

Key == 1 .. Kids
Recent == 0 .. (Cooldown - 1)    \* less than a cooldown ago

Newest(keys) == CHOOSE k \in keys : \A j \in keys : j <= k

NoKeys == [held |-> FALSE, keys |-> {}, age |-> 0]

CacheInit ==
  /\ published = {1}
  /\ outages = 0
  /\ document = FALSE
  /\ jwks = NoKeys
  /\ fetched = [t \in Recent |-> 0]

-----------------------------------------------------------------------------
(* The provider.                                                           *)

Rotate ==
  /\ Newest(published) < Kids
  /\ published' = published \cup {Newest(published) + 1}
  /\ UNCHANGED <<outages, document, jwks, fetched>>

Withdraw ==
  /\ published # {Newest(published)}
  /\ published' = {Newest(published)}
  /\ UNCHANGED <<outages, document, jwks, fetched>>

\* A request to the provider fails: no connection, an error, or a malformed
\* answer.
Outage ==
  /\ outages < Outages
  /\ outages' = outages + 1
  /\ UNCHANGED <<published, document, jwks, fetched>>

-----------------------------------------------------------------------------
(* ProviderKeys.                                                           *)

\* METADATA_TTL is over.
DocumentExpires ==
  /\ document
  /\ document' = FALSE
  /\ UNCHANGED <<published, outages, jwks, fetched>>

\* metadata() installs what it fetched.
HoldDocument ==
  /\ document' = TRUE
  /\ UNCHANGED <<published, outages, jwks, fetched>>

\* Mutant: only the age of the set is looked at, and it is never old.
ServesAlways(kid) == jwks.held

\* Mutant: an unknown key is asked for every time.
ServesKnown(kid) == jwks.held /\ kid \in jwks.keys

\* keys_for answers from the cache: it holds the key, or it asked a short time
\* ago.
Serves(kid) == jwks.held /\ (kid \in jwks.keys \/ jwks.age < Cooldown)

\* keys_for installs what it fetched, over whatever is there by now.
HoldKeys(keys) ==
  /\ jwks' = [held |-> TRUE, keys |-> keys, age |-> 0]
  /\ fetched' = [t \in Recent |-> fetched[t] + 1]
  /\ UNCHANGED <<published, outages, document>>

CacheTick ==
  /\ jwks' = [jwks EXCEPT !.age = IF jwks.held /\ @ < Cooldown THEN @ + 1 ELSE @]
  /\ fetched' = [t \in Recent |-> IF t = 0 THEN 0 ELSE fetched[t - 1]]
  /\ UNCHANGED <<published, outages, document>>

CacheTypeOK ==
  /\ published \subseteq Key /\ published # {}
  /\ outages \in 0 .. Outages
  /\ document \in BOOLEAN
  /\ jwks \in [held : BOOLEAN, keys : SUBSET Key, age : 0 .. Cooldown]
  /\ fetched \in [Recent -> Nat]
=============================================================================
