-------------------------------- MODULE Gate --------------------------------
(***************************************************************************)
(* The way in for the answer of an identity provider: the limiter of the   *)
(* authentication routes, and behind it the check of the id_token with the *)
(* provider's keys. Any number of requests run at once; Requests bounds    *)
(* how many. The limiter's lock is held for one step; the cache's locks    *)
(* are not held while the provider is asked.                               *)
(*                                                                         *)
(* Of the id_token the model keeps the key it is signed with. Whether the  *)
(* rest of it is in order is a choice: that is decided by one call of a    *)
(* pure function, on nothing that another request could change.            *)
(***************************************************************************)
EXTENDS RateLimit, KeyCache

CONSTANT Requests    \* handlers that may run at once

ASSUME GateAssumption == IsFiniteSet(Requests)

VARIABLE request

gateVars == <<windows, admitted, published, outages, document, jwks, fetched, request>>

NoRequest == [pc |-> "idle", kid |-> 0, keys |-> {}]

GateInit ==
  /\ LimiterInit
  /\ CacheInit
  /\ request = [r \in Requests |-> NoRequest]

At(r, pc) == request[r].pc = pc
Go(r, pc) == request' = [request EXCEPT ![r].pc = pc]
End(r) == request' = [request EXCEPT ![r] = NoRequest]

-----------------------------------------------------------------------------
(* The limiter. A request that is refused there leaves no trace.           *)

Enter(a) ==
  /\ \E r \in Requests, late \in 0 .. Skew :
       At(r, "idle") /\ Allowed(a, late) /\ Go(r, "discover")
  /\ UNCHANGED cacheVars

Refuse(a) ==
  /\ \E late \in 0 .. Skew : Limited(a, late)
  /\ UNCHANGED <<cacheVars, request>>

-----------------------------------------------------------------------------
(* callback(), from discovery to the verified identity.                    *)

\* metadata(): the document is held.
KnowProvider(r) ==
  /\ At(r, "discover")
  /\ document
  /\ Go(r, "exchange")
  /\ UNCHANGED <<limiterVars, cacheVars>>

\* metadata(): the document is fetched, and is that of the configured issuer.
Discover(r) ==
  /\ At(r, "discover")
  /\ ~document
  /\ HoldDocument
  /\ Go(r, "exchange")
  /\ UNCHANGED limiterVars

\* The provider answers the authorization code with an id_token, which it
\* signs with its newest key.
ExchangeCode(r) ==
  /\ At(r, "exchange")
  /\ request' = [request EXCEPT ![r].pc = "keys", ![r].kid = Newest(published)]
  /\ UNCHANGED <<limiterVars, cacheVars>>

\* keys_for(): the cache answers, or the provider is asked.
KeysFor(r) ==
  /\ At(r, "keys")
  /\ IF Serves(request[r].kid)
     THEN request' = [request EXCEPT ![r].pc = "verify", ![r].keys = jwks.keys]
     ELSE Go(r, "fetch")
  /\ UNCHANGED <<limiterVars, cacheVars>>

\* The provider answers with the keys of that moment.
FetchKeys(r) ==
  /\ At(r, "fetch")
  /\ request' = [request EXCEPT ![r].pc = "store", ![r].keys = published]
  /\ UNCHANGED <<limiterVars, cacheVars>>

StoreKeys(r) ==
  /\ At(r, "store")
  /\ HoldKeys(request[r].keys)
  /\ Go(r, "verify")
  /\ UNCHANGED limiterVars

\* A request to the provider fails.
ProviderFails(r) ==
  /\ request[r].pc \in {"discover", "exchange", "fetch"}
  /\ ~(At(r, "discover") /\ document)
  /\ Outage
  /\ End(r)
  /\ UNCHANGED limiterVars

\* verify_id_token: the key is in the set, and the token is or is not what it has
\* to be: an accepted algorithm of the key's family, a good signature, the issuer,
\* this application, not expired, a subject, the nonce of the handshake and a
\* verified address.
VerifyToken(r) ==
  /\ At(r, "verify")
  /\ \/ /\ request[r].kid \in request[r].keys
        /\ request' = [request EXCEPT ![r].pc = "accepted", ![r].keys = {}]
     \/ End(r)
  /\ UNCHANGED <<limiterVars, cacheVars>>

\* The identity goes on to resolve_user.
Resolved(r) ==
  /\ At(r, "accepted")
  /\ End(r)
  /\ UNCHANGED <<limiterVars, cacheVars>>

-----------------------------------------------------------------------------
Tick ==
  /\ LimiterTick
  /\ CacheTick
  /\ UNCHANGED request

Callback(r) ==
  \/ KnowProvider(r) \/ Discover(r) \/ ExchangeCode(r) \/ KeysFor(r)
  \/ FetchKeys(r) \/ StoreKeys(r) \/ ProviderFails(r) \/ VerifyToken(r) \/ Resolved(r)

Provider == Rotate \/ Withdraw

GateNext ==
  \/ \E a \in Addrs : Enter(a) \/ Refuse(a)
  \/ \E r \in Requests : Callback(r)
  \/ (Provider \/ DocumentExpires) /\ UNCHANGED <<limiterVars, request>>
  \/ Tick

\* Clients keep asking, the provider answers a request or its connection fails,
\* and time passes.
GateSpec ==
  /\ GateInit
  /\ [][GateNext]_gateVars
  /\ \A a \in Addrs : SF_gateVars(Enter(a))
  /\ \A r \in Requests : WF_gateVars(Callback(r))
  /\ WF_gateVars(Tick)

-----------------------------------------------------------------------------
(* Properties.                                                             *)

\* Counters stay within budget, and requests and the cache keep their shape.
GateTypeOK ==
  /\ LimiterTypeOK
  /\ CacheTypeOK
  /\ request \in [Requests ->
       [pc : {"idle", "discover", "exchange", "keys", "fetch", "store", "verify", "accepted"},
        kid : 0 .. Kids, keys : SUBSET Key]]

\* However requests are spread over time, whatever the sweep removes and however
\* late a request comes to hold the lock, an address gets at most two budgets
\* through in any span of less than a window: "up to 2x the configured rate across a window
\* boundary" (check_at).
AtMostTwiceBudget ==
  Limits => \A a \in Addrs : \A t \in Span : admitted[a][t] <= 2 * Budget

\* "That is also a free request amplifier ... so refreshes are rate limited": in
\* any span of less than the cooldown the provider's key set is fetched at most
\* once for each handler that can run at once, those that set out before the
\* first of them was back, however many tokens come with a key the cache does not
\* hold (keys_for, whose lock is not held while the provider is asked).
RefetchesLimited == \A t \in Recent : fetched[t] <= Cardinality(Requests)

\* "Key rotation has to be picked up without a restart": once the provider has
\* stopped rotating, the key it signs with is held for good, though fetches
\* that began earlier may still be stored over later ones (keys_for).
RotationPickedUp == <>[](Newest(published) \in jwks.keys)

\* A spent budget comes back: an address that keeps asking gets in again,
\* whatever it asked in vain meanwhile (check_at).
BudgetComesBack ==
  \A a \in Addrs : []<>(admitted[a][0] > 0)
=============================================================================
