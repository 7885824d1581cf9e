----------------------------- MODULE RateLimit -----------------------------
(***************************************************************************)
(* The fixed-window request limiter of the control plane, one per router.  *)
(*                                                                         *)
(* Time is measured in ages, which stop growing where no comparison tells  *)
(* them apart, so that time never ends. check() reads the clock before it  *)
(* takes the lock: the time it works with may be Skew ticks old by then.   *)
(***************************************************************************)
EXTENDS Integers, FiniteSets, Functions

CONSTANTS
  Addrs,            \* peer addresses
  Enabled,          \* RateLimitConfig.enabled
  Budget,           \* RateLimitConfig.requests
  Window,           \* RateLimitConfig.window_secs
  Skew,             \* between reading the clock and holding the lock
  SweepThreshold

ASSUME RateLimitAssumption ==
  /\ Enabled \in BOOLEAN
  /\ Budget \in Nat
  /\ Window \in Nat \ {0}
  /\ Skew \in Nat /\ Skew < Window
  /\ SweepThreshold \in Nat

VARIABLES
  windows,      \* RateLimiter.windows: age and count, of the addresses it holds
  admitted      \* how many requests of each address got through, in this tick
                \* and the t before it

limiterVars == <<windows, admitted>>

\* Spans in which no address may see three of its windows: shorter than a
\* window by what the clock may be late.
Span == 0 .. (Window - Skew - 1)

LimiterInit ==
  /\ windows = << >>
  /\ admitted = [a \in Addrs |-> [t \in Span |-> 0]]

\* A budget of zero is no budget.
Limits == Enabled /\ Budget > 0

\* now.duration_since(started), which is never negative.
Elapsed(w, late) == IF w.age > late THEN w.age - late ELSE 0

Expired(w, late) == Elapsed(w, late) >= Window

\* Mutant: a full table is emptied.
SweptAll(late) == IF Cardinality(DOMAIN windows) > SweepThreshold THEN << >> ELSE windows

\* Above the threshold, the expired entries go.
Swept(late) ==
  IF Cardinality(DOMAIN windows) > SweepThreshold
  THEN Restrict(windows, {a \in DOMAIN windows : ~Expired(windows[a], late)})
  ELSE windows

\* The window that check_at counts the request in: a new one if there is none
\* or it is over. Its start is the time check_at works with.
Current(a, late) ==
  LET held == Swept(late)
      fresh == [age |-> late, count |-> 0]
  IN  IF a \in DOMAIN held /\ ~Expired(held[a], late) THEN held[a] ELSE fresh

Hold(a, late, w) == windows' = [b \in DOMAIN Swept(late) \cup {a} |->
                                  IF b = a THEN w ELSE Swept(late)[b]]

Count(a) == admitted' = [admitted EXCEPT ![a] = [t \in Span |-> @[t] + 1]]

\* check_at: the request is counted and passed on.
Allowed(a, late) ==
  \/ ~Limits /\ UNCHANGED limiterVars
  \/ /\ Limits
     /\ Current(a, late).count < Budget
     /\ Hold(a, late, [Current(a, late) EXCEPT !.count = @ + 1])
     /\ Count(a)

\* Mutant: a refused request starts the window again.
LimitedAgain(a, late) ==
  /\ Limits
  /\ Current(a, late).count >= Budget
  /\ Hold(a, late, [Current(a, late) EXCEPT !.age = late])
  /\ UNCHANGED admitted

\* check_at: the budget is spent. The request is answered 429.
Limited(a, late) ==
  /\ Limits
  /\ Current(a, late).count >= Budget
  /\ Hold(a, late, Current(a, late))
  /\ UNCHANGED admitted

\* One tick of the clock.
Age(n, limit) == IF n < limit THEN n + 1 ELSE n

LimiterTick ==
  /\ windows' = [a \in DOMAIN windows |-> [windows[a] EXCEPT !.age = Age(@, Window + Skew)]]
  /\ admitted' = [a \in Addrs |-> [t \in Span |-> IF t = 0 THEN 0 ELSE admitted[a][t - 1]]]

LimiterTypeOK ==
  /\ DOMAIN windows \subseteq Addrs
  /\ windows \in [DOMAIN windows -> [age : 0 .. (Window + Skew), count : 1 .. Budget]]
  /\ admitted \in [Addrs -> [Span -> Nat]]
=============================================================================
