-------------------------- MODULE AuditChainProofs --------------------------
(***************************************************************************)
(* Proofs about AuditChain, for any number of writers, users, rows and     *)
(* faults. The inductive invariant adds to the properties what the lock    *)
(* is for: only its holder is past the lock, and what the holder read of   *)
(* the last row is still true.                                             *)
(***************************************************************************)
EXTENDS AuditChain, SequenceTheorems, TLAPS

\* The number of the last row is well defined.
HasLast ==
  /\ DOMAIN rows # {} => LastSeq \in DOMAIN rows
  /\ \A q \in DOMAIN rows : q <= LastSeq
  /\ LastSeq \in Nat

Holding == \A w \in Writers : conn[w].pc \in {"read", "insert", "commit"} => lock = w

ReadIsCurrent ==
  \A w \in Writers : conn[w].pc \in {"insert", "commit"} =>
    conn[w].seq = LastSeq + 1 /\ conn[w].prev = LastHash

Dense == altered = 0 => DOMAIN rows = 1..LastSeq

\* Verification finds nothing before the place of a change, and the change.
BreakAt ==
  /\ altered = 0 => Breaks = {}
  /\ altered # 0 =>
       /\ \A q \in Breaks : altered <= q
       /\ \/ altered \in Breaks
          \/ altered \notin DOMAIN rows /\ altered + 1 \in Breaks

Quiet == migrating => \A w \in Writers : conn[w].pc = "idle"

ChainInv == HasLast /\ Dense /\ BreakAt

Inv == TypeOK /\ Holding /\ ReadIsCurrent /\ ChainInv /\ Quiet

-----------------------------------------------------------------------------
\* A row after the last one is the last one, and no other row changes.
LEMMA AppendRow ==
  ASSUME TypeOK, ChainInv, NEW e \in Events,
         rows' = With(LastSeq + 1, Chained(LastHash, LastSeq + 1, e)),
         UNCHANGED altered
  PROVE  /\ DOMAIN rows' = DOMAIN rows \union {LastSeq + 1}
         /\ rows' = [s \in DOMAIN rows' |-> rows'[s]]
         /\ \A s \in DOMAIN rows : rows'[s] = rows[s]
         /\ rows'[LastSeq + 1] = Chained(LastHash, LastSeq + 1, e)
         /\ LastSeq' = LastSeq + 1
         /\ LastHash' = rows'[LastSeq + 1].hash
         /\ \A s \in DOMAIN rows' : IsRow(rows'[s])
         /\ DOMAIN rows' \subseteq Nat \ {0}
         /\ ChainInv'
<1>a. PICK n \in Nat : n = LastSeq
  BY DEF ChainInv, HasLast
<1>0. LastSeq = n /\ n \in Nat /\ (\A q \in DOMAIN rows : q <= n /\ q \in Nat \ {0}) /\ n + 1 \notin DOMAIN rows
  BY <1>a DEF ChainInv, HasLast, TypeOK
<1>1. /\ DOMAIN rows' = DOMAIN rows \union {n + 1}
      /\ rows' = [s \in DOMAIN rows' |-> rows'[s]]
      /\ \A s \in DOMAIN rows : rows'[s] = rows[s]
      /\ rows'[n + 1] = Chained(LastHash, n + 1, e)
  BY <1>0 DEF With
<1>2. LastSeq' = n + 1
  <2>1. n + 1 \in DOMAIN rows' /\ \A q \in DOMAIN rows' : q <= n + 1 /\ q \in Nat
    BY <1>0, <1>1
  <2>2. \A s \in DOMAIN rows' : (\A q \in DOMAIN rows' : q <= s) => s = n + 1
    BY <1>0, <2>1
  <2>3. LastSeq' = CHOOSE s \in DOMAIN rows' : \A q \in DOMAIN rows' : q <= s
    BY <2>1 DEF LastSeq
  <2> QED BY <2>1, <2>2, <2>3
<1>3. LastHash' = rows'[n + 1].hash
  BY <1>1, <1>2 DEF LastHash
<1>4. \A s \in DOMAIN rows' : IsRow(rows'[s])
  <2>1. IsRow(Chained(LastHash, n + 1, e))
    BY DEF IsRow, Chained
  <2> QED BY <1>1, <2>1 DEF TypeOK
<1>5. DOMAIN rows' \subseteq Nat \ {0}
  BY <1>0, <1>1
<1>6. HasLast'
  BY <1>0, <1>1, <1>2 DEF HasLast
<1>7. Dense'
  <2>1. 1..(n + 1) = (1..n) \union {n + 1}
    BY <1>0
  <2> QED BY <1>0, <1>1, <1>2, <2>1 DEF Dense, ChainInv
<1>8. \A s \in DOMAIN rows : s \in Breaks' <=> s \in Breaks
  <2> SUFFICES ASSUME NEW s \in DOMAIN rows PROVE Problem(s)' <=> Problem(s)
    BY <1>1 DEF Breaks
  <2>1. s - 1 # n + 1
    BY <1>0
  <2>2. Missing(s)' <=> Missing(s)
    BY <1>1, <2>1 DEF Missing
  <2>3. ~Missing(s) => s = 1 \/ rows'[s - 1] = rows[s - 1]
    BY <1>1 DEF Missing
  <2>4. rows'[s] = rows[s]
    BY <1>1
  <2> QED BY <2>2, <2>3, <2>4 DEF Problem
<1>9. altered = 0 => n + 1 \notin Breaks'
  <2> SUFFICES ASSUME altered = 0 PROVE ~Problem(n + 1)'
    BY DEF Breaks
  <2>1. DOMAIN rows = 1..n
    BY <1>0 DEF ChainInv, Dense
  <2>2. ~Missing(n + 1)'
    BY <1>0, <1>1, <2>1 DEF Missing
  <2>3. n # 0 => rows'[n + 1 - 1] = rows[n] /\ LastHash = rows[n].hash
    BY <1>0, <1>1, <2>1 DEF LastHash
  <2>4. n = 0 => LastHash = Genesis
    BY <1>0, <2>1 DEF LastHash
  <2>5. /\ rows'[n + 1].prev = LastHash
        /\ rows'[n + 1].hash = Hash(rows'[n + 1].prev, n + 1, rows'[n + 1].event)
    BY <1>1 DEF Chained
  <2>6. rows'[n + 1].prev = (IF n + 1 = 1 THEN Genesis ELSE rows'[n + 1 - 1].hash)
    BY <1>0, <2>3, <2>4, <2>5
  <2> QED BY <2>2, <2>5, <2>6 DEF Problem
<1>10. BreakAt'
  <2>1. Breaks \subseteq DOMAIN rows /\ Breaks' \subseteq DOMAIN rows'
    BY DEF Breaks
  <2>2. CASE altered = 0
    BY <1>1, <1>8, <1>9, <2>1, <2>2 DEF BreakAt, ChainInv
  <2>3. CASE altered # 0
    <3>1. altered <= n /\ altered \in Nat
      BY <1>0, <2>1, <2>3 DEF BreakAt, ChainInv, TypeOK
    <3>2. \A q \in Breaks' : altered <= q
      BY <1>0, <1>1, <1>8, <2>1, <2>3, <3>1 DEF BreakAt, ChainInv
    <3>3. altered \in Breaks => altered \in Breaks'
      BY <1>8, <2>1
    <3>4. altered \notin DOMAIN rows /\ altered + 1 \in Breaks =>
            altered \notin DOMAIN rows' /\ altered + 1 \in Breaks'
      BY <1>0, <1>1, <1>8, <2>1, <3>1
    <3> QED BY <2>3, <3>2, <3>3, <3>4 DEF BreakAt, ChainInv
  <2> QED BY <2>2, <2>3
<1> QED BY <1>0, <1>1, <1>2, <1>3, <1>4, <1>5, <1>6, <1>7, <1>10 DEF ChainInv

\* What is said about rows stays true while they stay as they are.
LEMMA SameRows ==
  ASSUME UNCHANGED <<rows, altered>>
  PROVE  /\ ChainInv => ChainInv'
         /\ LastSeq' = LastSeq /\ LastHash' = LastHash
<1>1. LastSeq' = LastSeq /\ LastHash' = LastHash
  BY DEF LastSeq, LastHash
<1>2. Breaks' = Breaks
  BY DEF Breaks, Problem, Missing
<1> QED BY <1>1, <1>2 DEF ChainInv, HasLast, Dense, BreakAt

\* An edit of a row leaves its number, and the hash no longer fits its contents.
LEMMA EditBreaks ==
  ASSUME TypeOK, ChainInv, NEW s \in DOMAIN rows, NEW e \in Events, Edit(s, e)
  PROVE  /\ rows' = [q \in DOMAIN rows' |-> rows'[q]] /\ DOMAIN rows' = DOMAIN rows
         /\ \A q \in DOMAIN rows' : IsRow(rows'[q])
         /\ ChainInv'
<1>0. s \in Nat \ {0} /\ altered = 0 /\ altered' = s /\ IsRow(rows[s]) /\ rows[s].event # e
  BY DEF Edit, Behind, TypeOK
<1>1. DOMAIN rows' = DOMAIN rows /\ rows' = [q \in DOMAIN rows' |-> rows'[q]]
  BY DEF Edit, TypeOK
<1>2. \A q \in DOMAIN rows : q # s => rows'[q] = rows[q]
  BY DEF Edit, TypeOK
<1>3. rows'[s] = [event |-> e, prev |-> rows[s].prev, hash |-> rows[s].hash]
  <2>1. rows'[s] = [rows[s] EXCEPT !.event = e]
    BY DEF Edit, TypeOK
  <2> QED BY <1>0, <2>1 DEF IsRow
<1>4. \A q \in DOMAIN rows' : IsRow(rows'[q])
  <2>1. IsRow(rows'[s])
    BY <1>3 DEF IsRow
  <2> QED BY <1>1, <1>2, <2>1 DEF TypeOK
<1>5. LastSeq' = LastSeq
  BY <1>1 DEF LastSeq
<1>6. HasLast' /\ Dense'
  BY <1>0, <1>1, <1>5 DEF ChainInv, HasLast, Dense
<1>7. s \in Breaks'
  <2>1. s \notin Breaks
    BY <1>0 DEF ChainInv, BreakAt
  <2>2. rows[s].hash = Hash(rows[s].prev, s, rows[s].event)
    BY <2>1 DEF Breaks, Problem
  <2>3. rows'[s].hash # Hash(rows'[s].prev, s, rows'[s].event)
    BY <1>0, <1>3, <2>2 DEF Hash
  <2> QED BY <1>1, <2>3 DEF Breaks, Problem
<1>8. \A q \in Breaks' : s <= q
  <2> SUFFICES ASSUME NEW q \in DOMAIN rows, q < s PROVE ~Problem(q)'
    BY <1>0, <1>1 DEF Breaks, TypeOK
  <2>0. q \in Nat \ {0} /\ q # s /\ q - 1 # s
    BY <1>0 DEF TypeOK
  <2>1. ~Problem(q)
    BY <1>0 DEF ChainInv, BreakAt, Breaks
  <2>2. ~Missing(q)
    BY <2>1 DEF Problem
  <2>3. rows'[q] = rows[q] /\ (q # 1 => rows'[q - 1] = rows[q - 1])
    BY <1>2, <2>0, <2>2 DEF Missing
  <2>4. ~Missing(q)'
    BY <1>1, <2>2 DEF Missing
  <2> QED BY <2>1, <2>3, <2>4 DEF Problem
<1>9. BreakAt'
  BY <1>0, <1>7, <1>8 DEF BreakAt
<1> QED BY <1>1, <1>4, <1>6, <1>9 DEF ChainInv

\* The removal of a row leaves a gap before the next one.
LEMMA RemoveBreaks ==
  ASSUME TypeOK, ChainInv, NEW s \in DOMAIN rows, Remove(s)
  PROVE  /\ rows' = [q \in DOMAIN rows' |-> rows'[q]] /\ DOMAIN rows' \subseteq DOMAIN rows
         /\ \A q \in DOMAIN rows' : IsRow(rows'[q])
         /\ ChainInv'
<1>a. PICK n \in Nat : n = LastSeq
  BY DEF ChainInv, HasLast
<1>0. /\ s \in Nat \ {0} /\ altered = 0 /\ altered' = s
      /\ DOMAIN rows = 1..n /\ s < n
  BY <1>a DEF Remove, Behind, TypeOK, ChainInv, Dense, HasLast
<1>1. /\ DOMAIN rows' = DOMAIN rows \ {s} /\ rows' = [q \in DOMAIN rows' |-> rows'[q]]
      /\ \A q \in DOMAIN rows' : rows'[q] = rows[q]
  BY DEF Remove
<1>2. \A q \in DOMAIN rows' : IsRow(rows'[q])
  BY <1>1 DEF TypeOK
<1>3. LastSeq' = n
  <2>1. n \in DOMAIN rows' /\ \A q \in DOMAIN rows' : q <= n /\ q \in Nat
    BY <1>0, <1>1
  <2>2. \A q \in DOMAIN rows' : (\A r \in DOMAIN rows' : r <= q) => q = n
    BY <2>1
  <2>3. LastSeq' = CHOOSE q \in DOMAIN rows' : \A r \in DOMAIN rows' : r <= q
    BY <2>1 DEF LastSeq
  <2> QED BY <2>1, <2>2, <2>3
<1>4. HasLast' /\ Dense'
  BY <1>0, <1>1, <1>3 DEF HasLast, Dense
<1>5. s + 1 \in Breaks'
  <2>1. s + 1 \in DOMAIN rows' /\ (s + 1) - 1 = s /\ s + 1 # 1
    BY <1>0, <1>1
  <2>2. Missing(s + 1)'
    BY <1>1, <2>1 DEF Missing
  <2> QED BY <2>1, <2>2 DEF Breaks, Problem
<1>6. \A q \in Breaks' : s <= q
  <2> SUFFICES ASSUME NEW q \in DOMAIN rows', q < s PROVE ~Problem(q)'
    BY <1>0, <1>1 DEF Breaks, TypeOK
  <2>0. q \in Nat \ {0} /\ q # s /\ q - 1 # s /\ q \in DOMAIN rows
    BY <1>0, <1>1 DEF TypeOK
  <2>1. ~Problem(q)
    BY <1>0, <2>0 DEF ChainInv, BreakAt, Breaks
  <2>2. ~Missing(q)
    BY <2>1 DEF Problem
  <2>3. rows'[q] = rows[q] /\ (q # 1 => q - 1 \in DOMAIN rows' /\ rows'[q - 1] = rows[q - 1])
    BY <1>1, <2>0, <2>2 DEF Missing
  <2>4. ~Missing(q)'
    BY <2>3 DEF Missing
  <2> QED BY <2>1, <2>3, <2>4 DEF Problem
<1>7. BreakAt'
  BY <1>0, <1>1, <1>5, <1>6 DEF BreakAt
<1> QED BY <1>1, <1>2, <1>4, <1>7 DEF ChainInv

-----------------------------------------------------------------------------
\* A step of one connection, to what it is at afterwards.
LEMMA ConnStep ==
  ASSUME TypeOK, NEW w \in Writers, NEW c, IsConn(c), conn' = [conn EXCEPT ![w] = c]
  PROVE  /\ conn' = [v \in Writers |-> conn'[v]]
         /\ \A v \in Writers : IsConn(conn'[v])
         /\ conn'[w] = c
         /\ \A v \in Writers : v # w => conn'[v] = conn[v]
BY DEF TypeOK

\* A step that only moves on leaves the other fields alone.
LEMMA ConnFields ==
  ASSUME TypeOK, NEW w \in Writers
  PROVE  \A step : [conn[w] EXCEPT !.pc = step]
           = [pc |-> step, event |-> conn[w].event, seq |-> conn[w].seq, prev |-> conn[w].prev]
BY DEF TypeOK, IsConn

\* A connection that begins, waits or gives up touches no row; if it ends, it
\* takes the lock with it.
LEMMA BeginStep ==
  ASSUME Inv, NEW w \in Writers, NEW e \in Events,
         ~migrating, conn' = [conn EXCEPT ![w] = Recording(e)],
         At(w, "idle"), users' \subseteq Users,
         UNCHANGED <<rows, migrating, lock, altered, faults>>
  PROVE  Inv'
<1>1. IsConn(Recording(e)) /\ Recording(e).pc = "lock"
  BY DEF IsConn, Recording
<1>2. /\ conn' = [v \in Writers |-> conn'[v]] /\ \A v \in Writers : IsConn(conn'[v])
      /\ conn'[w] = Recording(e) /\ \A v \in Writers : v # w => conn'[v] = conn[v]
  BY <1>1, ConnStep DEF Inv
<1>3. TypeOK'
  BY <1>2 DEF Inv, TypeOK
<1>4. ChainInv' /\ LastSeq' = LastSeq /\ LastHash' = LastHash
  BY SameRows DEF Inv
<1>5. Holding' /\ ReadIsCurrent' /\ Quiet'
  BY <1>1, <1>2, <1>4 DEF Inv, Holding, ReadIsCurrent, Quiet
<1> QED BY <1>3, <1>4, <1>5 DEF Inv

LEMMA EndStep ==
  ASSUME Inv, NEW w \in Writers, Finish(w), Release(w), faults' \in Nat,
         UNCHANGED <<rows, users, migrating, altered>>
  PROVE  Inv'
<1>1. conn' = [conn EXCEPT ![w] = Idle] /\ IsConn(Idle)
  BY DEF IsConn, Idle, Events, Finish
<1>2. /\ conn' = [v \in Writers |-> conn'[v]] /\ \A v \in Writers : IsConn(conn'[v])
      /\ conn'[w] = Idle /\ \A v \in Writers : v # w => conn'[v] = conn[v]
  BY <1>1, ConnStep DEF Inv
<1>3. TypeOK'
  BY <1>2 DEF Inv, TypeOK, Release
<1>4. ChainInv' /\ LastSeq' = LastSeq /\ LastHash' = LastHash
  BY SameRows DEF Inv
<1>5. Holding' /\ ReadIsCurrent' /\ Quiet'
  BY <1>2, <1>4 DEF Inv, Holding, ReadIsCurrent, Quiet, Idle, Release
<1> QED BY <1>3, <1>4, <1>5 DEF Inv

\* The steps of the trigger: whoever gets past the lock is alone there.
LEMMA TriggerStep ==
  ASSUME Inv, NEW w \in Writers, Lock(w) \/ ReadLast(w) \/ InsertRow(w)
  PROVE  Inv'
<1>0. UNCHANGED <<rows, users, migrating, altered, faults>>
  BY DEF Lock, ReadLast, InsertRow
<1>1. PICK c : /\ conn' = [conn EXCEPT ![w] = c] /\ IsConn(c)
               /\ c.pc \in {"read", "insert", "commit"}
               /\ c.pc = "read" => At(w, "lock") /\ lock = NoWriter
               /\ c.pc # "read" => lock = w
               /\ lock' = w
               /\ c.pc \in {"insert", "commit"} => c.seq = LastSeq + 1 /\ c.prev = LastHash
  <2>0. IsConn(conn[w]) /\ TypeOK /\ LastSeq \in Nat
    BY DEF Inv, TypeOK, ChainInv, HasLast
  <2>1. CASE Lock(w)
    <3> DEFINE c == [pc |-> "read", event |-> conn[w].event, seq |-> conn[w].seq, prev |-> conn[w].prev]
    <3>1. conn' = [conn EXCEPT ![w] = c]
      BY <2>0, <2>1, ConnFields DEF Lock
    <3>2. IsConn(c) /\ c.pc = "read"
      BY <2>0 DEF IsConn
    <3> HIDE DEF c
    <3> QED BY <2>1, <3>1, <3>2 DEF Lock
  <2>2. CASE ReadLast(w)
    <3> DEFINE c == [pc |-> "insert", event |-> conn[w].event, seq |-> LastSeq + 1, prev |-> LastHash]
    <3>1. conn' = [conn EXCEPT ![w] = c]
      BY <2>2 DEF ReadLast
    <3>2. IsConn(c) /\ c.pc = "insert" /\ c.seq = LastSeq + 1 /\ c.prev = LastHash
      BY <2>0 DEF IsConn
    <3>3. lock = w /\ lock' = w
      BY <2>2 DEF Inv, Holding, ReadLast, At
    <3> HIDE DEF c
    <3> QED BY <3>1, <3>2, <3>3
  <2>3. CASE InsertRow(w)
    <3> DEFINE c == [pc |-> "commit", event |-> conn[w].event, seq |-> conn[w].seq, prev |-> conn[w].prev]
    <3>1. conn' = [conn EXCEPT ![w] = c]
      BY <2>0, <2>3, ConnFields DEF InsertRow
    <3>2. IsConn(c) /\ c.pc = "commit" /\ c.seq = LastSeq + 1 /\ c.prev = LastHash
      BY <2>0, <2>3 DEF IsConn, InsertRow, At, Inv, ReadIsCurrent
    <3>3. lock = w /\ lock' = w
      BY <2>3 DEF Inv, Holding, InsertRow, At
    <3> HIDE DEF c
    <3> QED BY <3>1, <3>2, <3>3
  <2> QED BY <2>1, <2>2, <2>3
<1>2. /\ conn' = [v \in Writers |-> conn'[v]] /\ \A v \in Writers : IsConn(conn'[v])
      /\ conn'[w] = c /\ \A v \in Writers : v # w => conn'[v] = conn[v]
  BY <1>1, ConnStep DEF Inv
<1>3. TypeOK'
  BY <1>0, <1>1, <1>2 DEF Inv, TypeOK
<1>4. ChainInv' /\ LastSeq' = LastSeq /\ LastHash' = LastHash
  BY <1>0, SameRows DEF Inv
<1>5. Holding'
  BY <1>1, <1>2, AuditAssumption DEF Inv, Holding
<1>6. ReadIsCurrent'
  BY <1>1, <1>2, <1>4 DEF Inv, ReadIsCurrent
<1>7. ~migrating
  BY DEF Inv, Quiet, Lock, ReadLast, InsertRow, At
<1> QED BY <1>0, <1>3, <1>4, <1>5, <1>6, <1>7 DEF Inv, Quiet

\* The holder's row is chained to the last one, and it leaves nobody past the
\* lock.
LEMMA CommitStep ==
  ASSUME Inv, NEW w \in Writers, Commit(w)
  PROVE  /\ Inv'
         /\ rows' = With(LastSeq + 1, Chained(LastHash, LastSeq + 1, conn[w].event))
<1>0. /\ lock = w /\ conn[w].seq = LastSeq + 1 /\ conn[w].prev = LastHash
      /\ conn[w].event \in Events
  BY DEF Inv, Holding, ReadIsCurrent, Commit, At, TypeOK, IsConn
<1>1. rows' = With(LastSeq + 1, Chained(LastHash, LastSeq + 1, conn[w].event)) /\ UNCHANGED altered
  BY <1>0 DEF Commit
<1>2. /\ rows' = [s \in DOMAIN rows' |-> rows'[s]] /\ DOMAIN rows' \subseteq Nat \ {0}
      /\ \A s \in DOMAIN rows' : IsRow(rows'[s])
      /\ ChainInv'
  BY <1>0, <1>1, AppendRow DEF Inv
<1>3. conn' = [conn EXCEPT ![w] = Idle] /\ IsConn(Idle)
  BY DEF IsConn, Idle, Events, Commit, Finish
<1>4. /\ conn' = [v \in Writers |-> conn'[v]] /\ \A v \in Writers : IsConn(conn'[v])
      /\ conn'[w] = Idle /\ \A v \in Writers : v # w => conn'[v] = conn[v]
  BY <1>3, ConnStep DEF Inv
<1>5. TypeOK'
  BY <1>2, <1>4 DEF Inv, TypeOK, Commit, Release
<1>6. \A v \in Writers : conn'[v].pc \notin {"read", "insert", "commit"}
  BY <1>0, <1>4 DEF Inv, Holding, Idle
<1>7. Holding' /\ ReadIsCurrent'
  BY <1>6 DEF Holding, ReadIsCurrent
<1>8. Quiet'
  BY DEF Inv, Quiet, Commit, At
<1> QED BY <1>1, <1>2, <1>5, <1>7, <1>8 DEF Inv

\* The migration chains one row after the other.
LEMMA BackfillStep ==
  ASSUME Inv, NEW e \in Events, Backfill(e)
  PROVE  Inv'
<1>1. /\ rows' = With(LastSeq + 1, Chained(LastHash, LastSeq + 1, e))
      /\ migrating /\ UNCHANGED <<users, migrating, lock, conn, altered, faults>>
  BY DEF Backfill
<1>2. /\ rows' = [s \in DOMAIN rows' |-> rows'[s]] /\ DOMAIN rows' \subseteq Nat \ {0}
      /\ \A s \in DOMAIN rows' : IsRow(rows'[s])
      /\ ChainInv'
  BY <1>1, AppendRow DEF Inv
<1>3. TypeOK'
  BY <1>1, <1>2 DEF Inv, TypeOK
<1>4. \A w \in Writers : conn'[w].pc = "idle"
  BY <1>1 DEF Inv, Quiet
<1>5. Holding' /\ ReadIsCurrent' /\ Quiet'
  BY <1>4 DEF Holding, ReadIsCurrent, Quiet
<1> QED BY <1>2, <1>3, <1>5 DEF Inv

\* Going round the triggers waits until no connection is writing.
LEMMA AroundStep ==
  ASSUME Inv, Around
  PROVE  Inv'
<1>1. PICK s \in DOMAIN rows : Remove(s) \/ \E e \in Events : Edit(s, e)
  BY DEF Around
<1>2. Behind(s)
  BY <1>1 DEF Remove, Edit
<1>3. /\ rows' = [q \in DOMAIN rows' |-> rows'[q]] /\ DOMAIN rows' \subseteq DOMAIN rows
      /\ \A q \in DOMAIN rows' : IsRow(rows'[q])
      /\ ChainInv'
  BY <1>1, EditBreaks, RemoveBreaks DEF Inv
<1>4. altered' \in Nat /\ faults' \in Nat /\ UNCHANGED <<users, migrating, lock, conn>>
  BY <1>2 DEF Behind, Spend, Inv, TypeOK
<1>5. TypeOK'
  BY <1>3, <1>4 DEF Inv, TypeOK
<1>6. \A w \in Writers : conn'[w].pc = "idle"
  BY <1>2, <1>4 DEF Behind, At
<1>7. Holding' /\ ReadIsCurrent' /\ Quiet'
  BY <1>6 DEF Holding, ReadIsCurrent, Quiet
<1> QED BY <1>3, <1>5, <1>7 DEF Inv

-----------------------------------------------------------------------------
LEMMA InvInit == Init => Inv
<1> SUFFICES ASSUME Init PROVE Inv
  OBVIOUS
<1>1. DOMAIN rows = {} /\ rows = [s \in DOMAIN rows |-> rows[s]]
  BY DEF Init
<1>2. LastSeq = 0 /\ altered = 0 /\ Breaks = {}
  BY <1>1 DEF LastSeq, Init, Breaks
<1>3. ChainInv
  BY <1>1, <1>2 DEF ChainInv, HasLast, Dense, BreakAt
<1>4. \A w \in Writers : conn[w] = Idle
  BY DEF Init
<1>5. IsConn(Idle) /\ Idle.pc = "idle"
  BY DEF IsConn, Idle, Events
<1>6. TypeOK
  BY <1>1, <1>4, <1>5 DEF TypeOK, Init
<1> QED BY <1>3, <1>4, <1>5, <1>6 DEF Inv, Holding, ReadIsCurrent, Quiet

LEMMA InvNext == Inv /\ [Next]_vars => Inv'
<1> SUFFICES ASSUME Inv, [Next]_vars PROVE Inv'
  OBVIOUS
<1>1. ASSUME NEW e \in Events, Backfill(e) PROVE Inv'
  BY <1>1, BackfillStep
<1>2. CASE MigrationDone
  <2>1. ChainInv' /\ LastSeq' = LastSeq /\ LastHash' = LastHash
    BY <1>2, SameRows DEF Inv, MigrationDone
  <2>2. TypeOK'
    BY <1>2 DEF Inv, TypeOK, MigrationDone
  <2>3. Holding' /\ ReadIsCurrent' /\ Quiet'
    BY <1>2, <2>1 DEF Inv, Holding, ReadIsCurrent, Quiet, MigrationDone
  <2> QED BY <2>1, <2>2, <2>3 DEF Inv
<1>3. ASSUME NEW w \in Writers, NEW e \in users \union {NoUser}, Insert(w, e) PROVE Inv'
  BY <1>3, BeginStep DEF Insert, Inv, TypeOK, Events
<1>4. ASSUME NEW w \in Writers, NEW u \in Users, DeleteUser(w, u) PROVE Inv'
  BY <1>4, BeginStep DEF DeleteUser, Inv, TypeOK, Events
<1>5. ASSUME NEW w \in Writers, WriterStep(w) PROVE Inv'
  <2>1. CASE Lock(w) \/ ReadLast(w) \/ InsertRow(w)
    BY <2>1, TriggerStep
  <2>2. CASE InsertRefused(w)
    BY <2>2, EndStep DEF InsertRefused, Inv, TypeOK
  <2>3. CASE Commit(w)
    BY <2>3, CommitStep
  <2> QED BY <1>5, <2>1, <2>2, <2>3 DEF WriterStep
<1>6. ASSUME NEW w \in Writers, Rollback(w) PROVE Inv'
  BY <1>6, EndStep DEF Rollback, Spend, Inv, TypeOK
<1>7. CASE Around
  BY <1>7, AroundStep
<1>8. CASE UNCHANGED vars
  <2>1. ChainInv' /\ LastSeq' = LastSeq /\ LastHash' = LastHash
    BY <1>8, SameRows DEF Inv, vars
  <2> QED BY <1>8, <2>1 DEF Inv, TypeOK, Holding, ReadIsCurrent, Quiet, vars
<1> QED BY <1>1, <1>2, <1>3, <1>4, <1>5, <1>6, <1>7, <1>8 DEF Next, Migration, Read

LEMMA InvHolds == Spec => []Inv
BY InvInit, InvNext, PTL DEF Spec

-----------------------------------------------------------------------------
(***************************************************************************)
(* Rows, users, the lock and the connections keep their shape.             *)
(***************************************************************************)
THEOREM TypeCorrect == Spec => []TypeOK
<1>1. Inv => TypeOK
  BY DEF Inv
<1> QED BY <1>1, InvHolds, PTL

(***************************************************************************)
(* However writers, rollbacks and refused inserts interleave, a log nobody *)
(* went behind passes audit_verify().                                      *)
(***************************************************************************)
THEOREM UntouchedLogVerifies == Spec => []UntouchedVerifies
<1>1. Inv => UntouchedVerifies
  BY DEF Inv, ChainInv, BreakAt, UntouchedVerifies, Intact
<1> QED BY <1>1, InvHolds, PTL

(***************************************************************************)
(* The number the trigger computes is free when the row is inserted and    *)
(* when it is committed: the unique index never refuses an event.          *)
(***************************************************************************)
THEOREM NumbersAreFree == Spec => []NumberIsFree
<1>1. Inv => NumberIsFree
  BY DEF Inv, ChainInv, HasLast, ReadIsCurrent, NumberIsFree, At
<1> QED BY <1>1, InvHolds, PTL

(***************************************************************************)
(* Verification points at a row edited or removed behind the triggers,     *)
(* however many events were recorded since, as long as hashes differ.      *)
(***************************************************************************)
THEOREM ChangesAreReported == Spec => []ChangeIsReported
<1>1. Inv => ChangeIsReported
  <2> SUFFICES ASSUME Inv, altered # 0
               PROVE  Breaks # {} /\ FirstBreak \in {altered, altered + 1}
    BY DEF ChangeIsReported
  <2>0. altered \in Nat /\ Breaks \subseteq DOMAIN rows /\ DOMAIN rows \subseteq Nat
    BY DEF Inv, TypeOK, Breaks
  <2>1. PICK m \in Breaks : m \in {altered, altered + 1} /\ \A q \in Breaks : m <= q
    <3>1. CASE altered \in Breaks
      BY <3>1 DEF Inv, ChainInv, BreakAt
    <3>2. CASE altered \notin DOMAIN rows /\ altered + 1 \in Breaks
      <4>1. \A q \in Breaks : altered + 1 <= q
        BY <2>0, <3>2 DEF Inv, ChainInv, BreakAt
      <4> QED BY <3>2, <4>1
    <3> QED BY <3>1, <3>2 DEF Inv, ChainInv, BreakAt
  <2>2. \A s \in Breaks : (\A q \in Breaks : s <= q) => s = m
    BY <2>0, <2>1
  <2> QED BY <2>1, <2>2 DEF FirstBreak
<1> QED BY <1>1, InvHolds, PTL

-----------------------------------------------------------------------------
\* Seen as a sequence, a row chained to the last one is an event appended.
LEMMA AppendMaps ==
  ASSUME Inv, NEW e \in Events, UNCHANGED altered,
         rows' = With(LastSeq + 1, Chained(LastHash, LastSeq + 1, e))
  PROVE  [Abstract!Next]_<<LogOfRows, altered = 0>>
<1>a. PICK n \in Nat : n = LastSeq
  BY DEF Inv, ChainInv, HasLast
<1>1. /\ DOMAIN rows' = DOMAIN rows \union {n + 1}
      /\ \A s \in DOMAIN rows : rows'[s] = rows[s]
      /\ rows'[n + 1] = Chained(LastHash, n + 1, e)
      /\ LastSeq' = n + 1
  BY <1>a, AppendRow DEF Inv
<1>2. CASE altered = 0
  <2>1. DOMAIN rows = 1..n
    BY <1>a, <1>2 DEF Inv, ChainInv, Dense
  <2>2. LogOfRows = [s \in 1..n |-> rows[s].event]
    BY <1>a, <1>2 DEF LogOfRows
  <2>3. LogOfRows' = [s \in 1..(n + 1) |-> rows'[s].event]
    BY <1>1, <1>2 DEF LogOfRows
  <2>4. LogOfRows \in Seq(Events) /\ Len(LogOfRows) = n
    <3>1. \A s \in 1..n : rows[s].event \in Events
      BY <2>1 DEF Inv, TypeOK, IsRow
    <3> QED BY <2>2, <3>1
  <2>5. /\ Append(LogOfRows, e) \in Seq(Events) /\ Len(Append(LogOfRows, e)) = n + 1
        /\ \A s \in 1..n : Append(LogOfRows, e)[s] = LogOfRows[s]
        /\ Append(LogOfRows, e)[n + 1] = e
    BY <2>4, AppendProperties
  <2>6. ASSUME NEW s \in 1..(n + 1)
        PROVE  rows'[s].event = Append(LogOfRows, e)[s] /\ rows'[s].event \in Events
    <3>1. CASE s = n + 1
      BY <1>1, <2>5, <3>1 DEF Chained
    <3>2. CASE s # n + 1
      <4>1. s \in 1..n
        BY <3>2
      <4>2. rows'[s].event = LogOfRows[s] /\ LogOfRows[s] \in Events
        BY <1>1, <2>1, <2>2, <2>4, <4>1
      <4> QED BY <2>5, <4>1, <4>2
    <3> QED BY <3>1, <3>2
  <2>7. LogOfRows' = Append(LogOfRows, e)
    <3>1. LogOfRows' \in Seq(Events) /\ Len(LogOfRows') = n + 1
      BY <2>3, <2>6
    <3>2. \A s \in 1..(n + 1) : LogOfRows'[s] = Append(LogOfRows, e)[s]
      BY <2>3, <2>6
    <3> QED BY <2>5, <3>1, <3>2, SeqEqual
  <2> QED BY <1>2, <2>7 DEF Abstract!Next, Abstract!Record
<1>3. CASE altered # 0
  BY <1>3 DEF LogOfRows
<1> QED BY <1>2, <1>3

(***************************************************************************)
(* The table with its triggers implements the append-only log of module    *)
(* AuditLog: while nobody goes behind the triggers, each step of any       *)
(* connection appends one whole event or changes nothing.                  *)
(***************************************************************************)
THEOREM LogIsImplemented == Spec => ImplementsLog
<1>1. Init => Abstract!Init
  BY DEF Init, Abstract!Init, LogOfRows, LastSeq
<1>2. Inv /\ [Next]_vars => [Abstract!Next]_<<LogOfRows, altered = 0>>
  <2> SUFFICES ASSUME Inv, [Next]_vars PROVE [Abstract!Next]_<<LogOfRows, altered = 0>>
    OBVIOUS
  <2>1. ASSUME UNCHANGED <<rows, altered>> PROVE UNCHANGED <<LogOfRows, altered = 0>>
    BY <2>1, SameRows DEF LogOfRows
  <2>2. ASSUME NEW e \in Events, Backfill(e) PROVE [Abstract!Next]_<<LogOfRows, altered = 0>>
    BY <2>2, AppendMaps DEF Backfill
  <2>3. ASSUME NEW w \in Writers, Commit(w) PROVE [Abstract!Next]_<<LogOfRows, altered = 0>>
    <3>1. rows' = With(LastSeq + 1, Chained(LastHash, LastSeq + 1, conn[w].event))
      BY <2>3, CommitStep
    <3>2. conn[w].event \in Events /\ UNCHANGED altered
      BY <2>3 DEF Commit, Inv, TypeOK, IsConn
    <3> QED BY <3>1, <3>2, AppendMaps
  <2>4. CASE Around
    <3>1. PICK s \in DOMAIN rows : Behind(s)
      BY <2>4 DEF Around, Remove, Edit
    <3>2. altered' # 0
      BY <3>1 DEF Behind, Inv, TypeOK
    <3> QED BY <3>2 DEF Abstract!Next, Abstract!Bypass
  <2>5. ASSUME NEW w \in Writers, WriterStep(w), ~Commit(w) PROVE UNCHANGED <<rows, altered>>
    BY <2>5 DEF WriterStep, Lock, ReadLast, InsertRow, InsertRefused
  <2>6. CASE UNCHANGED vars \/ MigrationDone
    BY <2>1, <2>6 DEF vars, MigrationDone
  <2>7. ASSUME NEW w \in Writers,
               \/ \E e \in users \union {NoUser} : Insert(w, e)
               \/ \E u \in Users : DeleteUser(w, u)
               \/ Rollback(w)
        PROVE  UNCHANGED <<rows, altered>>
    BY <2>7 DEF Insert, DeleteUser, Rollback
  <2> QED BY <2>1, <2>2, <2>3, <2>4, <2>5, <2>6, <2>7 DEF Next, Migration, Read
<1> QED BY <1>1, <1>2, InvHolds, PTL DEF Spec, ImplementsLog, Abstract!Spec
=============================================================================
