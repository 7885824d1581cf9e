----------------------------- MODULE AuditChain -----------------------------
(***************************************************************************)
(* The hash chain over audit_events: the migration that chained the rows   *)
(* already there, the BEFORE INSERT trigger that numbers and links a row   *)
(* under an advisory lock, the triggers that refuse UPDATE and DELETE, and *)
(* audit_verify().                                                         *)
(*                                                                         *)
(* record() is one autocommitted INSERT. Its steps, between which other    *)
(* connections run: wait for the lock; read the last row, in a snapshot    *)
(* taken after the lock was granted; insert, which the unique index on seq *)
(* and the reference to users may refuse; commit, which shows the row to   *)
(* others and releases the lock.                                           *)
(*                                                                         *)
(* Simplifications: an event is the user it is about; all the columns      *)
(* audit_entry_hash() covers are that one value, and every session has the *)
(* same TimeZone, on which the text of created_at depends. The hash has no *)
(* collisions. Rows are keyed by seq, which the unique index justifies.    *)
(***************************************************************************)
EXTENDS Integers, FiniteSets, Sequences

CONSTANTS
  Writers,    \* connections that record events
  Users,      \* users an event may be about
  NoUser,     \* an event about no user, a NULL user_id
  NoWriter,   \* the lock is free
  Genesis,    \* repeat('0', 64)
  MaxRows,    \* bound on the length of the log
  MaxLegacy,  \* bound on the rows older than the migration
  MaxFaults   \* bound on lost connections and on edits that go round the triggers

ASSUME AuditAssumption ==
  /\ NoUser \notin Users /\ NoWriter \notin Writers
  /\ {MaxRows, MaxLegacy, MaxFaults} \subseteq Nat

VARIABLES
  rows,       \* the committed rows, by seq
  users,      \* the users that exist
  migrating,  \* migration 004 is running
  lock,       \* the holder of the advisory lock
  conn,       \* what each connection is doing
  altered,    \* the seq of a row edited or removed behind the triggers, or 0
  faults      \* how many of the bounded faults have happened

vars == <<rows, users, migrating, lock, conn, altered, faults>>

Events == Users \union {NoUser}

\* audit_entry_hash
Hash(prev, seq, e) == <<prev, seq, e>>

\* A row, chained to the one before it.
Chained(prev, seq, e) == [event |-> e, prev |-> prev, hash |-> Hash(prev, seq, e)]

\* ORDER BY seq DESC LIMIT 1
LastSeq == IF DOMAIN rows = {} THEN 0
           ELSE CHOOSE s \in DOMAIN rows : \A q \in DOMAIN rows : q <= s
LastHash == IF DOMAIN rows = {} THEN Genesis ELSE rows[LastSeq].hash

With(s, row) == [q \in DOMAIN rows \union {s} |-> IF q = s THEN row ELSE rows[q]]

Idle == [pc |-> "idle", event |-> NoUser, seq |-> 0, prev |-> Genesis]
Recording(e) == [pc |-> "lock", event |-> e, seq |-> 0, prev |-> Genesis]

Init ==
  /\ rows = [s \in {} |-> Chained(Genesis, s, NoUser)]
  /\ users = Users
  /\ migrating = TRUE
  /\ lock = NoWriter
  /\ conn = [w \in Writers |-> Idle]
  /\ altered = 0 /\ faults = 0

Spend == faults < MaxFaults /\ faults' = faults + 1

-----------------------------------------------------------------------------
(* Migration 004.                                                          *)

\* One turn of the loop over the rows that were there; next_seq and previous are
\* those of the row chained before.
Backfill(e) ==
  /\ migrating /\ LastSeq < MaxLegacy
  /\ rows' = With(LastSeq + 1, Chained(LastHash, LastSeq + 1, e))
  /\ UNCHANGED <<users, migrating, lock, conn, altered, faults>>

MigrationDone ==
  /\ migrating
  /\ migrating' = FALSE
  /\ UNCHANGED <<rows, users, lock, conn, altered, faults>>

-----------------------------------------------------------------------------
(* record() and the trigger audit_events_chain.                            *)

At(w, step) == conn[w].pc = step

Finish(w) == conn' = [conn EXCEPT ![w] = Idle]

\* The lock belongs to the transaction: its end, either way, releases it.
Release(w) == lock' = IF lock = w THEN NoWriter ELSE lock

Insert(w, e) ==
  /\ ~migrating /\ At(w, "idle") /\ LastSeq < MaxRows
  /\ conn' = [conn EXCEPT ![w] = Recording(e)]
  /\ UNCHANGED <<rows, users, migrating, lock, altered, faults>>

\* pg_advisory_xact_lock
Lock(w) ==
  /\ At(w, "lock") /\ lock = NoWriter
  /\ lock' = w
  /\ conn' = [conn EXCEPT ![w].pc = "read"]
  /\ UNCHANGED <<rows, users, migrating, altered, faults>>

\* Mutant: the lock is released as soon as the last row has been read.
ReadLastUnlocks(w) ==
  /\ At(w, "read")
  /\ conn' = [conn EXCEPT ![w].pc = "insert", ![w].seq = LastSeq + 1, ![w].prev = LastHash]
  /\ Release(w)
  /\ UNCHANGED <<rows, users, migrating, altered, faults>>

ReadLast(w) ==
  /\ At(w, "read")
  /\ conn' = [conn EXCEPT ![w] =
       [pc |-> "insert", event |-> @.event, seq |-> LastSeq + 1, prev |-> LastHash]]
  /\ UNCHANGED <<rows, users, migrating, lock, altered, faults>>

\* What the unique index on seq and the reference to users let in.
Admitted(w) == conn[w].seq \notin DOMAIN rows /\ conn[w].event \in users \union {NoUser}

\* The row is in the table, seen by this transaction only.
InsertRow(w) ==
  /\ At(w, "insert") /\ Admitted(w)
  /\ conn' = [conn EXCEPT ![w].pc = "commit"]
  /\ UNCHANGED <<rows, users, migrating, lock, altered, faults>>

\* The INSERT is refused, and the transaction rolled back.
InsertRefused(w) ==
  /\ At(w, "insert") /\ ~Admitted(w)
  /\ Finish(w) /\ Release(w)
  /\ UNCHANGED <<rows, users, migrating, altered, faults>>

Commit(w) ==
  /\ At(w, "commit")
  /\ rows' = With(conn[w].seq, Chained(conn[w].prev, conn[w].seq, conn[w].event))
  /\ Finish(w) /\ Release(w)
  /\ UNCHANGED <<users, migrating, altered, faults>>

\* Mutant: a session-level lock, which outlives its transaction.
RollbackKeepsLock(w) ==
  /\ ~At(w, "idle")
  /\ Spend
  /\ Finish(w)
  /\ UNCHANGED <<rows, users, migrating, lock, altered>>

\* The handler is dropped or the connection lost before the commit.
Rollback(w) ==
  /\ ~At(w, "idle")
  /\ Spend
  /\ Finish(w) /\ Release(w)
  /\ UNCHANGED <<rows, users, migrating, altered>>

-----------------------------------------------------------------------------
(* Users, and what goes round the triggers.                                *)

References(u) == {s \in DOMAIN rows : rows[s].event = u}

\* Mutant: no trigger refuses the UPDATE of ON DELETE SET NULL.
DeleteUserNulls(w, u) ==
  /\ ~migrating /\ At(w, "idle") /\ LastSeq < MaxRows
  /\ u \in users
  /\ users' = users \ {u}
  /\ rows' = [s \in DOMAIN rows |->
       IF s \in References(u) THEN [rows[s] EXCEPT !.event = NoUser] ELSE rows[s]]
  /\ conn' = [conn EXCEPT ![w] = Recording(u)]
  /\ UNCHANGED <<migrating, lock, altered, faults>>

\* routes::users::delete: DELETE FROM users, and then an event about that user.
\* While a row refers to the user, ON DELETE SET NULL is an UPDATE that
\* audit_events_immutable refuses, and the DELETE with it; one inserted and not
\* committed makes the DELETE wait.
DeleteUser(w, u) ==
  /\ ~migrating /\ At(w, "idle") /\ LastSeq < MaxRows
  /\ u \in users /\ References(u) = {}
  /\ \A v \in Writers : At(v, "commit") => conn[v].event # u
  /\ users' = users \ {u}
  /\ conn' = [conn EXCEPT ![w] = Recording(u)]
  /\ UNCHANGED <<rows, migrating, lock, altered, faults>>

\* Disabling a trigger takes a lock on the table that waits for every INSERT.
Behind(s) ==
  /\ ~migrating /\ altered = 0
  /\ s \in DOMAIN rows
  /\ \A w \in Writers : At(w, "idle")
  /\ Spend
  /\ altered' = s
  /\ UNCHANGED <<users, migrating, lock, conn>>

\* A row's contents are changed with the triggers disabled.
Edit(s, e) ==
  /\ Behind(s)
  /\ rows[s].event # e
  /\ rows' = [rows EXCEPT ![s].event = e]

\* A row is deleted with the triggers disabled, and it is not the last one.
Remove(s) ==
  /\ Behind(s)
  /\ s # LastSeq
  /\ rows' = [q \in DOMAIN rows \ {s} |-> rows[q]]

-----------------------------------------------------------------------------
(* audit_verify(): the walk in the order of seq stops at the first row with *)
(* a problem, so a row's rank is its seq when no row before it is missing. *)

Missing(s) == s # 1 /\ s - 1 \notin DOMAIN rows

\* Mutant: the walk follows the links and never looks at the contents.
ProblemLinksOnly(s) ==
  \/ Missing(s)
  \/ rows[s].prev # (IF s = 1 THEN Genesis ELSE rows[s - 1].hash)

Problem(s) ==
  \/ Missing(s)
  \/ rows[s].prev # (IF s = 1 THEN Genesis ELSE rows[s - 1].hash)
  \/ rows[s].hash # Hash(rows[s].prev, s, rows[s].event)

Breaks == {s \in DOMAIN rows : Problem(s)}

Intact == Breaks = {}

\* LIMIT 1
FirstBreak == CHOOSE s \in Breaks : \A q \in Breaks : s <= q

\* GET /audit and /audit/verify read one snapshot and change nothing.
Read == ~migrating /\ UNCHANGED vars

-----------------------------------------------------------------------------
WriterStep(w) ==
  Lock(w) \/ ReadLast(w) \/ InsertRow(w) \/ InsertRefused(w) \/ Commit(w)

Migration == MigrationDone \/ \E e \in Events : Backfill(e)

Around == \E s \in DOMAIN rows : Remove(s) \/ \E e \in Events : Edit(s, e)

Next ==
  \/ Migration
  \/ \E w \in Writers :
       \/ \E e \in users \union {NoUser} : Insert(w, e)
       \/ \E u \in Users : DeleteUser(w, u)
       \/ WriterStep(w)
       \/ Rollback(w)
  \/ Around
  \/ Read

Spec == Init /\ [][Next]_vars

(***************************************************************************)
(* A statement that is not blocked runs on, and a connection that waits    *)
(* for the lock gets it: PostgreSQL grants it in the order of arrival.     *)
(***************************************************************************)
FairSpec ==
  Spec /\ \A w \in Writers : WF_vars(WriterStep(w)) /\ SF_vars(Lock(w))

-----------------------------------------------------------------------------
\* A row as the table holds it, and what a connection remembers.
IsRow(row) ==
  /\ row = [event |-> row.event, prev |-> row.prev, hash |-> row.hash]
  /\ row.event \in Events

IsConn(c) ==
  /\ c = [pc |-> c.pc, event |-> c.event, seq |-> c.seq, prev |-> c.prev]
  /\ c.pc \in {"idle", "lock", "read", "insert", "commit"}
  /\ c.event \in Events /\ c.seq \in Nat

\* Rows, users, the lock and the connections keep their shape; rows are numbered
\* from one.
TypeOK ==
  /\ rows = [s \in DOMAIN rows |-> rows[s]] /\ DOMAIN rows \subseteq Nat \ {0}
  /\ \A s \in DOMAIN rows : IsRow(rows[s])
  /\ users \subseteq Users
  /\ migrating \in BOOLEAN
  /\ lock \in Writers \union {NoWriter}
  /\ conn = [w \in Writers |-> conn[w]] /\ \A w \in Writers : IsConn(conn[w])
  /\ altered \in Nat /\ faults \in Nat

(***************************************************************************)
(* A log nobody went behind verifies, at every moment: backfilled rows and *)
(* rows of any interleaving of writers, rollbacks and refused inserts form *)
(* one unbroken chain.                                                     *)
(***************************************************************************)
UntouchedVerifies == altered = 0 => Intact

(***************************************************************************)
(* The lock decides number and link together: no writer ever loses its     *)
(* event to the unique index because another one took the number.          *)
(***************************************************************************)
NumberIsFree ==
  \A w \in Writers : At(w, "insert") \/ At(w, "commit") => conn[w].seq \notin DOMAIN rows

(***************************************************************************)
(* audit_integrity.rs: a row edited or removed behind the triggers is      *)
(* detected, and verification points at it, or at the row after the one    *)
(* that is missing, also after further events were recorded.               *)
(***************************************************************************)
ChangeIsReported ==
  altered # 0 => Breaks # {} /\ FirstBreak \in {altered, altered + 1}

(***************************************************************************)
(* The table implements the append-only log (module AuditLog).             *)
(***************************************************************************)
LogOfRows ==
  IF altered = 0 THEN [s \in 1..LastSeq |-> rows[s].event] ELSE <<>>

Abstract == INSTANCE AuditLog WITH log <- LogOfRows, trusted <- (altered = 0)

ImplementsLog == Abstract!Spec

(***************************************************************************)
(* Every call of record() comes to an end: nobody is left waiting for the  *)
(* lock by a connection that committed, failed or was lost.                *)
(***************************************************************************)
RecordCompletes == \A w \in Writers : At(w, "lock") ~> At(w, "idle")
=============================================================================
