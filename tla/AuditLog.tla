------------------------------ MODULE AuditLog ------------------------------
(***************************************************************************)
(* What the audit log promises: it only grows, one whole event at a time,  *)
(* until somebody goes round its triggers; nothing is promised after that. *)
(***************************************************************************)
EXTENDS Sequences

CONSTANT Events

VARIABLES
  log,      \* the events, oldest first
  trusted   \* nobody has gone round the triggers

Init == log = <<>> /\ trusted = TRUE

Record(e) == trusted /\ log' = Append(log, e) /\ UNCHANGED trusted

Bypass == trusted' = FALSE

Next == (\E e \in Events : Record(e)) \/ Bypass

Spec == Init /\ [][Next]_<<log, trusted>>
=============================================================================
