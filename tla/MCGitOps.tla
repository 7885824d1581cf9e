------------------------------ MODULE MCGitOps ------------------------------
(* An instance of GitOps for TLC. The directory is like gitops/examples: a *)
(* network that is also seeded, one that is not, and two policies that     *)
(* overlap. An administrator may withdraw what the first one grants.       *)
EXTENDS GitOps

ExampleItems == [development |-> {"overlay"}, zerotrust |-> {"ssh"}]

Developers ==
  [name |-> "developers", groups |-> {"dev"}, users |-> {}, resources |-> {"development"},
   device |-> {[managed |-> "unset", compliant |-> "unset", required |-> {"disk"}]},
   duration |-> [n |-> 90, unit |-> "m"], connect |-> TRUE]

Everything ==
  [name |-> "everything", groups |-> {}, users |-> {"ann"}, resources |-> {"*"},
   device |-> {}, duration |-> [n |-> 3600, unit |-> "s"], connect |-> TRUE]

Withdrawn == [Developers EXCEPT !.connect = FALSE]

ExamplePolicies == {Developers, Everything}
ExampleEdits == {Withdrawn}

Signal(name, result) == [name |-> name, result |-> result]

\* Both policies apply to Ann's request: her device has the signal the first one
\* names and fails the blanket check of the second. Only the first applies to
\* Bob's, whose device reports nothing.
ExampleRequests ==
  {[user |-> "ann", groups |-> {"dev"}, resource |-> "development",
    posture |-> {Signal("disk", "pass"), Signal("firewall", "unknown")}],
   [user |-> "bob", groups |-> {"dev"}, resource |-> "development", posture |-> {}]}
=============================================================================
