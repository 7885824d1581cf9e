---------------------------- MODULE MCSplitDns ----------------------------
(* An instance of SplitDns for TLC: a name, and a wildcard over each of    *)
(* the domains above it, with addresses of different families.             *)
EXTENDS SplitDns, TLC

X == <<"com", "x">>
AX == <<"com", "x", "a">>
BAX == <<"com", "x", "a", "b">>

V4 == [family |-> "v4", id |-> 1]
V6 == [family |-> "v6", id |-> 2]

Exact == [domain |-> BAX, wild |-> FALSE, address |-> V4]
WildAX == [domain |-> AX, wild |-> TRUE, address |-> V6]
WildX == [domain |-> X, wild |-> TRUE, address |-> V4]

MCEdits == {Exact}
MCHandEdits == {{WildAX, WildX}}
MCLabels == {"com", "x", "a", "b"}
MCForeign == {AX}
MCQuestions == {[name |-> BAX, qtype |-> "A"]}

Symmetry == Permutations(Commands)
=============================================================================
