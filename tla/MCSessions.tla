----------------------------- MODULE MCSessions -----------------------------
(* Instances of Sessions for TLC. A /30 network leaves two addresses for   *)
(* clients (hosts 2 and 3), for which two creations compete; the last /31  *)
(* of a /24 leaves one (host 254), and the pool runs out.                  *)
EXTENDS Sessions, TLC

OneOwner == [d \in Devices |-> CHOOSE u \in Users : TRUE]
Slash30 == 0..3
LastSlash31 == 254..255
Short == {1}
Medium == {2}
Symmetry == Permutations(Tasks) \union Permutations(Sids)
=============================================================================
