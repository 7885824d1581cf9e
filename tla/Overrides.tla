----------------------------- MODULE Overrides -----------------------------
(***************************************************************************)
(* The override table of the split-DNS resolver (wsl-dns, hosts.rs) and    *)
(* what a reply is made from (wire.rs). A name is its sequence of labels,  *)
(* the top-level label first, so a parent domain is a prefix; names are    *)
(* compared after normalise() made them lower-case. A table is a set of    *)
(* entries [domain, wild, address]: an address for a name or, if wild, for *)
(* every name below it. An address is told apart by family and identity.   *)
(***************************************************************************)
EXTENDS Integers, Sequences, SequencesExt

\* normalise(): a name has a label, and a wildcard at least two.
Valid(e) == IF e.wild THEN Len(e.domain) >= 2 ELSE Len(e.domain) >= 1

\* The addresses under one key of the exact or of the wildcard map.
Records(table, domain, wild) ==
  {e.address : e \in {x \in table : x.domain = domain /\ x.wild = wild}}

\* Mutant: the walk starts at the top-level domain.
WalkDown(table, name) ==
  LET Walk[n \in Nat] ==
        IF n >= Len(name) THEN {}
        ELSE LET here == Records(table, SubSeq(name, 1, n), TRUE)
             IN  IF here # {} THEN here ELSE Walk[n + 1]
  IN  Walk[1]

\* lookup(), the walk up the labels: the first wildcard that is met answers.
\* The root has no labels.
WalkUp(table, name) ==
  LET Walk[n \in Nat] ==
        IF n = 0 THEN {}
        ELSE LET here == Records(table, SubSeq(name, 1, n), TRUE)
             IN  IF here # {} THEN here ELSE Walk[n - 1]
  IN  IF name = << >> THEN {} ELSE Walk[Len(name) - 1]

\* lookup(): an exact name first. {} stands for None: no entry is empty.
Lookup(table, name) ==
  LET exact == Records(table, name, FALSE)
  IN  IF exact # {} THEN exact ELSE WalkUp(table, name)

\* remove(): every entry for the name goes, of both families.
Without(table, domain, wild) ==
  {e \in table : ~(e.domain = domain /\ e.wild = wild)}

\* set(): the name answers with this address alone afterwards.
With(table, e) == Without(table, e.domain, e.wild) \cup {e}

\* routed_domains(): a wildcard is routed by its suffix.
RoutedDomains(table) == {e.domain : e \in table}

\* parse_query(): a datagram too short for a header has no reply; a response,
\* another opcode, no or several questions, or a bad name get an error.
ParseError(kind) ==
  CASE kind = "short" -> "none"
    [] kind = "opcode" -> "notimp"
    [] kind \in {"response", "questions", "name"} -> "formerr"

\* answer(): the addresses of the asked family; NODATA for any other type.
Answer(addresses, qtype) ==
  {a \in addresses : \/ qtype = "A" /\ a.family = "v4"
                     \/ qtype = "AAAA" /\ a.family = "v6"}

-----------------------------------------------------------------------------
(* What hosts.rs promises, without the walk.                               *)

\* The entries that cover a name.
Covering(table, name) ==
  {e \in table : IF e.wild THEN e.domain # name /\ IsPrefix(e.domain, name)
                 ELSE e.domain = name}

\* "an exact name beats a wildcard, and a longer wildcard beats a shorter one"
Beats(e, f) == \/ ~e.wild /\ f.wild
               \/ e.wild /\ f.wild /\ Len(e.domain) > Len(f.domain)

\* The addresses that override a name, {} when it is not overridden.
MostSpecific(table, name) ==
  LET cover == Covering(table, name)
  IN  {e.address : e \in {x \in cover : ~\E f \in cover : Beats(f, x)}}
=============================================================================
