-------------------------- MODULE EnrollmentProofs --------------------------
(***************************************************************************)
(* Enrollment for any number of hosts and faults. The inductive invariant  *)
(* follows the current credential, that of the row: a process that uses it *)
(* runs, or would resume, with it on its own disk (InUseIsStored), one     *)
(* host at most has it there (OneFile), and while it is still in the reply *)
(* to register it is nowhere else (MintedIsNowhereElse).                   *)
(***************************************************************************)
EXTENDS Enrollment, FiniteSetTheorems, TLAPS

Current == row.hash

InUseIsStored ==
  \A h \in Hosts : Current # NoToken /\ mem[h] = Current =>
    pc[h] \in {"loop", "down"} /\ file[h] = Current

OneFile ==
  \A g, h \in Hosts : Current # NoToken /\ file[g] = Current /\ file[h] = Current => g = h

MintedIsNowhereElse ==
  \A h \in Hosts : Current # NoToken /\ minted[h] = Current =>
    /\ handed # Current
    /\ \A g \in Hosts : file[g] # Current /\ (minted[g] = Current => g = h)

\* A credential belongs to a row.
RowHasHash == row.exists \/ Current = NoToken

Inv == TypeOK /\ RowHasHash /\ InUseIsStored /\ OneFile /\ MintedIsNowhereElse

-----------------------------------------------------------------------------
(* There is always a credential, and a key pair, that nobody holds.        *)

\* The values of a function on a finite set are no more than its arguments.
LEMMA FewValues ==
  ASSUME NEW f, NEW S, f \in [Hosts -> S]
  PROVE  LET T == {f[h] : h \in Hosts}
         IN  /\ IsFiniteSet(T) /\ Cardinality(T) \in Nat
             /\ Cardinality(Hosts) \in Nat
             /\ Cardinality(T) <= Cardinality(Hosts)
  <1> DEFINE T == {f[h] : h \in Hosts}
  <1>1. f \in Surjection(Hosts, T) BY DEF Surjection
  <1>2. IsFiniteSet(Hosts) BY EnoughAssumption
  <1>3. IsFiniteSet(T) /\ Cardinality(T) <= Cardinality(Hosts)
    BY <1>1, <1>2, FS_Surjection
  <1> QED BY <1>2, <1>3, FS_CardinalityType

LEMMA UnionIsSmall ==
  ASSUME NEW S, IsFiniteSet(S), NEW T, IsFiniteSet(T)
  PROVE  /\ IsFiniteSet(S \cup T)
         /\ Cardinality(S \cup T) \in Nat
         /\ Cardinality(S \cup T) <= Cardinality(S) + Cardinality(T)
  <1>1. IsFiniteSet(S \cap T) BY FS_Subset
  <1>2. /\ Cardinality(S) \in Nat /\ Cardinality(T) \in Nat
        /\ Cardinality(S \cap T) \in Nat
    BY <1>1, FS_CardinalityType
  <1>3. /\ IsFiniteSet(S \cup T)
        /\ Cardinality(S \cup T) = Cardinality(S) + Cardinality(T) - Cardinality(S \cap T)
    BY FS_Union
  <1>4. Cardinality(S \cup T) \in Nat BY <1>3, FS_CardinalityType
  <1> QED BY <1>2, <1>3, <1>4

LEMMA NewTokenIsUnused ==
  ASSUME TypeOK
  PROVE  NewToken \in Tokens /\ ~Held(NewToken)
  <1> DEFINE F == {file[h] : h \in Hosts}
             M == {mem[h] : h \in Hosts}
             R == {minted[h] : h \in Hosts}
             n == Cardinality(Hosts)
  <1>1. /\ IsFiniteSet(F) /\ IsFiniteSet(M) /\ IsFiniteSet(R) /\ n \in Nat
        /\ Cardinality(F) \in Nat /\ Cardinality(M) \in Nat /\ Cardinality(R) \in Nat
        /\ Cardinality(F) <= n /\ Cardinality(M) <= n /\ Cardinality(R) <= n
    <2>1. IsFiniteSet(F) /\ Cardinality(F) \in Nat /\ n \in Nat /\ Cardinality(F) <= n
      <3>1. file \in [Hosts -> Tokens \union {NoToken}] BY DEF TypeOK
      <3> QED BY <3>1, FewValues
    <2>2. IsFiniteSet(M) /\ Cardinality(M) \in Nat /\ Cardinality(M) <= n
      <3>1. mem \in [Hosts -> Tokens \union {NoToken}] BY DEF TypeOK
      <3> QED BY <3>1, FewValues
    <2>3. IsFiniteSet(R) /\ Cardinality(R) \in Nat /\ Cardinality(R) <= n
      <3>1. minted \in [Hosts -> Tokens \union {NoToken}] BY DEF TypeOK
      <3> QED BY <3>1, FewValues
    <2> QED BY <2>1, <2>2, <2>3
  <1> HIDE DEF F, M, R
  <1>2. /\ IsFiniteSet(F \cup M) /\ Cardinality(F \cup M) \in Nat
        /\ Cardinality(F \cup M) <= 2 * n
    <2>1. Cardinality(F \cup M) <= Cardinality(F) + Cardinality(M) BY <1>1, UnionIsSmall
    <2> QED BY <1>1, <2>1, UnionIsSmall
  <1>3. /\ IsFiniteSet((F \cup M) \cup R) /\ Cardinality((F \cup M) \cup R) \in Nat
        /\ Cardinality((F \cup M) \cup R) <= 3 * n
    <2>1. Cardinality((F \cup M) \cup R) <= Cardinality(F \cup M) + Cardinality(R)
      BY <1>1, <1>2, UnionIsSmall
    <2> QED BY <1>1, <1>2, <2>1, UnionIsSmall
  <1> DEFINE H == (F \cup M) \cup R
  <1>4. /\ IsFiniteSet(H \cup {row.hash}) /\ Cardinality(H \cup {row.hash}) \in Nat
        /\ Cardinality(H \cup {row.hash}) <= 3 * n + 1
    <2> HIDE DEF H
    <2>1. /\ IsFiniteSet(H \cup {row.hash})
          /\ Cardinality(H \cup {row.hash}) \in {Cardinality(H), Cardinality(H) + 1}
      BY <1>3, FS_AddElement DEF H
    <2> QED BY <1>1, <1>3, <2>1 DEF H
  <1> DEFINE K == H \cup {row.hash}
  <1>5. /\ IsFiniteSet(K \cup {handed}) /\ Cardinality(K \cup {handed}) \in Nat
        /\ Cardinality(K \cup {handed}) <= 3 * n + 2
    <2> HIDE DEF K
    <2>1. /\ IsFiniteSet(K \cup {handed})
          /\ Cardinality(K \cup {handed}) \in {Cardinality(K), Cardinality(K) + 1}
      BY <1>4, FS_AddElement DEF K
    <2> QED BY <1>1, <1>4, <2>1 DEF K
  <1>6. \A t : Held(t) <=> t \in K \cup {handed} BY DEF Held, F, M, R
  <1>7. ~(Tokens \subseteq K \cup {handed})
    <2> HIDE DEF K
    <2> SUFFICES ASSUME Tokens \subseteq K \cup {handed} PROVE FALSE OBVIOUS
    <2>1. IsFiniteSet(Tokens) /\ Cardinality(Tokens) <= Cardinality(K \cup {handed})
      BY <1>5, FS_Subset
    <2>2. Cardinality(Tokens) \in Nat BY <2>1, FS_CardinalityType
    <2>3. Cardinality(Tokens) > 3 * n + 2 BY <2>1, EnoughAssumption
    <2> QED BY <1>1, <1>5, <2>1, <2>2, <2>3
  <1>8. \E t : t \in Unused BY <1>6, <1>7 DEF Unused
  <1>9. NewToken \in Unused BY <1>8, Zenon DEF NewToken
  <1> QED BY <1>9 DEF Unused

LEMMA NewKeyIsAKey ==
  ASSUME TypeOK
  PROVE  NewKey \in KeyPairs
  <1> DEFINE R == {key[h] : h \in Hosts}
             n == Cardinality(Hosts)
  <1>1. /\ IsFiniteSet(R) /\ n \in Nat
        /\ Cardinality(R) \in Nat /\ Cardinality(R) <= n
    BY FewValues DEF TypeOK
  <1>2. /\ IsFiniteSet(R \cup {row.key}) /\ Cardinality(R \cup {row.key}) \in Nat
        /\ Cardinality(R \cup {row.key}) <= n + 1
    <2> HIDE DEF R
    <2>1. /\ IsFiniteSet(R \cup {row.key})
          /\ Cardinality(R \cup {row.key}) \in {Cardinality(R), Cardinality(R) + 1}
      BY <1>1, FS_AddElement
    <2> QED BY <1>1, <2>1
  <1>3. ~(KeyPairs \subseteq R \cup {row.key})
    <2> HIDE DEF R
    <2> SUFFICES ASSUME KeyPairs \subseteq R \cup {row.key} PROVE FALSE OBVIOUS
    <2>1. IsFiniteSet(KeyPairs) /\ Cardinality(KeyPairs) <= Cardinality(R \cup {row.key})
      BY <1>2, FS_Subset
    <2>2. Cardinality(KeyPairs) \in Nat BY <2>1, FS_CardinalityType
    <2>3. Cardinality(KeyPairs) > n + 1 BY <2>1, EnoughAssumption
    <2> QED BY <1>1, <1>2, <2>1, <2>2, <2>3
  <1>4. \E k \in KeyPairs : k # row.key /\ \A h \in Hosts : k # key[h] BY <1>3
  <1> QED BY <1>4, Zenon DEF NewKey

-----------------------------------------------------------------------------
(* Types.                                                                  *)

LEMMA TypeInit == Init => TypeOK
  <1> SUFFICES ASSUME Init PROVE TypeOK OBVIOUS
  <1>1. row \in [exists : BOOLEAN, hash : Tokens \union {NoToken}, key : KeyPairs \union {NoKey}]
    <2>1. CASE row = NoGateway BY <2>1 DEF NoGateway
    <2>2. CASE row = [exists |-> TRUE, hash |-> NoToken, key |-> NoKey] BY <2>2
    <2> QED BY <2>1, <2>2 DEF Init
  <1> QED BY <1>1 DEF Init, TypeOK

LEMMA TypeNext ==
  ASSUME TypeOK, [Next]_vars
  PROVE  TypeOK'
  <1> USE DEF Goto
  <1>1. ASSUME NEW h \in Hosts, Start(h) PROVE TypeOK'
    BY <1>1, NewKeyIsAKey DEF TypeOK, Start
  <1>2. ASSUME NEW h \in Hosts, RegisterSelect(h) PROVE TypeOK'
    BY <1>2 DEF TypeOK, RegisterSelect, Failed
  <1>3. ASSUME NEW h \in Hosts, RegisterUpsert(h) PROVE TypeOK'
    BY <1>3, NewTokenIsUnused DEF TypeOK, RegisterUpsert
  <1>4. ASSUME NEW h \in Hosts, Store(h) PROVE TypeOK'
    BY <1>4 DEF TypeOK, Store
  <1>5. ASSUME NEW h \in Hosts, HeartbeatRejected(h) PROVE TypeOK'
    BY <1>5 DEF TypeOK, HeartbeatRejected
  <1>6. ASSUME NEW h \in Hosts, EnrollFails(h) PROVE TypeOK'
    BY <1>6 DEF TypeOK, EnrollFails, Spend, Failed
  <1>7. ASSUME NEW h \in Hosts, Crash(h) PROVE TypeOK'
    BY <1>7 DEF TypeOK, Crash, Spend
  <1>8. ASSUME NEW h \in Hosts, PlaceToken(h) PROVE TypeOK'
    BY <1>8 DEF TypeOK, PlaceToken
  <1>9. ASSUME NEW h \in Hosts, RestartPlaced(h) PROVE TypeOK'
    BY <1>9 DEF TypeOK, RestartPlaced
  <1>10. CASE RotateToken
    BY <1>10, NewTokenIsUnused DEF TypeOK, RotateToken, Rotate, Spend, hostVars
  <1>11. CASE RotateLost
    BY <1>11, NewTokenIsUnused DEF TypeOK, RotateLost, Rotate, hostVars
  <1>12. CASE DeleteRecord
    BY <1>12 DEF TypeOK, DeleteRecord, NoGateway, Spend, hostVars
  <1>13. CASE UNCHANGED vars BY <1>13 DEF TypeOK, vars, hostVars
  <1> QED
    BY <1>1, <1>2, <1>3, <1>4, <1>5, <1>6, <1>7, <1>8, <1>9, <1>10, <1>11, <1>12, <1>13
    DEF Next, HostStep, HeartbeatAccepted

\* Rows, credentials and processes keep their shape: in particular generate_token
\* always has a value that nobody holds.
THEOREM TypeCorrect == Spec => []TypeOK
  BY TypeInit, TypeNext, PTL DEF Spec

-----------------------------------------------------------------------------
(* The invariant, step by step.                                            *)

LEMMA InvInit == Init => Inv
  BY TypeInit
  DEF Init, NoGateway, Inv, RowHasHash, InUseIsStored, OneFile, MintedIsNowhereElse, Current

Rest == RowHasHash /\ InUseIsStored /\ OneFile /\ MintedIsNowhereElse

\* A credential that was made just now is only where the step has put it.
LEMMA FreshIsNowhere ==
  ASSUME TypeOK
  PROVE  /\ NewToken # NoToken /\ NewToken # handed
         /\ \A h \in Hosts : NewToken \notin {file[h], mem[h], minted[h]}
  BY NewTokenIsUnused, EnrollmentAssumption DEF Held

LEMMA RotateKeeps ==
  ASSUME Inv, Rotate PROVE Rest'
  <1>1. Current' = NewToken /\ row'.exists BY DEF Rotate, Current, Inv, TypeOK
  <1> QED
    BY <1>1, FreshIsNowhere
    DEF Rotate, hostVars, Inv, Rest, RowHasHash, InUseIsStored, OneFile, MintedIsNowhereElse

LEMMA UpsertKeeps ==
  ASSUME Inv, NEW h \in Hosts, RegisterUpsert(h) PROVE Rest'
  <1>1. Current' = NewToken /\ row'.exists BY DEF RegisterUpsert, Current
  <1>2. /\ minted'[h] = NewToken
        /\ \A g \in Hosts \ {h} : minted'[g] = minted[g]
        /\ UNCHANGED <<handed, file, mem>>
    BY DEF RegisterUpsert, Inv, TypeOK
  <1> QED
    BY <1>1, <1>2, FreshIsNowhere
    DEF Inv, Rest, RowHasHash, InUseIsStored, OneFile, MintedIsNowhereElse

\* A process that is not in its loop and has not ended uses no current credential.
LEMMA StoreKeeps ==
  ASSUME Inv, NEW h \in Hosts, Store(h) PROVE Rest'
  <1>1. /\ file'[h] = minted[h] /\ mem'[h] = minted[h] /\ minted'[h] = NoToken
        /\ pc'[h] = "loop"
        /\ \A g \in Hosts \ {h} : /\ file'[g] = file[g] /\ mem'[g] = mem[g]
                                   /\ minted'[g] = minted[g] /\ pc'[g] = pc[g]
        /\ UNCHANGED <<row, handed>>
    BY DEF Store, Goto, Inv, TypeOK
  <1> QED
    BY <1>1
    DEF Inv, Rest, RowHasHash, InUseIsStored, OneFile, MintedIsNowhereElse, Current

LEMMA StartKeeps ==
  ASSUME Inv, NEW h \in Hosts, Start(h) PROVE Rest'
  <1>1. /\ mem'[h] = file[h] /\ pc'[h] = IF file[h] = NoToken THEN "enroll" ELSE "loop"
        /\ \A g \in Hosts \ {h} : mem'[g] = mem[g] /\ pc'[g] = pc[g]
        /\ UNCHANGED <<row, handed, file, minted>>
    BY DEF Start, Goto, Inv, TypeOK
  <1> QED
    BY <1>1
    DEF Inv, Rest, RowHasHash, InUseIsStored, OneFile, MintedIsNowhereElse, Current

LEMMA RejectedKeeps ==
  ASSUME Inv, NEW h \in Hosts, HeartbeatRejected(h) PROVE Rest'
  <1>1. /\ file'[h] = NoToken
        /\ \A g \in Hosts \ {h} : file'[g] = file[g] /\ pc'[g] = pc[g]
        /\ UNCHANGED <<row, handed, mem, minted>>
    BY DEF HeartbeatRejected, Goto, Inv, TypeOK
  <1>2. Current # NoToken => mem[h] # Current
    BY DEF HeartbeatRejected, Accepted, Inv, RowHasHash, Current
  <1> QED
    BY <1>1, <1>2
    DEF Inv, Rest, RowHasHash, InUseIsStored, OneFile, MintedIsNowhereElse, Current

LEMMA PlaceKeeps ==
  ASSUME Inv, NEW h \in Hosts, PlaceToken(h) PROVE Rest'
  <1>1. /\ file'[h] = Current /\ handed = Current
        /\ \A g \in Hosts : file[g] # Current
        /\ \A g \in Hosts \ {h} : file'[g] = file[g]
        /\ UNCHANGED <<row, handed, mem, minted, pc>>
    BY DEF PlaceToken, Current, Inv, TypeOK
  <1> QED
    BY <1>1
    DEF Inv, Rest, RowHasHash, InUseIsStored, OneFile, MintedIsNowhereElse, Current

\* Steps that only move a process, or lose the reply it waits for.
LEMMA MovesKeep ==
  ASSUME Inv, NEW h \in Hosts, UNCHANGED <<row, handed, file, mem>>,
         minted' = minted \/ minted' = [minted EXCEPT ![h] = NoToken],
         NEW step, Goto(h, step),
         pc[h] \in {"loop", "down"} => step = "down"
  PROVE  Rest'
  <1>1. /\ \A g \in Hosts : minted'[g] \in {minted[g], NoToken}
        /\ pc'[h] = step /\ \A g \in Hosts \ {h} : pc'[g] = pc[g]
    BY DEF Goto, Inv, TypeOK
  <1> QED
    BY <1>1
    DEF Inv, Rest, RowHasHash, InUseIsStored, OneFile, MintedIsNowhereElse, Current

LEMMA InvNext ==
  ASSUME Inv, [Next]_vars
  PROVE  Inv'
  <1>0. TypeOK' BY TypeNext DEF Inv
  <1> SUFFICES Rest' BY <1>0 DEF Inv, Rest
  <1>1. ASSUME NEW h \in Hosts, Start(h) PROVE Rest' BY <1>1, StartKeeps
  <1>2. ASSUME NEW h \in Hosts, RegisterSelect(h) PROVE Rest'
    BY <1>2, MovesKeep DEF RegisterSelect
  <1>3. ASSUME NEW h \in Hosts, RegisterUpsert(h) PROVE Rest' BY <1>3, UpsertKeeps
  <1>4. ASSUME NEW h \in Hosts, Store(h) PROVE Rest' BY <1>4, StoreKeeps
  <1>5. ASSUME NEW h \in Hosts, HeartbeatRejected(h) PROVE Rest' BY <1>5, RejectedKeeps
  <1>6. ASSUME NEW h \in Hosts, EnrollFails(h) PROVE Rest'
    BY <1>6, MovesKeep DEF EnrollFails
  <1>7. ASSUME NEW h \in Hosts, Crash(h) PROVE Rest' BY <1>7, MovesKeep DEF Crash
  <1>8. ASSUME NEW h \in Hosts, PlaceToken(h) PROVE Rest' BY <1>8, PlaceKeeps
  <1>9. ASSUME NEW h \in Hosts, RestartPlaced(h) PROVE Rest'
    BY <1>9, MovesKeep DEF RestartPlaced
  <1>10. CASE RotateToken BY <1>10, RotateKeeps DEF RotateToken
  <1>11. CASE RotateLost BY <1>11, RotateKeeps DEF RotateLost
  <1>12. CASE DeleteRecord
    BY <1>12
    DEF DeleteRecord, NoGateway, hostVars, Rest, RowHasHash, InUseIsStored, OneFile,
        MintedIsNowhereElse, Current
  <1>13. CASE UNCHANGED vars
    BY <1>13
    DEF vars, hostVars, Inv, Rest, RowHasHash, InUseIsStored, OneFile,
        MintedIsNowhereElse, Current
  <1> QED
    BY <1>1, <1>2, <1>3, <1>4, <1>5, <1>6, <1>7, <1>8, <1>9, <1>10, <1>11, <1>12, <1>13
    DEF Next, HostStep, HeartbeatAccepted

LEMMA Invariance == Spec => []Inv
  BY InvInit, InvNext, PTL DEF Spec

-----------------------------------------------------------------------------
\* A gateway that is served has its credential on disk, wherever it is killed:
\* it resumes with it instead of enrolling again, which register() would refuse.
THEOREM ServedGatewayResumes == Spec => []ServedSurvivesRestart
<1>1. Inv => ServedSurvivesRestart
  BY DEF Inv, InUseIsStored, ServedSurvivesRestart, Accepted, Current
<1> QED BY <1>1, Invariance, PTL

\* Of any number of hosts with one name at most one is served, however their
\* register calls, rotations and restarts interleave.
THEOREM AtMostOneHostIsServed == Spec => []OneHostServed
<1>1. Inv => OneHostServed
  BY DEF Inv, InUseIsStored, OneFile, OneHostServed, Accepted, Current
<1> QED BY <1>1, Invariance, PTL
=============================================================================
