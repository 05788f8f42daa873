---------------------------- MODULE ServerProofs -----------------------------
(***************************************************************************)
(* Proofs about Server: whatever the number of calls and connections, the  *)
(* pool comes to a standstill only when all its connections are held by    *)
(* calls that nest their queries.                                          *)
(***************************************************************************)
EXTENDS Server, FiniteSetTheorems, TLAPS

\* Only the calls of FindMatches and ListTrades ask for a second connection.
Roles == \A c \in Calls : pc[c] \in {"askInner", "inner"} => c \in Nesting

\* The pool never opens more than MaxOpen connections.
Bounded == Cardinality(outer) + Cardinality(inner) <= MaxOpen

IInv == TypeOK /\ Roles /\ Bounded

LEMMA InitIInv == Init => IInv
<1> SUFFICES ASSUME Init PROVE IInv
  OBVIOUS
<1>1. TypeOK /\ Roles
  BY PoolAssumption DEF Init, TypeOK, Roles
<1>2. Cardinality(outer) = 0 /\ Cardinality(inner) = 0
  BY FS_EmptySet DEF Init
<1> QED
  BY <1>1, <1>2, PoolAssumption DEF IInv, Bounded

\* The sets of connections are finite.
LEMMA Finite ==
  ASSUME TypeOK
  PROVE  /\ IsFiniteSet(outer) /\ Cardinality(outer) \in Nat
         /\ IsFiniteSet(inner) /\ Cardinality(inner) \in Nat
<1>1. outer \subseteq Calls /\ inner \subseteq Calls
  BY DEF TypeOK
<1> QED
  BY <1>1, CallsAssumption, FS_Subset, FS_CardinalityType

\* Connections that are only given back stay within the bound.
LEMMA FewerStayBounded ==
  ASSUME TypeOK, Bounded, outer' \subseteq outer, inner' \subseteq inner
  PROVE  Bounded'
<1>1. /\ Cardinality(outer') <= Cardinality(outer) /\ Cardinality(outer') \in Nat
      /\ Cardinality(inner') <= Cardinality(inner) /\ Cardinality(inner') \in Nat
  BY Finite, FS_Subset, FS_CardinalityType
<1> QED
  BY <1>1, Finite, PoolAssumption DEF Bounded

\* One more connection is within the bound when one is free.
LEMMA OneMoreStaysBounded ==
  ASSUME TypeOK, Free, NEW c \in Calls,
         \/ outer' = outer \cup {c} /\ c \notin outer /\ inner' = inner
         \/ inner' = inner \cup {c} /\ c \notin inner /\ outer' = outer
  PROVE  Bounded'
<1>1. CASE outer' = outer \cup {c} /\ c \notin outer /\ inner' = inner
  <2>1. Cardinality(outer') = Cardinality(outer) + 1
    BY <1>1, Finite, FS_AddElement
  <2> QED
    BY <1>1, <2>1, Finite, PoolAssumption DEF Bounded, Free
<1>2. CASE inner' = inner \cup {c} /\ c \notin inner /\ outer' = outer
  <2>1. Cardinality(inner') = Cardinality(inner) + 1
    BY <1>2, Finite, FS_AddElement
  <2> QED
    BY <1>2, <2>1, Finite, PoolAssumption DEF Bounded, Free
<1> QED
  BY <1>1, <1>2

\* The calls keep the sets of connections in step with what they do.
LEMMA StepIInv == IInv /\ [Next]_vars => IInv'
<1> SUFFICES ASSUME TypeOK, Roles, Bounded, [Next]_vars
             PROVE  (TypeOK /\ Roles)' /\ Bounded'
  BY DEF IInv
<1> USE PoolAssumption DEF TypeOK, Roles, Goto
<1>1. ASSUME NEW c \in Calls, NEW n \in 0 .. MaxQueries, Accept(c, n)
      PROVE  (TypeOK /\ Roles)' /\ outer' \subseteq outer /\ inner' \subseteq inner
  BY <1>1 DEF Accept
<1>2. ASSUME NEW c \in Calls, Connection(c) PROVE (TypeOK /\ Roles)' /\ Bounded'
  <2>1. (TypeOK /\ Roles)'
    BY <1>2 DEF Connection
  <2>2. Free /\ outer' = outer \cup {c} /\ c \notin outer /\ inner' = inner
    BY <1>2 DEF Connection
  <2>3. Bounded'
    BY <2>2, OneMoreStaysBounded
  <2> QED
    BY <2>1, <2>3
<1>3. ASSUME NEW c \in Calls, Query(c)
      PROVE  (TypeOK /\ Roles)' /\ outer' \subseteq outer /\ inner' \subseteq inner
  BY <1>3 DEF Query
<1>4. ASSUME NEW c \in Calls, NextRow(c)
      PROVE  (TypeOK /\ Roles)' /\ outer' \subseteq outer /\ inner' \subseteq inner
  BY <1>4 DEF NextRow
<1>5. ASSUME NEW c \in Calls, InnerConnection(c) PROVE (TypeOK /\ Roles)' /\ Bounded'
  <2>1. (TypeOK /\ Roles)'
    BY <1>5 DEF InnerConnection
  <2>2. Free /\ inner' = inner \cup {c} /\ c \notin inner /\ outer' = outer
    BY <1>5 DEF InnerConnection
  <2>3. Bounded'
    BY <2>2, OneMoreStaysBounded
  <2> QED
    BY <2>1, <2>3
<1>6. ASSUME NEW c \in Calls, InnerDone(c)
      PROVE  (TypeOK /\ Roles)' /\ outer' \subseteq outer /\ inner' \subseteq inner
  BY <1>6 DEF InnerDone
<1>7. ASSUME NEW c \in Calls, Answer(c)
      PROVE  (TypeOK /\ Roles)' /\ outer' \subseteq outer /\ inner' \subseteq inner
  BY <1>7 DEF Answer
<1>8. ASSUME NEW c \in Calls, GiveUp(c)
      PROVE  (TypeOK /\ Roles)' /\ outer' \subseteq outer /\ inner' \subseteq inner
  BY <1>8 DEF GiveUp
<1>9. ASSUME StartUp \/ Signal \/ ShutdownReturns
      PROVE  (TypeOK /\ Roles)' /\ outer' \subseteq outer /\ inner' \subseteq inner
  BY <1>9 DEF StartUp, Signal, ShutdownReturns
<1>10. ASSUME Exit
       PROVE  (TypeOK /\ Roles)' /\ outer' \subseteq outer /\ inner' \subseteq inner
  BY <1>10 DEF Exit
<1>11. ASSUME UNCHANGED vars
       PROVE  (TypeOK /\ Roles)' /\ outer' \subseteq outer /\ inner' \subseteq inner
  BY <1>11 DEF vars
<1>12. ASSUME outer' \subseteq outer, inner' \subseteq inner PROVE Bounded'
  BY <1>12, FewerStayBounded
<1> HIDE DEF TypeOK, Roles
<1> QED
  BY <1>1, <1>2, <1>3, <1>4, <1>5, <1>6, <1>7, <1>8, <1>9, <1>10, <1>11, <1>12
     DEF Next, Proceed

\* The pool's bookkeeping, in every state the process reaches.
THEOREM Invariance == Spec => []IInv
BY InitIInv, StepIInv, PTL DEF Spec

\* For any calls and any size of the pool, and with no assumption on how many calls
\* nest their queries: when the pool is at a standstill, each of its MaxOpen
\* connections is held by a call of FindMatches or ListTrades.
THEOREM OnlyNestingCallsStall == Spec => []OnlyNestingStalls
<1>1. IInv => OnlyNestingStalls
  <2> SUFFICES ASSUME IInv, Standstill
               PROVE  outer \subseteq Nesting /\ Cardinality(outer) = MaxOpen
    BY DEF OnlyNestingStalls
  <2>1. outer \subseteq Nesting
    BY DEF IInv, TypeOK, Roles, Standstill
  <2>2. Cardinality(inner) = 0
    BY FS_EmptySet DEF Standstill
  <2>3. Cardinality(outer) \in Nat
    BY Finite DEF IInv
  <2> QED
    BY <2>1, <2>2, <2>3, PoolAssumption DEF IInv, Bounded, Standstill, Free
<1> QED
  BY <1>1, Invariance, PTL
==============================================================================
