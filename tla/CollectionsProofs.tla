-------------------------- MODULE CollectionsProofs --------------------------
(***************************************************************************)
(* What collections, their statistics, events and matches promise, for any *)
(* catalogue, users, calls and updates.                                    *)
(*                                                                         *)
(* The statistics are a fold over the stickers.  Induction over finite     *)
(* sets is a minimal counterexample here: a set of sets that is not empty  *)
(* has one with no smaller one in it.                                      *)
(*                                                                         *)
(* The inductive invariant, Safe, adds to the types what the calls in      *)
(* flight carry: that the present rows are the last of the past (Recorded),*)
(* what was published (Told) and what a call between its commit and its    *)
(* events has still to publish (Telling), that the commits of a user made  *)
(* different versions (Apart), and that the lists of a match were fair     *)
(* when they were read and stay so (Matches).                              *)
(***************************************************************************)
EXTENDS Collections, FiniteSetTheorems, SequenceTheorems, TLAPS

(* Folds over a finite set                                                  *)

\* Two functions of sets that agree on a set when they agree on all smaller
\* ones agree.
LEMMA SameFold ==
  ASSUME NEW S, IsFiniteSet(S), NEW G, NEW H,
         ASSUME NEW A \in SUBSET S,
                \A B \in SUBSET S : B \subseteq A /\ B # A => G[B] = H[B]
         PROVE  G[A] = H[A]
  PROVE  G[S] = H[S]
<1> DEFINE T == {A \in SUBSET S : G[A] # H[A]}
<1> SUFFICES ASSUME T # {} PROVE FALSE
  OBVIOUS
<1>1. FiniteSubsetsOf(S) = SUBSET S
  BY FS_FiniteSubsetsOfFinite
<1>2. IsWellFoundedOn(StrictSubsetOrdering(S), SUBSET S)
  BY <1>1, FS_StrictSubsetOrderingWellFounded
<1>3. T \subseteq SUBSET S
  OBVIOUS
<1> HIDE DEF T
<1>4. PICK A \in T : \A B \in T : ~(<<B, A>> \in StrictSubsetOrdering(S))
  BY <1>2, <1>3, WFMin
<1>5. A \in SUBSET S /\ G[A] # H[A]
  BY DEF T
<1>6. ASSUME NEW B \in SUBSET S, B \subseteq A, B # A PROVE G[B] = H[B]
  <2>1. <<B, A>> \in StrictSubsetOrdering(S)
    BY <1>5, <1>6 DEF StrictSubsetOrdering
  <2> QED
    BY <1>4, <2>1 DEF T
<1>7. G[A] = H[A]
  BY <1>5, <1>6
<1> QED
  BY <1>5, <1>7

\* The copies of the stickers in A, numbered for each sticker.
Copies(f, A) == {y \in A \X (1 .. MaxCount) : y[2] <= f[y[1]]}

\* The copies of one sticker, and of the others.
LEMMA CopiesOfOne ==
  ASSUME NEW A, IsFiniteSet(A), NEW f, \A a \in A : f[a] \in Count, NEW x \in A
  PROVE  /\ IsFiniteSet(Copies(f, A)) /\ Cardinality(Copies(f, A)) \in Nat
         /\ Cardinality(Copies(f, A)) = f[x] + Cardinality(Copies(f, A \ {x}))
<1> DEFINE C == Copies(f, A \ {x})
           D == {x} \X (1 .. f[x])
<1>1. f[x] \in Nat /\ f[x] <= MaxCount /\ MaxCount \in Nat
  BY DEF Count, MaxCount
<1>2. IsFiniteSet(1 .. MaxCount) /\ IsFiniteSet(1 .. f[x]) /\ Cardinality(1 .. f[x]) = f[x]
  <2>1. ASSUME NEW n \in Nat PROVE IsFiniteSet(1 .. n) /\ Cardinality(1 .. n) = n
    <3>1. 1 \in Int /\ n \in Int /\ 1 \in Nat
      OBVIOUS
    <3>2. IsFiniteSet(1 .. n) /\ Cardinality(1 .. n) = IF 1 > n THEN 0 ELSE n - 1 + 1
      BY <3>1, FS_Interval
    <3> QED
      BY <3>2
  <2> QED
    BY <1>1, <2>1
<1>3. IsFiniteSet(A \X (1 .. MaxCount)) /\ IsFiniteSet((A \ {x}) \X (1 .. MaxCount))
  BY <1>2, FS_Product, FS_RemoveElement
<1>4. IsFiniteSet(C) /\ IsFiniteSet(Copies(f, A))
  BY <1>3, FS_Subset DEF Copies
<1>5. IsFiniteSet(D) /\ Cardinality(D) = f[x]
  <2>1. IsFiniteSet({x}) /\ Cardinality({x}) = 1
    BY FS_Singleton
  <2>2. IsFiniteSet(D) /\ Cardinality(D) = Cardinality({x}) * Cardinality(1 .. f[x])
    BY <1>2, <2>1, FS_Product
  <2>3. Cardinality(D) = 1 * f[x]
    BY <1>2, <2>1, <2>2
  <2> QED
    BY <1>1, <2>2, <2>3
<1>6. Copies(f, A) = C \cup D
  <2>1. ASSUME NEW y, y \in Copies(f, A) PROVE y \in C \cup D
    BY <1>1, <2>1 DEF Copies
  <2>2. ASSUME NEW y, y \in C PROVE y \in Copies(f, A)
    BY <2>2 DEF Copies
  <2>3. ASSUME NEW y, y \in D PROVE y \in Copies(f, A)
    BY <1>1, <2>3 DEF Copies
  <2> QED
    BY <2>1, <2>2, <2>3
<1>7. C \cap D = {}
  BY DEF Copies
<1>8. Cardinality(C) \in Nat /\ Cardinality(Copies(f, A)) \in Nat /\ Cardinality({}) = 0
  BY <1>4, FS_CardinalityType, FS_EmptySet
<1> HIDE DEF C, D
<1>9. Cardinality(C \cup D) = Cardinality(C) + Cardinality(D) - Cardinality(C \cap D)
  BY <1>4, <1>5, FS_Union
<1>10. Cardinality(Copies(f, A)) = f[x] + Cardinality(C)
  <2>1. Cardinality(Copies(f, A)) = Cardinality(C) + f[x] - 0
    BY <1>5, <1>6, <1>7, <1>8, <1>9
  <2> QED
    BY <1>1, <1>8, <2>1
<1> QED
  BY <1>4, <1>8, <1>10 DEF C

\* Of no stickers there are no copies.
LEMMA NoCopies == \A f : Copies(f, {}) = {} /\ Cardinality(Copies(f, {})) = 0
<1>1. ASSUME NEW f PROVE Copies(f, {}) = {}
  BY DEF Copies
<1> QED
  BY <1>1, FS_EmptySet

\* A sum of counts is the number of copies.
LEMMA SumIsCopies ==
  ASSUME NEW S, IsFiniteSet(S), NEW f, \A s \in S : f[s] \in Count
  PROVE  SumFunctionOnSet(f, S) = Cardinality(Copies(f, S))
<1> DEFINE ch(A) == CHOOSE x \in A : TRUE
           P(i) == i = [A \in SUBSET S |->
                         IF A = {} THEN 0 ELSE f[ch(A)] + i[A \ {ch(A)}]]
           H == [A \in SUBSET S |-> Cardinality(Copies(f, A))]
           G == CHOOSE i : P(i)
<1>1. SumFunctionOnSet(f, S) = G[S]
  BY DEF SumFunctionOnSet, FoldFunctionOnSet, MapThenFoldSet
<1>2. \A A \in SUBSET S : A # {} => ch(A) \in A
  OBVIOUS
<1> HIDE DEF ch
<1>3. P(H)
  <2>1. ASSUME NEW A \in SUBSET S
        PROVE  H[A] = IF A = {} THEN 0 ELSE f[ch(A)] + H[A \ {ch(A)}]
    <3>1. CASE A = {}
      BY <3>1, NoCopies
    <3>2. CASE A # {}
      <4>1. IsFiniteSet(A) /\ ch(A) \in A /\ \A a \in A : f[a] \in Count
        BY <1>2, <3>2, FS_Subset
      <4>2. Cardinality(Copies(f, A)) = f[ch(A)] + Cardinality(Copies(f, A \ {ch(A)}))
        BY <4>1, CopiesOfOne
      <4> QED
        BY <3>2, <4>2
    <3> QED
      BY <3>1, <3>2
  <2> QED
    BY <2>1
<1>4. P(G)
  <2> HIDE DEF P, H
  <2>1. \E i : P(i)
    BY <1>3
  <2> QED
    BY <2>1 DEF G
<1>5. ASSUME NEW A \in SUBSET S,
             \A B \in SUBSET S : B \subseteq A /\ B # A => G[B] = H[B]
      PROVE  G[A] = H[A]
  <2> HIDE DEF G, H
  <2>1. G[A] = IF A = {} THEN 0 ELSE f[ch(A)] + G[A \ {ch(A)}]
    BY <1>4
  <2>2. H[A] = IF A = {} THEN 0 ELSE f[ch(A)] + H[A \ {ch(A)}]
    BY <1>3
  <2>3. CASE A = {}
    BY <2>1, <2>2, <2>3
  <2>4. CASE A # {}
    <3>1. G[A \ {ch(A)}] = H[A \ {ch(A)}]
      BY <1>2, <1>5, <2>4
    <3> QED
      BY <2>1, <2>2, <2>4, <3>1
  <2> QED
    BY <2>3, <2>4
<1>6. G[S] = H[S]
  <2> HIDE DEF G, H, P
  <2> QED
    BY <1>5, SameFold
<1> QED
  BY <1>1, <1>6

------------------------------------------------------------------------------
(* The statistics                                                           *)

Statistics(f, A) ==
  [total |-> Cardinality(A),
   owned |-> Cardinality(Owned(f, A)),
   missing |-> Cardinality(A) - Cardinality(Owned(f, A)),
   duplicates |-> Cardinality(Copies(f, A)) - Cardinality(Owned(f, A)),
   specialsTotal |-> Cardinality(A \cap Special),
   specialsOwned |-> Cardinality(Owned(f, A \cap Special)),
   teams |-> [t \in {Team[s] : s \in A} |->
                LET B == {s \in A : Team[s] = t} IN
                [total |-> Cardinality(B), owned |-> Cardinality(Owned(f, B))]]]

\* What one sticker adds to the number of stickers in B, and to those of them
\* that are owned.
LEMMA OneMore ==
  ASSUME NEW A, IsFiniteSet(A), NEW f, NEW x \in A, NEW B \in SUBSET A, NEW C \in SUBSET A,
         C = B \ {x}
  PROVE  /\ Cardinality(B) \in Nat /\ Cardinality(C) \in Nat
         /\ Cardinality(Owned(f, B)) \in Nat /\ Cardinality(Owned(f, C)) \in Nat
         /\ Cardinality(B) = Cardinality(C) + One(x \in B)
         /\ Cardinality(Owned(f, B)) = Cardinality(Owned(f, C)) + One(x \in B /\ f[x] > 0)
<1>1. IsFiniteSet(B) /\ IsFiniteSet(C) /\ Owned(f, B) \in SUBSET A /\ Owned(f, C) \in SUBSET A
  BY FS_Subset DEF Owned
<1>2. IsFiniteSet(Owned(f, B)) /\ IsFiniteSet(Owned(f, C))
  BY <1>1, FS_Subset
<1>3. /\ Cardinality(B) \in Nat /\ Cardinality(C) \in Nat
      /\ Cardinality(Owned(f, B)) \in Nat /\ Cardinality(Owned(f, C)) \in Nat
  BY <1>1, <1>2, FS_CardinalityType
<1>4. Cardinality(B) = Cardinality(C) + One(x \in B)
  <2>1. CASE x \in B
    <3>1. B = C \cup {x} /\ x \notin C
      BY <2>1
    <3>2. Cardinality(B) = Cardinality(C) + 1
      BY <1>1, <3>1, FS_AddElement
    <3> QED
      BY <2>1, <3>2 DEF One
  <2>2. CASE x \notin B
    <3>1. Cardinality(B) = Cardinality(C)
      <4>1. B = C
        BY <2>2
      <4> QED
        BY <4>1
    <3>2. One(x \in B) = 0
      BY <2>2 DEF One
    <3> QED
      BY <1>3, <3>1, <3>2
  <2> QED
    BY <2>1, <2>2
<1>5. Cardinality(Owned(f, B)) = Cardinality(Owned(f, C)) + One(x \in B /\ f[x] > 0)
  <2>1. CASE x \in B /\ f[x] > 0
    <3>1. Owned(f, B) = Owned(f, C) \cup {x} /\ x \notin Owned(f, C)
      BY <2>1 DEF Owned
    <3> QED
      BY <1>2, <2>1, <3>1, FS_AddElement DEF One
  <2>2. CASE ~(x \in B /\ f[x] > 0)
    <3>1. Owned(f, B) = Owned(f, C)
      BY <2>2 DEF Owned
    <3> QED
      BY <1>3, <2>2, <3>1 DEF One
  <2> QED
    BY <2>1, <2>2
<1> QED
  BY <1>3, <1>4, <1>5

\* One more sticker changes the statistics as the body of the loop does.
LEMMA CountsOneMore ==
  ASSUME NEW A, IsFiniteSet(A), NEW f, \A a \in A : f[a] \in Count, NEW x \in A
  PROVE  Statistics(f, A) = CountItem(x, f[x], Statistics(f, A \ {x}))
<1> DEFINE Z == A \ {x}
           n == f[x]
           old == Statistics(f, Z)
<1>0. n \in Nat
  BY DEF Count
<1>a. One(TRUE) = 1 /\ One(FALSE) = 0
  BY DEF One
<1>1. /\ Cardinality(A) = Cardinality(Z) + 1
      /\ Cardinality(Owned(f, A)) = Cardinality(Owned(f, Z)) + One(n > 0)
      /\ Cardinality(Z) \in Nat /\ Cardinality(Owned(f, Z)) \in Nat
  <2>1. A \in SUBSET A /\ Z \in SUBSET A /\ Z = A \ {x}
    OBVIOUS
  <2>2. /\ Cardinality(A) = Cardinality(Z) + One(x \in A)
        /\ Cardinality(Owned(f, A)) = Cardinality(Owned(f, Z)) + One(x \in A /\ f[x] > 0)
        /\ Cardinality(Z) \in Nat /\ Cardinality(Owned(f, Z)) \in Nat
    BY <2>1, OneMore
  <2>3. One(x \in A) = 1 /\ One(x \in A /\ f[x] > 0) = One(n > 0)
    BY DEF One
  <2> QED
    BY <2>2, <2>3
<1>2. Cardinality(A) - Cardinality(Owned(f, A))
        = Cardinality(Z) - Cardinality(Owned(f, Z)) + One(n = 0)
  <2>1. One(n > 0) + One(n = 0) = 1 /\ One(n > 0) \in Nat /\ One(n = 0) \in Nat
    BY <1>0 DEF One
  <2> HIDE DEF Z, n
  <2> QED
    BY <1>1, <2>1
<1>3. Cardinality(Copies(f, A)) - Cardinality(Owned(f, A))
        = Cardinality(Copies(f, Z)) - Cardinality(Owned(f, Z)) + Spares(n)
  <2>1. n = One(n > 0) + Spares(n) /\ One(n > 0) \in Nat /\ Spares(n) \in Nat
    BY <1>0 DEF One, Spares
  <2>2. Cardinality(Copies(f, A)) = n + Cardinality(Copies(f, Z))
    BY CopiesOfOne
  <2>3. Cardinality(Copies(f, Z)) \in Nat
    <3>1. IsFiniteSet(Z) /\ \A a \in Z : f[a] \in Count
      BY FS_RemoveElement
    <3>2. CASE Z = {}
      BY <3>2, NoCopies
    <3>3. CASE Z # {}
      BY <3>1, <3>3, CopiesOfOne
    <3> QED
      BY <3>2, <3>3
  <2> HIDE DEF Z, n
  <2> QED
    BY <1>0, <1>1, <2>1, <2>2, <2>3
<1>4. /\ Cardinality(A \cap Special) = Cardinality(Z \cap Special) + One(x \in Special)
      /\ Cardinality(Owned(f, A \cap Special))
           = Cardinality(Owned(f, Z \cap Special)) + One(x \in Special /\ n > 0)
  <2>1. /\ A \cap Special \in SUBSET A /\ Z \cap Special \in SUBSET A
        /\ Z \cap Special = (A \cap Special) \ {x}
    OBVIOUS
  <2>2. /\ Cardinality(A \cap Special) = Cardinality(Z \cap Special) + One(x \in A \cap Special)
        /\ Cardinality(Owned(f, A \cap Special))
             = Cardinality(Owned(f, Z \cap Special)) + One(x \in A \cap Special /\ f[x] > 0)
    BY <2>1, OneMore
  <2>3. /\ One(x \in A \cap Special) = One(x \in Special)
        /\ One(x \in A \cap Special /\ f[x] > 0) = One(x \in Special /\ n > 0)
    BY DEF One
  <2> QED
    BY <2>2, <2>3
<1> DEFINE B(t) == {s \in A : Team[s] = t}
           C(t) == {s \in Z : Team[s] = t}
           new == CountItem(x, n, old)
<1>5. DOMAIN old.teams = {Team[s] : s \in Z}
  BY DEF Statistics
<1>6. {Team[s] : s \in A} = DOMAIN old.teams \cup {Team[x]}
  BY <1>5
<1>7. ASSUME NEW t \in {Team[s] : s \in A}
      PROVE  [total |-> Cardinality(B(t)), owned |-> Cardinality(Owned(f, B(t)))] = new.teams[t]
  <2>1. B(t) \in SUBSET A /\ C(t) \in SUBSET A /\ C(t) = B(t) \ {x}
    OBVIOUS
  <2>2. /\ Cardinality(B(t)) = Cardinality(C(t)) + One(x \in B(t))
        /\ Cardinality(Owned(f, B(t))) = Cardinality(Owned(f, C(t))) + One(x \in B(t) /\ f[x] > 0)
    BY <2>1, OneMore
  <2>3. One(x \in B(t)) = One(t = Team[x]) /\ One(x \in B(t) /\ f[x] > 0) = One(t = Team[x] /\ n > 0)
    BY DEF One
  <2>4. new.teams[t] = IF t \notin DOMAIN old.teams THEN [total |-> 1, owned |-> One(n > 0)]
                       ELSE [total |-> old.teams[t].total + One(t = Team[x]),
                             owned |-> old.teams[t].owned + One(t = Team[x] /\ n > 0)]
    <3> HIDE DEF old, n
    <3> QED
      BY <1>6 DEF CountItem
  <2>5. CASE t \notin DOMAIN old.teams
    <3>1. C(t) = {} /\ t = Team[x]
      BY <1>5, <2>5
    <3>2. Owned(f, C(t)) = {}
      BY <3>1 DEF Owned
    <3>3. Cardinality(C(t)) = 0 /\ Cardinality(Owned(f, C(t))) = 0
      BY <3>1, <3>2, FS_EmptySet
    <3>4. One(t = Team[x]) = 1 /\ One(t = Team[x] /\ n > 0) = One(n > 0) /\ One(n > 0) \in Nat
      BY <3>1 DEF One
    <3> HIDE DEF B, C, n, old, new
    <3>5. Cardinality(B(t)) = 1 /\ Cardinality(Owned(f, B(t))) = One(n > 0)
      BY <2>2, <2>3, <3>3, <3>4
    <3> QED
      BY <2>4, <2>5, <3>5
  <2>6. CASE t \in DOMAIN old.teams
    <3>1. old.teams[t] = [total |-> Cardinality(C(t)), owned |-> Cardinality(Owned(f, C(t)))]
      BY <1>5, <2>6 DEF Statistics
    <3> HIDE DEF B, C, n, old, new
    <3> QED
      BY <2>2, <2>3, <2>4, <2>6, <3>1
  <2> QED
    BY <2>5, <2>6
<1>8. [t \in {Team[s] : s \in A} |->
         [total |-> Cardinality(B(t)), owned |-> Cardinality(Owned(f, B(t)))]] = new.teams
  <2>1. new.teams = [t \in {Team[s] : s \in A} |-> new.teams[t]]
    <3> HIDE DEF old, n
    <3> QED
      BY <1>6 DEF CountItem
  <2> HIDE DEF new, B
  <2> QED
    BY <1>7, <2>1
<1>9. /\ new.total = Cardinality(Z) + 1
      /\ new.owned = Cardinality(Owned(f, Z)) + One(n > 0)
      /\ new.missing = Cardinality(Z) - Cardinality(Owned(f, Z)) + One(n = 0)
      /\ new.duplicates = Cardinality(Copies(f, Z)) - Cardinality(Owned(f, Z)) + Spares(n)
      /\ new.specialsTotal = Cardinality(Z \cap Special) + One(x \in Special)
      /\ new.specialsOwned = Cardinality(Owned(f, Z \cap Special)) + One(x \in Special /\ n > 0)
  BY DEF CountItem, Statistics
<1>10. new = [total |-> new.total, owned |-> new.owned, missing |-> new.missing,
              duplicates |-> new.duplicates, specialsTotal |-> new.specialsTotal,
              specialsOwned |-> new.specialsOwned, teams |-> new.teams]
  <2> HIDE DEF old, n
  <2> QED
    BY DEF CountItem
<1>11. Statistics(f, A) =
         [total |-> Cardinality(A), owned |-> Cardinality(Owned(f, A)),
          missing |-> Cardinality(A) - Cardinality(Owned(f, A)),
          duplicates |-> Cardinality(Copies(f, A)) - Cardinality(Owned(f, A)),
          specialsTotal |-> Cardinality(A \cap Special),
          specialsOwned |-> Cardinality(Owned(f, A \cap Special)),
          teams |-> new.teams]
  BY <1>8 DEF Statistics
<1> HIDE DEF new
<1>12. Statistics(f, A) = new
  BY <1>1, <1>2, <1>3, <1>4, <1>9, <1>10, <1>11
<1> QED
  BY <1>12 DEF new

\* The loop computes the statistics, in whatever order it meets the stickers.
LEMMA LoopComputes ==
  ASSUME NEW f \in [Stickers -> Count]
  PROVE  CalculateCollectionStats(f) = Statistics(f, Stickers)
<1> DEFINE ch(A) == CHOOSE x \in A : TRUE
           P(i) == i = [A \in SUBSET Stickers |->
                         IF A = {} THEN NoStats ELSE CountItem(ch(A), f[ch(A)], i[A \ {ch(A)}])]
           H == [A \in SUBSET Stickers |-> Statistics(f, A)]
           G == CHOOSE i : P(i)
<1>0. IsFiniteSet(Stickers)
  BY CatalogueAssumption
<1>1. CalculateCollectionStats(f) = G[Stickers]
  <2>1. DOMAIN f = Stickers
    OBVIOUS
  <2> QED
    BY <2>1 DEF CalculateCollectionStats, FoldSet, MapThenFoldSet
<1>2. \A A \in SUBSET Stickers : A # {} => ch(A) \in A
  OBVIOUS
<1>z. Statistics(f, {}) = NoStats
  <2>1. Owned(f, {}) = {} /\ {} \cap Special = {} /\ Cardinality({}) = 0
        /\ Cardinality(Copies(f, {})) = 0
    BY NoCopies, FS_EmptySet DEF Owned
  <2>2. [t \in {Team[s] : s \in {}} |->
           LET B == {s \in {} : Team[s] = t} IN
           [total |-> Cardinality(B), owned |-> Cardinality(Owned(f, B))]] = << >>
    OBVIOUS
  <2>3. 0 - 0 = 0
    OBVIOUS
  <2>4. Statistics(f, {}) =
          [total |-> 0, owned |-> 0, missing |-> 0 - 0, duplicates |-> 0 - 0,
           specialsTotal |-> 0, specialsOwned |-> 0,
           teams |-> [t \in {Team[s] : s \in {}} |->
                        LET B == {s \in {} : Team[s] = t} IN
                        [total |-> Cardinality(B), owned |-> Cardinality(Owned(f, B))]]]
    BY <2>1, Zenon DEF Statistics
  <2> QED
    BY <2>2, <2>3, <2>4, Zenon DEF NoStats
<1> HIDE DEF ch
<1>3. P(H)
  <2>1. ASSUME NEW A \in SUBSET Stickers
        PROVE  H[A] = IF A = {} THEN NoStats ELSE CountItem(ch(A), f[ch(A)], H[A \ {ch(A)}])
    <3>1. CASE A = {}
      BY <1>z, <3>1
    <3>2. CASE A # {}
      <4>1. IsFiniteSet(A) /\ ch(A) \in A /\ \A a \in A : f[a] \in Count
        BY <1>0, <1>2, <3>2, FS_Subset
      <4>2. Statistics(f, A) = CountItem(ch(A), f[ch(A)], Statistics(f, A \ {ch(A)}))
        BY <4>1, CountsOneMore
      <4> QED
        BY <3>2, <4>2
    <3> QED
      BY <3>1, <3>2
  <2> QED
    BY <2>1
<1>4. P(G)
  <2> HIDE DEF P, H
  <2>1. \E i : P(i)
    BY <1>3
  <2> QED
    BY <2>1 DEF G
<1>5. ASSUME NEW A \in SUBSET Stickers,
             \A B \in SUBSET Stickers : B \subseteq A /\ B # A => G[B] = H[B]
      PROVE  G[A] = H[A]
  <2> HIDE DEF G, H
  <2>1. G[A] = IF A = {} THEN NoStats ELSE CountItem(ch(A), f[ch(A)], G[A \ {ch(A)}])
    BY <1>4
  <2>2. H[A] = IF A = {} THEN NoStats ELSE CountItem(ch(A), f[ch(A)], H[A \ {ch(A)}])
    BY <1>3
  <2>3. CASE A = {}
    BY <2>1, <2>2, <2>3
  <2>4. CASE A # {}
    <3>1. G[A \ {ch(A)}] = H[A \ {ch(A)}]
      BY <1>2, <1>5, <2>4
    <3> QED
      BY <2>1, <2>2, <2>4, <3>1
  <2> QED
    BY <2>3, <2>4
<1>6. G[Stickers] = H[Stickers]
  <2> HIDE DEF G, H, P
  <2> QED
    BY <1>0, <1>5, SameFold
<1> QED
  BY <1>1, <1>6

\* And these are what the statistics mean.
LEMMA StatsAreTrue ==
  ASSUME NEW f \in [Stickers -> Count]
  PROVE  CalculateCollectionStats(f) = TrueStats(f)
<1>1. SumFunction(f) = Cardinality(Copies(f, Stickers))
  <2>1. DOMAIN f = Stickers /\ IsFiniteSet(Stickers) /\ \A s \in Stickers : f[s] \in Count
    BY CatalogueAssumption
  <2> QED
    BY <2>1, SumIsCopies DEF SumFunction
<1>2. Stickers \cap Special = Special /\ Range(Team) = {Team[s] : s \in Stickers}
  BY CatalogueAssumption DEF Range
<1>3. Statistics(f, Stickers) = TrueStats(f)
  BY <1>1, <1>2 DEF Statistics, TrueStats
<1> QED
  BY <1>3, LoopComputes

------------------------------------------------------------------------------
(* The types                                                                *)

\* The values of the variables.
Counts == [Stickers -> Count]
Rows == UNION {[D -> Count] : D \in SUBSET Stickers}
StatsValues == {NoStats} \cup {TrueStats(k) : k \in Counts}

UpdateJob ==
  [kind : {"update"}, sticker : Stickers, count : Count, version : Nat, stats : StatsValues,
   alone : BOOLEAN]
MatchRow == [partner : Users, take : SUBSET Stickers, give : SUBSET Stickers]
MatchJob ==
  [kind : {"match"}, left : SUBSET Users, all : BOOLEAN, with : SUBSET Users,
   need : SUBSET Stickers, matches : SUBSET MatchRow, asked : SUBSET Users,
   since : [Users -> Nat]]
ItemEvent ==
  [type : {"collection.updated"}, version : Nat, sticker : Stickers, count : Count]
StatsEvent ==
  [type : {"stats.updated"}, version : Nat, alone : BOOLEAN, stats : StatsValues]

\* The labels of an update that has committed, of an update, and of a match.
Committed == {"stats", "publish item", "publish stats"}
Busy == {"upsert", "commit"} \cup Committed
Matched == {"they have", "you have"}

\* The variables have values of these kinds, and a job is that of its label.
Typed ==
  /\ items \in [Users -> Rows]
  /\ past \in [Users -> Seq(Counts)]
  /\ pc \in [Calls -> {"idle"} \cup Busy \cup Matched]
  /\ job \in [Calls -> {NoJob} \cup UpdateJob \cup MatchJob]
  /\ \A c \in Calls : /\ pc[c] = "idle" => job[c] = NoJob
                      /\ pc[c] \in Busy => job[c] \in UpdateJob
                      /\ pc[c] \in Matched => job[c] \in MatchJob
                      /\ pc[c] = "they have" => job[c].with = {}
  /\ events \in [Users -> Seq(ItemEvent \cup StatsEvent)]

\* The last of the past counts is the present collection.
Recorded == \A u \in Users : Len(past[u]) > 0 /\ past[u][Len(past[u])] = GetCollection(u)

------------------------------------------------------------------------------
(* What is announced                                                        *)

\* The statistics that r carries are those of counts of p, of its version or
\* of a later one.
Vouched(r, p) == \E v \in r.version .. Len(p) : r.stats = TrueStats(p[v])

\* e announces the count that the commit of that version stored.
Shows(e, version) == e.type = "collection.updated" /\ e.version = version

\* A committed call carries the version that its commit made.
CallFits(label, j, p) ==
  /\ j.version \in 1 .. Len(p)
  /\ p[j.version][j.sticker] = j.count
  /\ label # "stats" => Vouched(j, p)

\* What an event says is so in the past.
EventFits(e, p) ==
  /\ e.version \in 1 .. Len(p)
  /\ e.type = "collection.updated" => p[e.version][e.sticker] = e.count
  /\ e.type = "stats.updated" => Vouched(e, p)

\* One item event of a version, then its statistics; and what follows the
\* statistics of an update that was alone is of later versions.
Sequenced(es) ==
  \A i, k \in DOMAIN es :
    /\ i # k /\ es[i].type = "collection.updated" => ~Shows(es[k], es[i].version)
    /\ es[i].type = "stats.updated" =>
         \E h \in DOMAIN es : h < i /\ Shows(es[h], es[i].version)
    /\ i < k /\ es[i].type = "stats.updated" /\ es[k].type = "stats.updated" /\ es[i].alone =>
         es[i].version < es[k].version

\* What a committed call has published, and has not.
Pending(label, j, es) ==
  /\ label # "publish stats" => \A i \in DOMAIN es : ~Shows(es[i], j.version)
  /\ label = "publish stats" => \E i \in DOMAIN es : Shows(es[i], j.version)
  /\ \A i \in DOMAIN es : es[i].type = "stats.updated" /\ es[i].alone =>
       es[i].version < j.version

\* Every event is true, and they are in order.
Told == \A u \in Users : /\ \A i \in DOMAIN events[u] : EventFits(events[u][i], past[u])
                         /\ Sequenced(events[u])

\* A call that has committed carries what is true, and has published what its
\* label says.
Telling == \A c \in Calls : pc[c] \in Committed =>
  CallFits(pc[c], job[c], past[Caller[c]]) /\ Pending(pc[c], job[c], events[Caller[c]])

\* Two updates of one user are not alone, and made different versions.
Apart == \A c, d \in Calls : c # d /\ Caller[c] = Caller[d] =>
  /\ pc[c] \in Committed /\ pc[d] \in Committed => job[c].version # job[d].version
  /\ pc[c] \in Busy /\ pc[d] \in Busy => ~job[c].alone

(* Matches                                                                  *)

\* The counts of s that u had since then: one of them, or all, are in S.
Seen(u, s, S, since, ps) == \E v \in since[u] .. Len(ps[u]) : ps[u][v][s] \in S
Stayed(u, s, S, since, ps) == \A v \in since[u] .. Len(ps[u]) : ps[u][v][s] \in S

\* T is what giver could spare and taker lacked, at some time since then at
\* least, and all that was so during all of the time.
Fair(T, giver, taker, since, ps) ==
  \A s \in Stickers :
    /\ s \in T => Seen(giver, s, Tradable, since, ps) /\ Seen(taker, s, {0}, since, ps)
    /\ Stayed(giver, s, Tradable, since, ps) /\ Stayed(taker, s, {0}, since, ps) => s \in T

\* The partners that were answered have fair lists among the matches, or
\* fair lists that are empty.
MatchFits(label, j, me, ps) ==
  /\ \A u \in Users : j.since[u] \in 1 .. Len(ps[u])
  /\ \A m \in j.matches : /\ Fair(m.take, m.partner, me, j.since, ps)
                          /\ Fair(m.give, me, m.partner, j.since, ps)
  /\ label = "you have" => \E o \in Users : j.with = {o} /\ Fair(j.need, o, me, j.since, ps)
  /\ \A o \in j.asked \ (j.left \cup j.with) : \E T, G \in SUBSET Stickers :
       /\ Fair(T, o, me, j.since, ps) /\ Fair(G, me, o, j.since, ps)
       /\ T \cup G # {} => [partner |-> o, take |-> T, give |-> G] \in j.matches

\* Every call that matches has fair lists.
Matches == \A c \in Calls : pc[c] \in Matched => MatchFits(pc[c], job[c], Caller[c], past)

\* The inductive invariant.
Safe == Typed /\ Recorded /\ Told /\ Telling /\ Apart /\ Matches

------------------------------------------------------------------------------
\* A count, read back.
LEMMA CollectionCounts ==
  ASSUME NEW r \in Rows
  PROVE  /\ DOMAIN r \subseteq Stickers /\ \A s \in DOMAIN r : r[s] \in Count
         /\ [s \in Stickers |-> IF s \in DOMAIN r THEN r[s] ELSE 0] \in Counts
<1>1. PICK D \in SUBSET Stickers : r \in [D -> Count]
  BY DEF Rows
<1>2. 0 \in Count
  BY DEF Count, MaxCount
<1> QED
  BY <1>1, <1>2 DEF Counts

\* A collection is a count for every sticker.
LEMMA CollectionTyped ==
  ASSUME Typed, NEW u \in Users
  PROVE  GetCollection(u) \in Counts
<1>1. items[u] \in Rows
  BY DEF Typed
<1> QED
  BY <1>1, CollectionCounts DEF GetCollection

\* The calls that do something have a job of that kind.
LEMMA Kinds ==
  ASSUME Typed, NEW c \in Calls
  PROVE  /\ job[c].kind = "update" <=> pc[c] \in Busy
         /\ job[c].kind = "match" <=> pc[c] \in Matched
         /\ pc[c] = "idle" <=> job[c] = NoJob
<1>1. pc[c] \in {"idle"} \cup Busy \cup Matched
  BY DEF Typed
<1>2. /\ pc[c] = "idle" => job[c] = NoJob
      /\ pc[c] \in Busy => job[c] \in UpdateJob
      /\ pc[c] \in Matched => job[c] \in MatchJob
  BY DEF Typed
<1>3. NoJob.kind = "none" /\ (\A j \in UpdateJob : j.kind = "update")
      /\ \A j \in MatchJob : j.kind = "match"
  BY DEF NoJob, UpdateJob, MatchJob
<1> QED
  BY <1>1, <1>2, <1>3 DEF Busy, Matched, Committed

------------------------------------------------------------------------------
(* What the actions do to the calls and to the past                         *)

\* q is p, or p with more counts at its end.
Extends(p, q) == Len(p) <= Len(q) /\ \A i \in 1 .. Len(p) : q[i] = p[i]

\* A commit stores the count of the call, and the past has one entry more.
LEMMA CommitStores ==
  ASSUME Typed, Recorded, NEW c \in Calls, Commit(c)
  PROVE  LET u == Caller[c] IN
         /\ u \in Users /\ pc[c] = "commit" /\ job[c] \in UpdateJob
         /\ items' \in [Users -> Rows] /\ past' \in [Users -> Seq(Counts)]
         /\ \A w \in Users \ {u} : items'[w] = items[w] /\ past'[w] = past[w]
         /\ Len(past'[u]) = Len(past[u]) + 1 /\ Len(past[u]) \in Nat
         /\ Extends(past[u], past'[u])
         /\ past'[u][Len(past[u]) + 1] = GetCollection(u)'
         /\ past'[u][Len(past[u]) + 1][job[c].sticker] = job[c].count
         /\ job'[c] = [job[c] EXCEPT !.version = Len(past[u]) + 1]
         /\ pc'[c] = "stats"
         /\ \A d \in Calls \ {c} : job'[d] = job[d] /\ pc'[d] = pc[d]
<1> DEFINE u == Caller[c]
           s == job[c].sticker
           row == [x \in DOMAIN items[u] \cup {s} |-> IF x = s THEN job[c].count ELSE items[u][x]]
<1>1. /\ u \in Users /\ pc[c] = "commit" /\ job[c] \in UpdateJob
      /\ s \in Stickers /\ job[c].count \in Count
  <2>1. pc[c] = "commit"
    BY DEF Commit
  <2>2. job[c] \in UpdateJob
    BY <2>1 DEF Typed, Busy
  <2> QED
    BY <2>1, <2>2, UserAssumption DEF UpdateJob
<1>2. row \in Rows
  <2>1. items[u] \in Rows
    BY <1>1 DEF Typed
  <2>2. DOMAIN items[u] \subseteq Stickers /\ \A x \in DOMAIN items[u] : items[u][x] \in Count
    BY <2>1, CollectionCounts
  <2>3. DOMAIN items[u] \cup {s} \in SUBSET Stickers
    BY <1>1, <2>2
  <2>4. row \in [DOMAIN items[u] \cup {s} -> Count]
    BY <1>1, <2>2
  <2> HIDE DEF row
  <2> QED
    BY <2>3, <2>4 DEF Rows
<1>3. items' = [items EXCEPT ![u] = row] /\ items \in [Users -> Rows]
  BY DEF Commit, Typed
<1>4. DOMAIN row = DOMAIN items[u] \cup {s} /\ row[s] = job[c].count
  OBVIOUS
<1> HIDE DEF row, u
<1>5. /\ items' \in [Users -> Rows] /\ items'[u] = row
      /\ \A w \in Users \ {u} : items'[w] = items[w]
  BY <1>1, <1>2, <1>3
<1>6. GetCollection(u)' = [x \in Stickers |-> IF x \in DOMAIN row THEN row[x] ELSE 0]
  BY <1>5 DEF GetCollection, u
<1>7. GetCollection(u)' \in Counts /\ GetCollection(u)'[s] = job[c].count
  <2>1. [x \in Stickers |-> IF x \in DOMAIN row THEN row[x] ELSE 0] \in Counts
    BY <1>2, CollectionCounts
  <2> QED
    BY <1>1, <1>4, <1>6, <2>1
<1>8. past' = [past EXCEPT ![u] = Append(past[u], GetCollection(u)')]
  BY DEF Commit, u
<1> DEFINE new == GetCollection(u)'
           k == Len(past[u])
<1> HIDE DEF new
<1>9. past[u] \in Seq(Counts) /\ past \in [Users -> Seq(Counts)] /\ k \in Nat
  BY <1>1, LenProperties DEF Typed
<1>10. /\ Append(past[u], new) \in Seq(Counts) /\ Len(Append(past[u], new)) = k + 1
       /\ Append(past[u], new)[k + 1] = new
       /\ \A i \in 1 .. k : Append(past[u], new)[i] = past[u][i]
  BY <1>7, <1>9, AppendProperties DEF new
<1>11. past'[u] = Append(past[u], new) /\ \A w \in Users \ {u} : past'[w] = past[w]
  BY <1>1, <1>8, <1>9 DEF new
<1>12. past' \in [Users -> Seq(Counts)]
  BY <1>1, <1>8, <1>9, <1>10 DEF new
<1>13. Len(past'[u]) = k + 1 /\ Extends(past[u], past'[u]) /\ past'[u][k + 1] = new
  <2>1. k <= k + 1
    BY <1>9
  <2> QED
    BY <1>10, <1>11, <2>1 DEF Extends
<1>14. /\ job' = [job EXCEPT ![c].version = k + 1] /\ pc' = [pc EXCEPT ![c] = "stats"]
  BY <1>13 DEF Commit, Goto, u
<1>15. /\ job'[c] = [job[c] EXCEPT !.version = k + 1] /\ pc'[c] = "stats"
       /\ \A d \in Calls \ {c} : job'[d] = job[d] /\ pc'[d] = pc[d]
  BY <1>14 DEF Typed
<1> QED
  BY <1>1, <1>5, <1>7, <1>9, <1>11, <1>12, <1>13, <1>15 DEF new, u

\* An update is taken up, and no other is alone.
LEMMA BeginStarts ==
  ASSUME Typed, NEW c \in Calls, NEW s \in Stickers, NEW n \in Inputs, UpdateItem(c, s, n)
  PROVE  /\ pc[c] = "idle" /\ pc'[c] = "upsert"
         /\ job'[c] = NewUpdate(c, s, n) /\ NewUpdate(c, s, n) \in UpdateJob
         /\ \A d \in Calls \ {c} :
              /\ pc'[d] = pc[d]
              /\ d \notin Updating(Caller[c]) => job'[d] = job[d]
              /\ d \in Updating(Caller[c]) => job'[d] = [job[d] EXCEPT !.alone = FALSE]
         /\ UNCHANGED <<items, events, past>>
<1>1. n \in Count
  BY BoundAssumption DEF UpdateItem, Count, MaxCount
<1>2. NewUpdate(c, s, n) \in UpdateJob
  <2>1. NoStats \in StatsValues /\ 0 \in Nat
    BY DEF StatsValues
  <2>2. (Updating(Caller[c]) = {}) \in BOOLEAN
    OBVIOUS
  <2> QED
    BY <1>1, <2>1, <2>2 DEF NewUpdate, UpdateJob
<1>3. /\ job' = [d \in Calls |-> IF d = c THEN NewUpdate(c, s, n)
                                 ELSE IF d \in Updating(Caller[c])
                                 THEN [job[d] EXCEPT !.alone = FALSE] ELSE job[d]]
      /\ pc' = [pc EXCEPT ![c] = "upsert"] /\ pc[c] = "idle"
      /\ UNCHANGED <<items, events, past>>
  BY DEF UpdateItem, Begin, Goto
<1>4. pc'[c] = "upsert" /\ \A d \in Calls \ {c} : pc'[d] = pc[d]
  BY <1>3 DEF Typed
<1>5. ASSUME NEW d \in Calls \ {c}
      PROVE  /\ d \notin Updating(Caller[c]) => job'[d] = job[d]
             /\ d \in Updating(Caller[c]) => job'[d] = [job[d] EXCEPT !.alone = FALSE]
  BY <1>3
<1>6. job'[c] = NewUpdate(c, s, n)
  BY <1>3
<1> QED
  BY <1>2, <1>3, <1>4, <1>5, <1>6

\* The other steps of a call change its own job and label.
LEMMA CallMoves ==
  ASSUME Typed, NEW c \in Calls, NEW label, NEW j,
         Goto(c, label), job' = [job EXCEPT ![c] = j]
  PROVE  /\ pc'[c] = label /\ job'[c] = j
         /\ \A d \in Calls \ {c} : job'[d] = job[d] /\ pc'[d] = pc[d]
  BY DEF Typed, Goto

\* A call that ends has no job.
LEMMA FinishMoves ==
  ASSUME Typed, NEW c \in Calls, Finish(c)
  PROVE  /\ pc'[c] = "idle" /\ job'[c] = NoJob
         /\ \A d \in Calls \ {c} : job'[d] = job[d] /\ pc'[d] = pc[d]
<1>1. Goto(c, "idle") /\ job' = [job EXCEPT ![c] = NoJob]
  BY DEF Finish
<1> QED
  BY <1>1, CallMoves

\* The statistics that are read are those of the present collection.
LEMMA ReadStatsMoves ==
  ASSUME Typed, NEW c \in Calls, ReadStats(c)
  PROVE  LET u == Caller[c] IN
         /\ u \in Users /\ pc[c] = "stats" /\ job[c] \in UpdateJob
         /\ TrueStats(GetCollection(u)) \in StatsValues
         /\ pc'[c] = "publish item"
         /\ job'[c] = [job[c] EXCEPT !.stats = TrueStats(GetCollection(u))]
         /\ \A d \in Calls \ {c} : job'[d] = job[d] /\ pc'[d] = pc[d]
         /\ UNCHANGED <<items, events, past>>
<1> DEFINE k == TrueStats(GetCollection(Caller[c]))
<1>1. Caller[c] \in Users /\ pc[c] = "stats" /\ job[c] \in UpdateJob
  BY UserAssumption DEF ReadStats, Typed, Busy, Committed
<1>2. GetCollection(Caller[c]) \in Counts
  BY <1>1, CollectionTyped
<1>3. GetStats(Caller[c]) = k /\ k \in StatsValues
  BY <1>2, StatsAreTrue DEF Counts, GetStats, StatsValues
<1>4. Goto(c, "publish item") /\ job' = [job EXCEPT ![c].stats = k]
      /\ UNCHANGED <<items, events, past>>
  BY <1>3 DEF ReadStats
<1> HIDE DEF k
<1>5. job' = [job EXCEPT ![c] = [job[c] EXCEPT !.stats = k]]
  BY <1>4
<1>6. /\ pc'[c] = "publish item" /\ job'[c] = [job[c] EXCEPT !.stats = k]
      /\ \A d \in Calls \ {c} : job'[d] = job[d] /\ pc'[d] = pc[d]
  BY <1>4, <1>5, CallMoves
<1> QED
  BY <1>1, <1>3, <1>4, <1>6 DEF k

(* The types hold                                                           *)

\* The first rows are the first entry of the past.
LEMMA InitTyped ==
  ASSUME Init
  PROVE  Typed /\ Recorded
<1>1. items \in [Users -> Rows]
  <2>1. ASSUME NEW u \in Users PROVE items[u] \in Rows
    <3>1. items[u] \in Stocks
      BY DEF Init
    <3>2. PICK D \in SUBSET Stickers : items[u] \in [D -> Count]
      BY <3>1, StocksAssumption DEF Count, MaxCount
    <3> QED
      BY <3>2 DEF Rows
  <2>2. items \in [Users -> Stocks]
    BY DEF Init
  <2> QED
    BY <2>1, <2>2
<1>2. ASSUME NEW u \in Users
      PROVE  /\ past[u] \in Seq(Counts) /\ Len(past[u]) = 1 /\ past[u][1] = GetCollection(u)
  <2>1. past[u] = <<GetCollection(u)>>
    BY DEF Init
  <2>2. items[u] \in Rows
    BY <1>1
  <2>3. GetCollection(u) \in Counts
    BY <2>2, CollectionCounts DEF GetCollection
  <2> DEFINE k == GetCollection(u)
  <2> HIDE DEF k
  <2>4. <<k>> \in Seq(Counts) /\ Len(<<k>>) = 1 /\ <<k>>[1] = k
    BY <2>3 DEF k
  <2> QED
    BY <2>1, <2>4 DEF k
<1>3. past \in [Users -> Seq(Counts)]
  <2>1. past = [u \in Users |-> <<GetCollection(u)>>]
    BY DEF Init
  <2> QED
    BY <1>2, <2>1
<1>4. /\ pc \in [Calls -> {"idle"} \cup Busy \cup Matched]
      /\ job \in [Calls -> {NoJob} \cup UpdateJob \cup MatchJob]
      /\ \A c \in Calls : pc[c] = "idle" /\ job[c] = NoJob
      /\ events \in [Users -> Seq(ItemEvent \cup StatsEvent)]
  BY DEF Init
<1>5. Typed
  BY <1>1, <1>3, <1>4 DEF Typed, Busy, Matched, Committed
<1>6. Recorded
  BY <1>2 DEF Recorded
<1> QED
  BY <1>5, <1>6

\* What a call carries fits what it does next.
JobFits(label, j) ==
  \/ label = "idle" /\ j = NoJob
  \/ label \in Busy /\ j \in UpdateJob
  \/ label \in Matched /\ j \in MatchJob /\ (label = "they have" => j.with = {})

\* The types hold after a step if every call has a job that fits its label.
LEMMA TypedMove ==
  ASSUME Typed, NEW c \in Calls, JobFits(pc'[c], job'[c]),
         \A d \in Calls \ {c} : pc'[d] = pc[d] /\ JobFits(pc[d], job'[d]),
         \E f : job' = [d \in Calls |-> f[d]], \E f : pc' = [d \in Calls |-> f[d]],
         items' \in [Users -> Rows], past' \in [Users -> Seq(Counts)],
         events' \in [Users -> Seq(ItemEvent \cup StatsEvent)]
  PROVE  Typed'
<1>1. ASSUME NEW d \in Calls PROVE JobFits(pc'[d], job'[d])
  BY <1>1
<1>2. ASSUME NEW d \in Calls
      PROVE  /\ pc'[d] \in {"idle"} \cup Busy \cup Matched
             /\ job'[d] \in {NoJob} \cup UpdateJob \cup MatchJob
             /\ pc'[d] = "idle" => job'[d] = NoJob
             /\ pc'[d] \in Busy => job'[d] \in UpdateJob
             /\ pc'[d] \in Matched => job'[d] \in MatchJob
             /\ pc'[d] = "they have" => job'[d].with = {}
  BY <1>1 DEF JobFits, Busy, Committed, Matched
<1>3. pc' \in [Calls -> {"idle"} \cup Busy \cup Matched]
  BY <1>2
<1>4. job' \in [Calls -> {NoJob} \cup UpdateJob \cup MatchJob]
  BY <1>2
<1> QED
  BY <1>2, <1>3, <1>4 DEF Typed

\* And it did before.
LEMMA OldJobFits ==
  ASSUME Typed, NEW d \in Calls
  PROVE  JobFits(pc[d], job[d])
<1>1. pc[d] \in {"idle"} \cup Busy \cup Matched
  BY DEF Typed
<1> QED
  BY <1>1 DEF Typed, JobFits

\* The steps that change the job of one call.
LEMMA TypedCallMove ==
  ASSUME Typed, NEW c \in Calls, NEW label, NEW j, JobFits(label, j),
         Goto(c, label), job' = [job EXCEPT ![c] = j],
         items' \in [Users -> Rows], past' \in [Users -> Seq(Counts)],
         events' \in [Users -> Seq(ItemEvent \cup StatsEvent)]
  PROVE  Typed'
<1>1. /\ pc'[c] = label /\ job'[c] = j
      /\ \A d \in Calls \ {c} : job'[d] = job[d] /\ pc'[d] = pc[d]
  BY CallMoves
<1>2. \A d \in Calls \ {c} : pc'[d] = pc[d] /\ JobFits(pc[d], job'[d])
  BY <1>1, OldJobFits
<1>3. job' = [d \in Calls |-> job'[d]] /\ pc' = [d \in Calls |-> pc'[d]]
  BY DEF Typed, Goto
<1>4. (\E f : job' = [d \in Calls |-> f[d]]) /\ \E f : pc' = [d \in Calls |-> f[d]]
  BY <1>3
<1> QED
  BY <1>1, <1>2, <1>4, TypedMove

\* An event comes after the others of its user.
LEMMA EventAppended ==
  ASSUME Typed, NEW u \in Users, NEW e \in ItemEvent \cup StatsEvent,
         events' = [events EXCEPT ![u] = Append(@, e)]
  PROVE  /\ events' \in [Users -> Seq(ItemEvent \cup StatsEvent)]
         /\ \A w \in Users \ {u} : events'[w] = events[w]
         /\ Len(events[u]) \in Nat
         /\ DOMAIN events[u] = 1 .. Len(events[u])
         /\ DOMAIN events'[u] = 1 .. (Len(events[u]) + 1)
         /\ \A i \in 1 .. Len(events[u]) : events'[u][i] = events[u][i]
         /\ events'[u][Len(events[u]) + 1] = e
<1> DEFINE E == ItemEvent \cup StatsEvent
           n == Len(events[u])
<1> HIDE DEF E
<1>1. events \in [Users -> Seq(E)] /\ events[u] \in Seq(E) /\ e \in E
  BY DEF Typed, E
<1>2. n \in Nat /\ DOMAIN events[u] = 1 .. n
  BY <1>1, LenProperties
<1>3. /\ Append(events[u], e) \in Seq(E) /\ Len(Append(events[u], e)) = n + 1
      /\ Append(events[u], e)[n + 1] = e
      /\ \A i \in 1 .. n : Append(events[u], e)[i] = events[u][i]
  BY <1>1, AppendProperties
<1>4. DOMAIN Append(events[u], e) = 1 .. (n + 1)
  BY <1>3, LenProperties
<1>5. /\ events' \in [Users -> Seq(E)] /\ events'[u] = Append(events[u], e)
      /\ \A w \in Users \ {u} : events'[w] = events[w]
  BY <1>1, <1>3
<1> QED
  BY <1>2, <1>3, <1>4, <1>5 DEF E

\* The events that a call publishes, and the jobs of a match.
ItemEventOf(j) ==
  [type |-> "collection.updated", version |-> j.version, sticker |-> j.sticker, count |-> j.count]
StatsEventOf(j) ==
  [type |-> "stats.updated", version |-> j.version, alone |-> j.alone, stats |-> j.stats]

\* PublishItem sends the count that the call carries.
LEMMA PublishItemMoves ==
  ASSUME Typed, NEW c \in Calls, PublishItem(c)
  PROVE  LET u == Caller[c] IN
         /\ u \in Users /\ pc[c] = "publish item" /\ job[c] \in UpdateJob
         /\ ItemEventOf(job[c]) \in ItemEvent
         /\ events' = [events EXCEPT ![u] = Append(@, ItemEventOf(job[c]))]
         /\ Goto(c, "publish stats") /\ pc'[c] = "publish stats"
         /\ \A d \in Calls \ {c} : pc'[d] = pc[d]
         /\ UNCHANGED <<items, job, past>>
<1>1. Caller[c] \in Users /\ pc[c] = "publish item" /\ job[c] \in UpdateJob
  BY UserAssumption DEF PublishItem, Typed, Busy, Committed
<1>2. ItemEventOf(job[c]) \in ItemEvent
  BY <1>1 DEF ItemEventOf, ItemEvent, UpdateJob
<1>3. /\ events' = [events EXCEPT ![Caller[c]] = Append(@, ItemEventOf(job[c]))]
      /\ Goto(c, "publish stats") /\ UNCHANGED <<items, job, past>>
  BY DEF PublishItem, ItemEventOf
<1>4. pc'[c] = "publish stats" /\ \A d \in Calls \ {c} : pc'[d] = pc[d]
  BY <1>3 DEF Goto, Typed
<1> QED
  BY <1>1, <1>2, <1>3, <1>4

\* PublishStats sends the statistics that the call carries, and ends it.
LEMMA PublishStatsMoves ==
  ASSUME Typed, NEW c \in Calls, PublishStats(c)
  PROVE  LET u == Caller[c] IN
         /\ u \in Users /\ pc[c] = "publish stats" /\ job[c] \in UpdateJob
         /\ StatsEventOf(job[c]) \in StatsEvent
         /\ events' = [events EXCEPT ![u] = Append(@, StatsEventOf(job[c]))]
         /\ Finish(c) /\ UNCHANGED <<items, past>>
<1>1. Caller[c] \in Users /\ pc[c] = "publish stats" /\ job[c] \in UpdateJob
  BY UserAssumption DEF PublishStats, Typed, Busy, Committed
<1>2. StatsEventOf(job[c]) \in StatsEvent
  BY <1>1 DEF StatsEventOf, StatsEvent, UpdateJob
<1>3. /\ events' = [events EXCEPT ![Caller[c]] = Append(@, StatsEventOf(job[c]))]
      /\ Finish(c) /\ UNCHANGED <<items, past>>
  BY DEF PublishStats, StatsEventOf
<1> QED
  BY <1>1, <1>2, <1>3

NewMatch(partners, all) ==
  [kind |-> "match", left |-> partners, all |-> all, with |-> {}, need |-> {},
   matches |-> {}, asked |-> partners, since |-> [u \in Users |-> Len(past[u])]]

\* A match begins with all of its partners left to ask.
LEMMA MatchMoves ==
  ASSUME Typed, NEW c \in Calls, NEW partners \in SUBSET Users, NEW all \in BOOLEAN,
         Match(c, partners, all)
  PROVE  /\ NewMatch(partners, all) \in MatchJob
         /\ Goto(c, "they have") /\ job' = [job EXCEPT ![c] = NewMatch(partners, all)]
         /\ UNCHANGED <<items, events, past>>
<1>1. [u \in Users |-> Len(past[u])] \in [Users -> Nat]
  <2>1. ASSUME NEW u \in Users PROVE Len(past[u]) \in Nat
    <3>1. past[u] \in Seq(Counts)
      BY DEF Typed
    <3> QED
      BY <3>1, LenProperties
  <2> QED
    BY <2>1
<1>2. NewMatch(partners, all) \in MatchJob
  BY <1>1 DEF NewMatch, MatchJob
<1> QED
  BY <1>2 DEF Match, NewMatch

\* A query gives stickers.
LEMMA SideTyped ==
  ASSUME NEW a, NEW b
  PROVE  QueryMatchSide(a, b) \in SUBSET Stickers
  BY DEF QueryMatchSide

TheyJob(j, me, o) == [j EXCEPT !.left = @ \ {o}, !.with = {o}, !.need = QueryMatchSide(me, o)]

\* What the first query of a partner does to the call.
LEMMA TheyHaveMoves ==
  ASSUME Typed, NEW c \in Calls, NEW o \in Users, TheyHaveYouNeed(c, o)
  PROVE  /\ pc[c] = "they have" /\ job[c] \in MatchJob /\ o \in job[c].left
         /\ TheyJob(job[c], Caller[c], o) \in MatchJob
         /\ Goto(c, "you have") /\ job' = [job EXCEPT ![c] = TheyJob(job[c], Caller[c], o)]
         /\ UNCHANGED <<items, events, past>>
<1>1. pc[c] = "they have" /\ job[c] \in MatchJob
  BY DEF TheyHaveYouNeed, Typed, Matched
<1>2. TheyJob(job[c], Caller[c], o) \in MatchJob
  <2>1. QueryMatchSide(Caller[c], o) \in SUBSET Stickers
    BY SideTyped
  <2> QED
    BY <1>1, <2>1 DEF TheyJob, MatchJob
<1>3. job' = [job EXCEPT ![c] = TheyJob(job[c], Caller[c], o)]
  BY DEF TheyHaveYouNeed, TheyJob
<1> QED
  BY <1>1, <1>2, <1>3 DEF TheyHaveYouNeed

YouJob(j, me, o) ==
  [j EXCEPT !.with = {}, !.need = {}, !.matches =
     IF j.all \/ j.need \cup QueryMatchSide(o, me) # {}
     THEN @ \cup {[partner |-> o, take |-> j.need, give |-> QueryMatchSide(o, me)]}
     ELSE @]

\* What the second query of a partner does to the call.
LEMMA YouHaveMoves ==
  ASSUME Typed, NEW c \in Calls, NEW o \in Users, YouHaveTheyNeed(c, o)
  PROVE  /\ pc[c] = "you have" /\ job[c] \in MatchJob /\ o \in job[c].with
         /\ YouJob(job[c], Caller[c], o) \in MatchJob
         /\ Goto(c, "they have") /\ job' = [job EXCEPT ![c] = YouJob(job[c], Caller[c], o)]
         /\ UNCHANGED <<items, events, past>>
<1>1. pc[c] = "you have" /\ job[c] \in MatchJob
  BY DEF YouHaveTheyNeed, Typed, Matched
<1>2. YouJob(job[c], Caller[c], o) \in MatchJob
  <2> DEFINE G == QueryMatchSide(o, Caller[c])
             row == [partner |-> o, take |-> job[c].need, give |-> G]
  <2>1. G \in SUBSET Stickers
    BY SideTyped
  <2>2. row \in MatchRow /\ job[c].matches \in SUBSET MatchRow
    BY <1>1, <2>1 DEF MatchRow, MatchJob
  <2> DEFINE more == IF job[c].all \/ job[c].need \cup G # {}
                     THEN job[c].matches \cup {row} ELSE job[c].matches
  <2>3. more \in SUBSET MatchRow
    BY <2>2
  <2>4. YouJob(job[c], Caller[c], o) = [job[c] EXCEPT !.with = {}, !.need = {}, !.matches = more]
    BY <1>1 DEF YouJob, MatchJob
  <2> HIDE DEF more
  <2> QED
    BY <1>1, <2>3, <2>4 DEF MatchJob
<1>3. job' = [job EXCEPT ![c] = YouJob(job[c], Caller[c], o)]
  BY <1>1 DEF YouHaveTheyNeed, YouJob, MatchJob
<1> QED
  BY <1>1, <1>2, <1>3 DEF YouHaveTheyNeed

\* Both kinds of matching ask users.
LEMMA FindMoves ==
  ASSUME NEW c \in Calls
  PROVE  /\ FindMatches(c) => \E S \in SUBSET Users, all \in BOOLEAN : Match(c, S, all)
         /\ \A o \in Users : FindMatchWithUser(c, o) =>
              \E S \in SUBSET Users, all \in BOOLEAN : Match(c, S, all)
<1>1. Public \ {Caller[c]} \in SUBSET Users /\ \A o \in Users : {o} \in SUBSET Users
  BY UserAssumption
<1>2. FALSE \in BOOLEAN /\ TRUE \in BOOLEAN
  OBVIOUS
<1> QED
  BY <1>1, <1>2, Zenon DEF FindMatches, FindMatchWithUser

\* Next, action by action.
LEMMA Actions ==
  ASSUME Next
  PROVE  \E c \in Calls :
           \/ \E s \in Stickers, n \in Inputs : UpdateItem(c, s, n)
           \/ Upsert(c) \/ Commit(c) \/ ReadStats(c) \/ PublishItem(c) \/ PublishStats(c)
           \/ \E S \in SUBSET Users, all \in BOOLEAN : Match(c, S, all)
           \/ \E o \in Users : TheyHaveYouNeed(c, o) \/ YouHaveTheyNeed(c, o)
           \/ Finish(c) /\ UNCHANGED <<items, events, past>>
<1>1. PICK c \in Calls : Update(c) \/ Matching(c) \/ GiveUp(c)
  BY DEF Next
<1>2. CASE Update(c)
  BY <1>2 DEF Update
<1>3. CASE Matching(c)
  BY <1>3, FindMoves, Zenon DEF Matching, AnswerMatches
<1>4. CASE GiveUp(c)
  BY <1>4 DEF GiveUp
<1> QED
  BY <1>1, <1>2, <1>3, <1>4

\* Every action keeps the types.
LEMMA TypedStep ==
  ASSUME Typed, Recorded, [Next]_vars
  PROVE  Typed'
<1> DEFINE E == ItemEvent \cup StatsEvent
<1>0. /\ items \in [Users -> Rows] /\ past \in [Users -> Seq(Counts)]
      /\ events \in [Users -> Seq(E)]
  BY DEF Typed
<1> HIDE DEF E
<1>1. CASE UNCHANGED vars
  BY <1>1 DEF Typed, vars
<1>2. ASSUME NEW c \in Calls, NEW s \in Stickers, NEW n \in Inputs, UpdateItem(c, s, n)
      PROVE  Typed'
  <2>1. /\ pc[c] = "idle" /\ pc'[c] = "upsert"
        /\ job'[c] = NewUpdate(c, s, n) /\ NewUpdate(c, s, n) \in UpdateJob
        /\ \A d \in Calls \ {c} :
             /\ pc'[d] = pc[d]
             /\ d \notin Updating(Caller[c]) => job'[d] = job[d]
             /\ d \in Updating(Caller[c]) => job'[d] = [job[d] EXCEPT !.alone = FALSE]
        /\ UNCHANGED <<items, events, past>>
    BY <1>2, BeginStarts
  <2>2. JobFits(pc'[c], job'[c])
    BY <2>1 DEF JobFits, Busy
  <2>3. ASSUME NEW d \in Calls \ {c}
        PROVE  pc'[d] = pc[d] /\ JobFits(pc[d], job'[d])
    <3>1. CASE d \notin Updating(Caller[c])
      BY <2>1, <3>1, OldJobFits
    <3>2. CASE d \in Updating(Caller[c])
      <4>1. pc[d] \in Busy
        BY <3>2, Kinds DEF Updating
      <4>2. job[d] \in UpdateJob
        BY <4>1 DEF Typed
      <4>3. [job[d] EXCEPT !.alone = FALSE] \in UpdateJob
        BY <4>2 DEF UpdateJob
      <4> QED
        BY <2>1, <3>2, <4>1, <4>3 DEF JobFits
    <3> QED
      BY <3>1, <3>2
  <2>4. job' = [d \in Calls |-> job'[d]] /\ pc' = [d \in Calls |-> pc'[d]]
    BY <1>2 DEF UpdateItem, Begin, Goto, Typed
  <2>5. (\E f : job' = [d \in Calls |-> f[d]]) /\ \E f : pc' = [d \in Calls |-> f[d]]
    BY <2>4
  <2>6. items' \in [Users -> Rows] /\ past' \in [Users -> Seq(Counts)]
        /\ events' \in [Users -> Seq(ItemEvent \cup StatsEvent)]
    BY <1>0, <2>1 DEF E
  <2> QED
    BY <2>2, <2>3, <2>5, <2>6, TypedMove
<1>3. ASSUME NEW c \in Calls, Upsert(c) PROVE Typed'
  <2>1. pc[c] = "upsert" /\ Goto(c, "commit") /\ UNCHANGED <<items, job, events, past>>
    BY <1>3 DEF Upsert
  <2>2. JobFits("commit", job[c])
    BY <2>1 DEF JobFits, Typed, Busy
  <2>3. job' = [job EXCEPT ![c] = job[c]]
    BY <2>1 DEF Typed
  <2> QED
    BY <1>0, <2>1, <2>2, <2>3, TypedCallMove DEF E
<1>4. ASSUME NEW c \in Calls, Commit(c) PROVE Typed'
  <2> DEFINE k == Len(past[Caller[c]])
  <2>1. /\ job[c] \in UpdateJob /\ k \in Nat /\ Caller[c] \in Users
        /\ items' \in [Users -> Rows] /\ past' \in [Users -> Seq(Counts)]
        /\ Len(past'[Caller[c]]) = k + 1
    BY <1>4, CommitStores
  <2>2. /\ job' = [job EXCEPT ![c] = [job[c] EXCEPT !.version = k + 1]]
        /\ Goto(c, "stats") /\ UNCHANGED events
    BY <1>4, <2>1 DEF Commit
  <2>3. k + 1 \in Nat
    BY <2>1
  <2> HIDE DEF k
  <2>4. JobFits("stats", [job[c] EXCEPT !.version = k + 1])
    BY <2>1, <2>3 DEF JobFits, UpdateJob, Busy, Committed
  <2> QED
    BY <1>0, <2>1, <2>2, <2>4, TypedCallMove DEF E
<1>5. ASSUME NEW c \in Calls, ReadStats(c) PROVE Typed'
  <2> DEFINE k == TrueStats(GetCollection(Caller[c]))
  <2>1. /\ job[c] \in UpdateJob /\ k \in StatsValues /\ Caller[c] \in Users
        /\ UNCHANGED <<items, events, past>>
    BY <1>5, ReadStatsMoves
  <2>2. GetStats(Caller[c]) = k
    BY <2>1, CollectionTyped, StatsAreTrue DEF Counts, GetStats
  <2>3. Goto(c, "publish item") /\ job' = [job EXCEPT ![c] = [job[c] EXCEPT !.stats = k]]
    BY <1>5, <2>2 DEF ReadStats
  <2> HIDE DEF k
  <2>4. JobFits("publish item", [job[c] EXCEPT !.stats = k])
    BY <2>1 DEF JobFits, UpdateJob, Busy, Committed
  <2> QED
    BY <1>0, <2>1, <2>3, <2>4, TypedCallMove DEF E
<1>6. ASSUME NEW c \in Calls, PublishItem(c) PROVE Typed'
  <2>1. /\ Caller[c] \in Users /\ job[c] \in UpdateJob
        /\ ItemEventOf(job[c]) \in ItemEvent
        /\ events' = [events EXCEPT ![Caller[c]] = Append(@, ItemEventOf(job[c]))]
        /\ Goto(c, "publish stats") /\ UNCHANGED <<items, job, past>>
    BY <1>6, PublishItemMoves
  <2>2. events' \in [Users -> Seq(ItemEvent \cup StatsEvent)]
    BY <2>1, EventAppended
  <2>3. JobFits("publish stats", job[c])
    BY <2>1 DEF JobFits, Busy, Committed
  <2>4. job' = [job EXCEPT ![c] = job[c]]
    BY <2>1 DEF Typed
  <2> QED
    BY <1>0, <2>1, <2>2, <2>3, <2>4, TypedCallMove
<1>7. ASSUME NEW c \in Calls, PublishStats(c) PROVE Typed'
  <2>1. /\ Caller[c] \in Users /\ StatsEventOf(job[c]) \in StatsEvent
        /\ events' = [events EXCEPT ![Caller[c]] = Append(@, StatsEventOf(job[c]))]
        /\ Finish(c) /\ UNCHANGED <<items, past>>
    BY <1>7, PublishStatsMoves
  <2>2. events' \in [Users -> Seq(ItemEvent \cup StatsEvent)]
    BY <2>1, EventAppended
  <2>3. JobFits("idle", NoJob)
    BY DEF JobFits
  <2> QED
    BY <1>0, <2>1, <2>2, <2>3, TypedCallMove DEF Finish
<1>8. ASSUME NEW c \in Calls, NEW S \in SUBSET Users, NEW all \in BOOLEAN, Match(c, S, all)
      PROVE  Typed'
  <2>1. /\ NewMatch(S, all) \in MatchJob
        /\ Goto(c, "they have") /\ job' = [job EXCEPT ![c] = NewMatch(S, all)]
        /\ UNCHANGED <<items, events, past>>
    BY <1>8, MatchMoves
  <2>2. JobFits("they have", NewMatch(S, all))
    BY <2>1 DEF JobFits, Matched, NewMatch
  <2> QED
    BY <1>0, <2>1, <2>2, TypedCallMove DEF E
<1>9. ASSUME NEW c \in Calls, NEW o \in Users, TheyHaveYouNeed(c, o) PROVE Typed'
  <2>1. /\ TheyJob(job[c], Caller[c], o) \in MatchJob
        /\ Goto(c, "you have") /\ job' = [job EXCEPT ![c] = TheyJob(job[c], Caller[c], o)]
        /\ UNCHANGED <<items, events, past>>
    BY <1>9, TheyHaveMoves
  <2>2. JobFits("you have", TheyJob(job[c], Caller[c], o))
    BY <2>1 DEF JobFits, Matched
  <2> QED
    BY <1>0, <2>1, <2>2, TypedCallMove DEF E
<1>10. ASSUME NEW c \in Calls, NEW o \in Users, YouHaveTheyNeed(c, o) PROVE Typed'
  <2>1. /\ YouJob(job[c], Caller[c], o) \in MatchJob /\ job[c] \in MatchJob
        /\ Goto(c, "they have") /\ job' = [job EXCEPT ![c] = YouJob(job[c], Caller[c], o)]
        /\ UNCHANGED <<items, events, past>>
    BY <1>10, YouHaveMoves
  <2>2. YouJob(job[c], Caller[c], o).with = {}
    BY <2>1 DEF YouJob, MatchJob
  <2>3. JobFits("they have", YouJob(job[c], Caller[c], o))
    BY <2>1, <2>2 DEF JobFits, Matched
  <2> QED
    BY <1>0, <2>1, <2>3, TypedCallMove DEF E
<1>11. ASSUME NEW c \in Calls, Finish(c), UNCHANGED <<items, events, past>> PROVE Typed'
  <2>1. JobFits("idle", NoJob)
    BY DEF JobFits
  <2> QED
    BY <1>0, <1>11, <2>1, TypedCallMove DEF E, Finish
<1> QED
  BY <1>1, <1>2, <1>3, <1>4, <1>5, <1>6, <1>7, <1>8, <1>9, <1>10, <1>11, Actions

\* Only commits change rows, and each of them is recorded.
LEMMA RecordedStep ==
  ASSUME Typed, Recorded, [Next]_vars
  PROVE  Recorded'
<1>1. CASE UNCHANGED <<items, past>>
  BY <1>1 DEF Recorded, GetCollection
<1>2. ASSUME NEW c \in Calls, Commit(c) PROVE Recorded'
  <2> DEFINE u == Caller[c]
             k == Len(past[u])
  <2>1. /\ u \in Users /\ Len(past'[u]) = k + 1 /\ k \in Nat
        /\ past'[u][k + 1] = GetCollection(u)'
        /\ \A w \in Users \ {u} : items'[w] = items[w] /\ past'[w] = past[w]
    BY <1>2, CommitStores
  <2> HIDE DEF k
  <2>2. ASSUME NEW w \in Users
        PROVE  (Len(past[w]) > 0 /\ past[w][Len(past[w])] = GetCollection(w))'
    <3>1. CASE w = u
      BY <2>1, <3>1
    <3>2. CASE w # u
      BY <2>1, <3>2 DEF Recorded, GetCollection
    <3> QED
      BY <3>1, <3>2
  <2> QED
    BY <2>2 DEF Recorded
<1>3. UNCHANGED <<items, past>> \/ \E c \in Calls : Commit(c)
  BY Actions DEF vars, UpdateItem, Begin, Upsert, ReadStats, PublishItem, PublishStats, Match,
       TheyHaveYouNeed, YouHaveTheyNeed
<1> QED
  BY <1>1, <1>2, <1>3

\* A step of a call leaves the others what they do and carry, but an update
\* that begins ends that others are alone.
OthersKeep(c) ==
  \A d \in Calls \ {c} :
    /\ pc'[d] = pc[d]
    /\ job'[d] = job[d] \/ (pc[d] \in Busy /\ job'[d] = [job[d] EXCEPT !.alone = FALSE])


\* Next, action by action, with what it leaves to the other calls.
LEMMA Steps ==
  ASSUME Typed, Recorded, Next
  PROVE  \E c \in Calls :
           /\ OthersKeep(c)
           /\ \/ \E s \in Stickers, n \in Inputs : UpdateItem(c, s, n)
              \/ Upsert(c) \/ Commit(c) \/ ReadStats(c) \/ PublishItem(c) \/ PublishStats(c)
              \/ \E S \in SUBSET Users, all \in BOOLEAN : Match(c, S, all)
              \/ \E o \in Users : TheyHaveYouNeed(c, o) \/ YouHaveTheyNeed(c, o)
              \/ Finish(c) /\ UNCHANGED <<items, events, past>>
<1>1. PICK c \in Calls :
           \/ \E s \in Stickers, n \in Inputs : UpdateItem(c, s, n)
           \/ Upsert(c) \/ Commit(c) \/ ReadStats(c) \/ PublishItem(c) \/ PublishStats(c)
           \/ \E S \in SUBSET Users, all \in BOOLEAN : Match(c, S, all)
           \/ \E o \in Users : TheyHaveYouNeed(c, o) \/ YouHaveTheyNeed(c, o)
           \/ Finish(c) /\ UNCHANGED <<items, events, past>>
  BY Actions
<1> DEFINE Kept == \A d \in Calls \ {c} : job'[d] = job[d] /\ pc'[d] = pc[d]
<1>2. ASSUME Kept PROVE OthersKeep(c)
  BY <1>2 DEF OthersKeep
<1>3. ASSUME NEW label, NEW j, Goto(c, label), job' = [job EXCEPT ![c] = j] PROVE Kept
  BY <1>3, CallMoves
<1> HIDE DEF Kept
<1>4. ASSUME NEW s \in Stickers, NEW n \in Inputs, UpdateItem(c, s, n) PROVE OthersKeep(c)
  <2>1. ASSUME NEW d \in Calls, d \in Updating(Caller[c]) PROVE pc[d] \in Busy
    BY <2>1, Kinds DEF Updating
  <2>2. \A d \in Calls \ {c} :
             /\ pc'[d] = pc[d]
             /\ d \notin Updating(Caller[c]) => job'[d] = job[d]
             /\ d \in Updating(Caller[c]) => job'[d] = [job[d] EXCEPT !.alone = FALSE]
    BY <1>4, BeginStarts
  <2> QED
    BY <2>1, <2>2 DEF OthersKeep
<1>5. ASSUME Upsert(c) PROVE Kept
  <2>1. Goto(c, "commit") /\ job' = job
    BY <1>5 DEF Upsert
  <2>2. job' = [job EXCEPT ![c] = job[c]]
    BY <2>1 DEF Typed
  <2> QED
    BY <1>3, <2>1, <2>2
<1>6. ASSUME Commit(c) PROVE Kept
  BY <1>6, CommitStores DEF Kept
<1>7. ASSUME ReadStats(c) PROVE Kept
  BY <1>7, ReadStatsMoves DEF Kept
<1>8. ASSUME PublishItem(c) PROVE Kept
  BY <1>8, PublishItemMoves DEF Kept
<1>9. ASSUME Finish(c) PROVE Kept
  BY <1>9, FinishMoves DEF Kept
<1>10. ASSUME PublishStats(c) PROVE Kept
  <2>1. Finish(c)
    BY <1>10 DEF PublishStats
  <2> QED
    BY <1>9, <2>1
<1>11. ASSUME NEW S \in SUBSET Users, NEW all \in BOOLEAN, Match(c, S, all) PROVE Kept
  <2>1. Goto(c, "they have") /\ job' = [job EXCEPT ![c] = NewMatch(S, all)]
    BY <1>11, MatchMoves
  <2> QED
    BY <1>3, <2>1
<1>12. ASSUME NEW o \in Users, TheyHaveYouNeed(c, o) PROVE Kept
  BY <1>3, <1>12, TheyHaveMoves
<1>13. ASSUME NEW o \in Users, YouHaveTheyNeed(c, o) PROVE Kept
  BY <1>3, <1>13, YouHaveMoves
<1>14. OthersKeep(c)
  BY <1>1, <1>2, <1>4, <1>5, <1>6, <1>7, <1>8, <1>9, <1>10, <1>11, <1>12, <1>13
<1> QED
  BY <1>1, <1>14

\* The past is only added to.
LEMMA PastGrows ==
  ASSUME Typed, Recorded, [Next]_vars, NEW u \in Users
  PROVE  Extends(past[u], past'[u]) /\ past[u] \in Seq(Counts) /\ past'[u] \in Seq(Counts)
<1>0. past[u] \in Seq(Counts) /\ Len(past[u]) \in Nat
  BY LenProperties DEF Typed
<1>1. CASE UNCHANGED past
  BY <1>0, <1>1 DEF Extends
<1>2. ASSUME NEW c \in Calls, Commit(c)
      PROVE  Extends(past[u], past'[u]) /\ past'[u] \in Seq(Counts)
  <2>1. /\ Extends(past[Caller[c]], past'[Caller[c]])
        /\ \A w \in Users \ {Caller[c]} : past'[w] = past[w]
        /\ past' \in [Users -> Seq(Counts)]
    BY <1>2, CommitStores
  <2>2. Extends(past[u], past[u])
    BY <1>0 DEF Extends
  <2> QED
    BY <2>1, <2>2
<1>3. UNCHANGED past \/ \E c \in Calls : Commit(c)
  BY Actions DEF vars, UpdateItem, Begin, Upsert, ReadStats, PublishItem, PublishStats, Match,
       TheyHaveYouNeed, YouHaveTheyNeed
<1> QED
  BY <1>0, <1>1, <1>2, <1>3

\* What was vouched for stays so.
LEMMA VouchedLater ==
  ASSUME NEW p \in Seq(Counts), NEW q \in Seq(Counts), Extends(p, q), NEW r, r.version \in Nat \ {0},
         Vouched(r, p)
  PROVE  Vouched(r, q)
<1>1. PICK v \in r.version .. Len(p) : r.stats = TrueStats(p[v])
  BY DEF Vouched
<1>2. Len(p) \in Nat /\ Len(q) \in Nat /\ Len(p) <= Len(q) /\ \A i \in 1 .. Len(p) : q[i] = p[i]
  BY LenProperties DEF Extends
<1> DEFINE n == Len(p)
           m == Len(q)
<1> HIDE DEF n, m
<1>3. v \in r.version .. n /\ n \in Nat /\ m \in Nat /\ n <= m
  BY <1>1, <1>2 DEF n, m
<1>4. v \in 1 .. n /\ v \in r.version .. m
  BY <1>3
<1>5. q[v] = p[v]
  BY <1>2, <1>4 DEF n
<1>6. v \in r.version .. Len(q) /\ r.stats = TrueStats(q[v])
  BY <1>1, <1>4, <1>5 DEF m
<1> QED
  BY <1>6 DEF Vouched

\* What events and calls say of the past stays so.
LEMMA StillFits ==
  ASSUME NEW p \in Seq(Counts), NEW q \in Seq(Counts), Extends(p, q)
  PROVE  /\ \A e : EventFits(e, p) => EventFits(e, q)
         /\ \A label, j : CallFits(label, j, p) => CallFits(label, j, q)
<1>1. ASSUME NEW k, k \in 1 .. Len(p) PROVE k \in 1 .. Len(q) /\ q[k] = p[k] /\ k \in Nat \ {0}
  <2>1. Len(p) \in Nat /\ Len(q) \in Nat /\ Len(p) <= Len(q) /\ q[k] = p[k]
    BY <1>1, LenProperties DEF Extends
  <2> QED
    BY <1>1, <2>1
<1>2. ASSUME NEW e, EventFits(e, p) PROVE EventFits(e, q)
  BY <1>1, <1>2, VouchedLater DEF EventFits
<1>3. ASSUME NEW label, NEW j, CallFits(label, j, p) PROVE CallFits(label, j, q)
  BY <1>1, <1>3, VouchedLater DEF CallFits
<1> QED
  BY <1>2, <1>3

\* An item event of a version that has none yet, and the statistics that
\* follow it.
LEMMA ItemSequenced ==
  ASSUME NEW es, NEW fs, NEW e, NEW n \in Nat, Sequenced(es), DOMAIN es = 1 .. n,
         DOMAIN fs = 1 .. (n + 1), \A i \in 1 .. n : fs[i] = es[i], fs[n + 1] = e,
         e.type = "collection.updated", \A i \in 1 .. n : ~Shows(es[i], e.version)
  PROVE  Sequenced(fs)
<1> SUFFICES ASSUME NEW i \in 1 .. (n + 1), NEW k \in 1 .. (n + 1)
             PROVE  /\ i # k /\ fs[i].type = "collection.updated" => ~Shows(fs[k], fs[i].version)
                    /\ fs[i].type = "stats.updated" =>
                         \E h \in 1 .. (n + 1) : h < i /\ Shows(fs[h], fs[i].version)
                    /\ i < k /\ fs[i].type = "stats.updated" /\ fs[k].type = "stats.updated"
                         /\ fs[i].alone => fs[i].version < fs[k].version
  BY DEF Sequenced
<1>1. /\ (i \in 1 .. n \/ i = n + 1) /\ (k \in 1 .. n \/ k = n + 1)
      /\ 1 .. n \subseteq 1 .. (n + 1)
  OBVIOUS
<1>2. CASE i \in 1 .. n /\ k \in 1 .. n
  BY <1>1, <1>2 DEF Sequenced
<1>3. CASE i \in 1 .. n /\ k = n + 1
  <2>1. fs[i] = es[i] /\ fs[k] = e
    BY <1>3
  <2>2. fs[i].type = "collection.updated" => ~Shows(fs[k], fs[i].version)
    BY <1>3, <2>1 DEF Shows
  <2>3. fs[i].type = "stats.updated" =>
          \E h \in 1 .. (n + 1) : h < i /\ Shows(fs[h], fs[i].version)
    BY <1>1, <1>3 DEF Sequenced
  <2> QED
    BY <2>1, <2>2, <2>3
<1>4. CASE i = n + 1
  <2>1. fs[i] = e /\ (k # i => fs[k] = es[k] /\ k \in 1 .. n) /\ ~(i < k)
    BY <1>1, <1>4
  <2> QED
    BY <2>1
<1> QED
  BY <1>1, <1>2, <1>3, <1>4

\* The same for the statistics, which come after the item of their version.
LEMMA StatsSequenced ==
  ASSUME NEW es, NEW fs, NEW e, NEW n \in Nat, Sequenced(es), DOMAIN es = 1 .. n,
         DOMAIN fs = 1 .. (n + 1), \A i \in 1 .. n : fs[i] = es[i], fs[n + 1] = e,
         e.type = "stats.updated", \E h \in 1 .. n : Shows(es[h], e.version),
         \A i \in 1 .. n : es[i].type = "stats.updated" /\ es[i].alone => es[i].version < e.version
  PROVE  Sequenced(fs)
<1> SUFFICES ASSUME NEW i \in 1 .. (n + 1), NEW k \in 1 .. (n + 1)
             PROVE  /\ i # k /\ fs[i].type = "collection.updated" => ~Shows(fs[k], fs[i].version)
                    /\ fs[i].type = "stats.updated" =>
                         \E h \in 1 .. (n + 1) : h < i /\ Shows(fs[h], fs[i].version)
                    /\ i < k /\ fs[i].type = "stats.updated" /\ fs[k].type = "stats.updated"
                         /\ fs[i].alone => fs[i].version < fs[k].version
  BY DEF Sequenced
<1>1. /\ (i \in 1 .. n \/ i = n + 1) /\ (k \in 1 .. n \/ k = n + 1)
      /\ 1 .. n \subseteq 1 .. (n + 1)
  OBVIOUS
<1>2. CASE i \in 1 .. n /\ k \in 1 .. n
  BY <1>1, <1>2 DEF Sequenced
<1>3. CASE i \in 1 .. n /\ k = n + 1
  <2>1. fs[i] = es[i] /\ fs[k] = e
    BY <1>3
  <2>2. ~Shows(fs[k], fs[i].version)
    BY <2>1 DEF Shows
  <2>3. fs[i].type = "stats.updated" =>
          \E h \in 1 .. (n + 1) : h < i /\ Shows(fs[h], fs[i].version)
    BY <1>1, <1>3 DEF Sequenced
  <2>4. fs[i].type = "stats.updated" /\ fs[i].alone => fs[i].version < fs[k].version
    BY <1>3, <2>1
  <2> QED
    BY <2>2, <2>3, <2>4
<1>4. CASE i = n + 1
  <2>1. fs[i] = e /\ ~(i < k) /\ e.type # "collection.updated"
    BY <1>1, <1>4
  <2>2. PICK h \in 1 .. n : Shows(es[h], e.version)
    OBVIOUS
  <2>3. h \in 1 .. (n + 1) /\ h < i /\ fs[h] = es[h]
    BY <1>4
  <2>4. \E g \in 1 .. (n + 1) : g < i /\ Shows(fs[g], fs[i].version)
    BY <2>1, <2>2, <2>3
  <2> QED
    BY <2>1, <2>4
<1> QED
  BY <1>1, <1>2, <1>3, <1>4

(* Events tell the truth                                                    *)

\* What a committed call carries, whatever it does next.
LEMMA CarriedBy ==
  ASSUME Typed, Telling, NEW c \in Calls, pc[c] \in Committed
  PROVE  /\ job[c] \in UpdateJob /\ Caller[c] \in Users
         /\ CallFits(pc[c], job[c], past[Caller[c]])
         /\ Pending(pc[c], job[c], events[Caller[c]])
<1>1. job[c] \in UpdateJob
  BY DEF Typed, Busy
<1> QED
  BY <1>1, UserAssumption DEF Telling

\* No step makes an event untrue, or publishes one that is.
LEMMA ToldStep ==
  ASSUME Typed, Recorded, Told, Telling, [Next]_vars
  PROVE  Told'
<1>1. ASSUME NEW u \in Users, NEW e, EventFits(e, past[u]) PROVE EventFits(e, past'[u])
  BY <1>1, PastGrows, StillFits
<1>2. CASE UNCHANGED events
  <2>1. ASSUME NEW u \in Users
        PROVE  (\A i \in DOMAIN events[u] : EventFits(events[u][i], past'[u])) /\ Sequenced(events[u])
    BY <1>1 DEF Told
  <2> QED
    BY <1>2, <2>1 DEF Told
<1>3. ASSUME NEW c \in Calls, NEW e \in ItemEvent \cup StatsEvent,
             events' = [events EXCEPT ![Caller[c]] = Append(@, e)],
             EventFits(e, past[Caller[c]]),
             \/ /\ e.type = "collection.updated"
                /\ \A i \in DOMAIN events[Caller[c]] : ~Shows(events[Caller[c]][i], e.version)
             \/ /\ e.type = "stats.updated"
                /\ \E h \in DOMAIN events[Caller[c]] : Shows(events[Caller[c]][h], e.version)
                /\ \A i \in DOMAIN events[Caller[c]] :
                     LET f == events[Caller[c]][i] IN
                     f.type = "stats.updated" /\ f.alone => f.version < e.version
      PROVE  Told'
  <2> DEFINE u == Caller[c]
             es == events[u]
             fs == events'[u]
             n == Len(events[u])
  <2>0. u \in Users
    BY UserAssumption
  <2>1. /\ \A w \in Users \ {u} : events'[w] = events[w]
        /\ n \in Nat /\ DOMAIN es = 1 .. n /\ DOMAIN fs = 1 .. (n + 1)
        /\ \A i \in 1 .. n : fs[i] = es[i]
        /\ fs[n + 1] = e
    BY <1>3, <2>0, EventAppended
  <2> HIDE DEF u, n, es, fs
  <2>2. Sequenced(es) /\ \A i \in DOMAIN es : EventFits(es[i], past[u])
    BY <2>0 DEF Told, es
  <2>3. Sequenced(fs)
    <3>1. CASE e.type = "collection.updated"
      <4>1. \A i \in 1 .. n : ~Shows(es[i], e.version)
        BY <1>3, <2>1, <3>1 DEF es, u
      <4> QED
        BY <2>1, <2>2, <3>1, <4>1, ItemSequenced
    <3>2. CASE e.type = "stats.updated"
      <4>1. \E h \in 1 .. n : Shows(es[h], e.version)
        BY <1>3, <2>1, <3>2 DEF es, u
      <4>2. \A i \in 1 .. n : es[i].type = "stats.updated" /\ es[i].alone => es[i].version < e.version
        BY <1>3, <2>1, <3>2 DEF es, u
      <4> QED
        BY <2>1, <2>2, <3>2, <4>1, <4>2, StatsSequenced
    <3> QED
      BY <1>3, <3>1, <3>2
  <2>4. \A i \in DOMAIN fs : EventFits(fs[i], past'[u])
    <3>1. ASSUME NEW i \in 1 .. (n + 1) PROVE EventFits(fs[i], past'[u])
      <4>1. i \in 1 .. n \/ i = n + 1
        BY <2>1
      <4>2. EventFits(fs[i], past[u])
        BY <1>3, <2>1, <2>2, <4>1 DEF u
      <4> QED
        BY <1>1, <2>0, <4>2
    <3> QED
      BY <2>1, <3>1
  <2>5. ASSUME NEW w \in Users
        PROVE  (\A i \in DOMAIN events'[w] : EventFits(events'[w][i], past'[w])) /\ Sequenced(events'[w])
    <3>1. CASE w = u
      BY <2>3, <2>4, <3>1 DEF fs
    <3>2. CASE w # u
      BY <1>1, <2>1, <3>2 DEF Told
    <3> QED
      BY <3>1, <3>2
  <2> QED
    BY <2>5 DEF Told
<1>4. ASSUME NEW c \in Calls, PublishItem(c) PROVE Told'
  <2>1. /\ pc[c] = "publish item" /\ job[c] \in UpdateJob /\ ItemEventOf(job[c]) \in ItemEvent
        /\ events' = [events EXCEPT ![Caller[c]] = Append(@, ItemEventOf(job[c]))]
    BY <1>4, PublishItemMoves
  <2>2. /\ CallFits(pc[c], job[c], past[Caller[c]])
        /\ Pending(pc[c], job[c], events[Caller[c]])
    BY <2>1 DEF Telling, Committed
  <2>3. EventFits(ItemEventOf(job[c]), past[Caller[c]])
    BY <2>2 DEF EventFits, CallFits, ItemEventOf
  <2>4. /\ ItemEventOf(job[c]).type = "collection.updated"
        /\ ItemEventOf(job[c]).version = job[c].version
    BY DEF ItemEventOf
  <2>5. \A i \in DOMAIN events[Caller[c]] :
          ~Shows(events[Caller[c]][i], ItemEventOf(job[c]).version)
    BY <2>1, <2>2, <2>4 DEF Pending
  <2> QED
    BY <1>3, <2>1, <2>3, <2>4, <2>5
<1>5. ASSUME NEW c \in Calls, PublishStats(c) PROVE Told'
  <2> DEFINE e == StatsEventOf(job[c])
  <2>1. /\ pc[c] = "publish stats" /\ job[c] \in UpdateJob /\ e \in StatsEvent
        /\ events' = [events EXCEPT ![Caller[c]] = Append(@, e)]
    BY <1>5, PublishStatsMoves
  <2>2. /\ CallFits(pc[c], job[c], past[Caller[c]])
        /\ Pending(pc[c], job[c], events[Caller[c]])
    BY <2>1 DEF Telling, Committed
  <2>3. e.type = "stats.updated" /\ e.version = job[c].version /\ e.stats = job[c].stats
    BY DEF StatsEventOf
  <2> HIDE DEF e
  <2>4. EventFits(e, past[Caller[c]])
    BY <2>1, <2>2, <2>3 DEF EventFits, CallFits, Vouched
  <2>5. \E h \in DOMAIN events[Caller[c]] : Shows(events[Caller[c]][h], e.version)
    BY <2>1, <2>2, <2>3 DEF Pending
  <2>6. \A i \in DOMAIN events[Caller[c]] :
          LET f == events[Caller[c]][i] IN
          f.type = "stats.updated" /\ f.alone => f.version < e.version
    BY <2>2, <2>3 DEF Pending
  <2> QED
    BY <1>3, <2>1, <2>3, <2>4, <2>5, <2>6
<1>6. UNCHANGED events \/ \E c \in Calls : PublishItem(c) \/ PublishStats(c)
  BY Actions DEF vars, UpdateItem, Begin, Upsert, Commit, ReadStats, Match, TheyHaveYouNeed,
       YouHaveTheyNeed
<1> QED
  BY <1>2, <1>4, <1>5, <1>6

\* The commits of a user make different versions, and no update is alone
\* that has another beside it.
LEMMA ApartStep ==
  ASSUME Typed, Recorded, Telling, Apart, [Next]_vars
  PROVE  Apart'
<1>1. CASE UNCHANGED vars
  BY <1>1 DEF Apart, vars
<1>2. CASE Next
  <2>1. PICK c \in Calls :
           /\ OthersKeep(c)
           /\ \/ \E s \in Stickers, n \in Inputs : UpdateItem(c, s, n)
              \/ Upsert(c) \/ Commit(c) \/ ReadStats(c) \/ PublishItem(c) \/ PublishStats(c)
              \/ \E S \in SUBSET Users, all \in BOOLEAN : Match(c, S, all)
              \/ \E o \in Users : TheyHaveYouNeed(c, o) \/ YouHaveTheyNeed(c, o)
              \/ Finish(c) /\ UNCHANGED <<items, events, past>>
    BY <1>2, Steps
  <2> DEFINE Differ(d) == /\ pc'[c] \in Committed /\ pc[d] \in Committed =>
                               job'[c].version # job[d].version
                          /\ pc'[c] \in Busy /\ pc[d] \in Busy =>
                               ~job'[c].alone /\ ~job'[d].alone
             Apart0 == \A d \in Calls \ {c} : Caller[d] = Caller[c] => Differ(d)
  <2>2. ASSUME NEW d \in Calls \ {c}
        PROVE  /\ pc'[d] = pc[d] /\ (pc[d] \in Busy => job'[d].version = job[d].version)
               /\ pc[d] \in Busy /\ ~job[d].alone => ~job'[d].alone
    <3>1. pc'[d] = pc[d] /\ (pc[d] \in Busy => job[d] \in UpdateJob)
      BY <2>1 DEF OthersKeep, Typed
    <3>2. CASE job'[d] = job[d]
      BY <3>1, <3>2
    <3>3. CASE pc[d] \in Busy /\ job'[d] = [job[d] EXCEPT !.alone = FALSE]
      BY <3>1, <3>3 DEF UpdateJob
    <3> QED
      BY <2>1, <3>2, <3>3 DEF OthersKeep
  <2>3. ASSUME Apart0 PROVE Apart'
    <3> SUFFICES ASSUME NEW d \in Calls, NEW e \in Calls, d # e, Caller[d] = Caller[e]
                 PROVE  /\ pc'[d] \in Committed /\ pc'[e] \in Committed =>
                             job'[d].version # job'[e].version
                        /\ pc'[d] \in Busy /\ pc'[e] \in Busy => ~job'[d].alone
      BY DEF Apart
    <3>0. Committed \subseteq Busy
      BY DEF Busy
    <3>1. CASE d = c
      BY <2>2, <2>3, <3>0, <3>1
    <3>2. CASE e = c
      BY <2>2, <2>3, <3>0, <3>2
    <3>3. CASE d # c /\ e # c
      <4>1. /\ pc[d] \in Committed /\ pc[e] \in Committed => job[d].version # job[e].version
            /\ pc[d] \in Busy /\ pc[e] \in Busy => ~job[d].alone
        BY DEF Apart
      <4> QED
        BY <2>2, <3>0, <3>3, <4>1
    <3> QED
      BY <3>1, <3>2, <3>3
  \* A step that goes on with an update, and keeps its version.
  <2>4. ASSUME pc[c] \in Busy, pc[c] \in Committed \/ pc'[c] \notin Committed,
               job'[c].version = job[c].version, job'[c].alone = job[c].alone
        PROVE  Apart0
    <3>1. ASSUME NEW d \in Calls \ {c}, Caller[d] = Caller[c] PROVE Differ(d)
      <4>1. /\ pc[c] \in Committed /\ pc[d] \in Committed => job[c].version # job[d].version
            /\ pc[c] \in Busy /\ pc[d] \in Busy => ~job[c].alone /\ ~job[d].alone
        BY <3>1 DEF Apart
      <4>2. pc[d] \in Busy /\ ~job[d].alone => ~job'[d].alone
        BY <2>2
      <4> QED
        BY <2>4, <4>1, <4>2
    <3> QED
      BY <3>1
  <2>5. ASSUME pc'[c] \notin Busy PROVE Apart0
    BY <2>5 DEF Busy
  <2> HIDE DEF Apart0
  <2>6. ASSUME NEW s \in Stickers, NEW n \in Inputs, UpdateItem(c, s, n) PROVE Apart0
    <3>1. /\ pc'[c] = "upsert" /\ pc[c] = "idle"
          /\ job'[c] = NewUpdate(c, s, n)
          /\ \A d \in Calls \ {c} :
               d \in Updating(Caller[c]) => job'[d] = [job[d] EXCEPT !.alone = FALSE]
      BY <2>6, BeginStarts
    <3>2. job'[c].alone => Updating(Caller[c]) = {}
      <4> SUFFICES ASSUME Updating(Caller[c]) # {} PROVE job'[c].alone = FALSE
        OBVIOUS
      <4>1. (Updating(Caller[c]) = {}) = FALSE
        OBVIOUS
      <4>2. job'[c] = [kind |-> "update", sticker |-> s, count |-> n, version |-> 0,
                       stats |-> NoStats, alone |-> FALSE]
        BY <3>1, <4>1, Zenon DEF NewUpdate
      <4> QED
        BY <4>2
    <3>3. ASSUME NEW d \in Calls \ {c}, Caller[d] = Caller[c], pc[d] \in Busy
          PROVE  ~job'[c].alone /\ ~job'[d].alone
      <4>1. d \in Updating(Caller[c]) /\ job[d] \in UpdateJob
        BY <3>3, Kinds DEF Updating, Typed
      <4>2. ~job'[c].alone
        BY <3>2, <4>1
      <4>3. ~job'[d].alone
        BY <3>1, <4>1 DEF UpdateJob
      <4> QED
        BY <4>2, <4>3
    <3>4. pc'[c] \notin Committed
      BY <3>1 DEF Committed
    <3> QED
      BY <3>3, <3>4 DEF Apart0
  <2>7. ASSUME Upsert(c) PROVE Apart0
    <3>1. pc[c] = "upsert" /\ pc'[c] = "commit" /\ job' = job
      BY <2>7 DEF Upsert, Goto, Typed
    <3> QED
      BY <2>4, <3>1 DEF Busy, Committed
  <2>8. ASSUME Commit(c) PROVE Apart0
    <3> DEFINE k == Len(past[Caller[c]])
    <3>1. /\ pc[c] = "commit" /\ job[c] \in UpdateJob /\ pc'[c] = "stats" /\ k \in Nat
          /\ job'[c] = [job[c] EXCEPT !.version = k + 1]
      BY <2>8, CommitStores
    <3>2. job'[c].version = k + 1 /\ job'[c].alone = job[c].alone
      BY <3>1 DEF UpdateJob
    <3>3. ASSUME NEW d \in Calls \ {c}, Caller[d] = Caller[c] PROVE Differ(d)
      <4>1. ASSUME pc[d] \in Committed PROVE job[d].version # k + 1
        <5>1. CallFits(pc[d], job[d], past[Caller[c]])
          BY <3>3, <4>1 DEF Telling
        <5>2. job[d].version \in 1 .. k
          BY <5>1 DEF CallFits
        <5> HIDE DEF k
        <5> QED
          BY <3>1, <5>2
      <4>2. pc[d] \in Busy => ~job[c].alone /\ ~job[d].alone
        BY <3>1, <3>3 DEF Apart, Busy
      <4>3. pc[d] \in Busy /\ ~job[d].alone => ~job'[d].alone
        BY <2>2
      <4> HIDE DEF k
      <4> QED
        BY <3>2, <4>1, <4>2, <4>3
    <3> QED
      BY <3>3 DEF Apart0
  <2>9. ASSUME ReadStats(c) PROVE Apart0
    <3>1. /\ pc[c] = "stats" /\ job[c] \in UpdateJob
          /\ job'[c] = [job[c] EXCEPT !.stats = TrueStats(GetCollection(Caller[c]))]
      BY <2>9, ReadStatsMoves
    <3>2. job'[c].version = job[c].version /\ job'[c].alone = job[c].alone
      BY <3>1 DEF UpdateJob
    <3> QED
      BY <2>4, <3>1, <3>2 DEF Busy, Committed
  <2>10. ASSUME PublishItem(c) PROVE Apart0
    <3>1. pc[c] = "publish item" /\ job' = job
      BY <2>10, PublishItemMoves
    <3> QED
      BY <2>4, <3>1 DEF Busy, Committed
  <2>11. ASSUME Finish(c) PROVE Apart0
    <3>1. pc'[c] = "idle"
      BY <2>11, FinishMoves
    <3> QED
      BY <2>5, <3>1 DEF Busy, Committed
  <2>12. PublishStats(c) => Finish(c)
    BY DEF PublishStats
  <2>13. ASSUME NEW S \in SUBSET Users, NEW all \in BOOLEAN, Match(c, S, all) PROVE Apart0
    <3>0. Goto(c, "they have") /\ job' = [job EXCEPT ![c] = NewMatch(S, all)]
      BY <2>13, MatchMoves
    <3>1. pc'[c] = "they have"
      BY <3>0, CallMoves
    <3> QED
      BY <2>5, <3>1 DEF Busy, Committed
  <2>14. ASSUME NEW o \in Users, TheyHaveYouNeed(c, o) PROVE Apart0
    <3>0. Goto(c, "you have") /\ job' = [job EXCEPT ![c] = TheyJob(job[c], Caller[c], o)]
      BY <2>14, TheyHaveMoves
    <3>1. pc'[c] = "you have"
      BY <3>0, CallMoves
    <3> QED
      BY <2>5, <3>1 DEF Busy, Committed
  <2>15. ASSUME NEW o \in Users, YouHaveTheyNeed(c, o) PROVE Apart0
    <3>0. Goto(c, "they have") /\ job' = [job EXCEPT ![c] = YouJob(job[c], Caller[c], o)]
      BY <2>15, YouHaveMoves
    <3>1. pc'[c] = "they have"
      BY <3>0, CallMoves
    <3> QED
      BY <2>5, <3>1 DEF Busy, Committed
  <2>16. Apart0
    BY <2>1, <2>6, <2>7, <2>8, <2>9, <2>10, <2>11, <2>12, <2>13, <2>14, <2>15
  <2> QED
    BY <2>3, <2>16
<1> QED
  BY <1>1, <1>2

\* The calls that did not take the step still carry what is true, and know
\* what they have published.
LEMMA OthersTell ==
  ASSUME Typed, Recorded, Telling, Apart, [Next]_vars,
         NEW c \in Calls, OthersKeep(c), NEW d \in Calls \ {c}, pc[d] \in Committed
  PROVE  /\ CallFits(pc[d], job'[d], past'[Caller[d]])
         /\ events'[Caller[d]] = events[Caller[d]] => Pending(pc[d], job'[d], events'[Caller[d]])
<1>1. /\ job[d] \in UpdateJob /\ Caller[d] \in Users
      /\ CallFits(pc[d], job[d], past[Caller[d]])
      /\ Pending(pc[d], job[d], events[Caller[d]])
  BY CarriedBy
<1>2. /\ job'[d].version = job[d].version /\ job'[d].sticker = job[d].sticker
      /\ job'[d].count = job[d].count /\ job'[d].stats = job[d].stats
  <2>1. CASE job'[d] = job[d]
    BY <2>1
  <2>2. CASE job'[d] = [job[d] EXCEPT !.alone = FALSE]
    BY <1>1, <2>2 DEF UpdateJob
  <2> QED
    BY <2>1, <2>2 DEF OthersKeep
<1>3. CallFits(pc[d], job[d], past'[Caller[d]])
  BY <1>1, PastGrows, StillFits
<1>4. CallFits(pc[d], job'[d], past'[Caller[d]])
  BY <1>2, <1>3 DEF CallFits, Vouched
<1>5. Pending(pc[d], job'[d], events[Caller[d]])
  BY <1>1, <1>2 DEF Pending
<1> QED
  BY <1>4, <1>5

\* An event of another update, that is not alone when this one is there.
LEMMA OthersPend ==
  ASSUME NEW label, NEW j, NEW es, NEW fs, NEW e, NEW n \in Nat, Pending(label, j, es),
         DOMAIN es = 1 .. n, DOMAIN fs = 1 .. (n + 1), \A i \in 1 .. n : fs[i] = es[i],
         fs[n + 1] = e, e.version # j.version, e.type = "stats.updated" => ~e.alone
  PROVE  Pending(label, j, fs)
<1>1. \A i \in 1 .. (n + 1) : i \in 1 .. n \/ i = n + 1
  OBVIOUS
<1>2. ~Shows(e, j.version)
  BY DEF Shows
<1>3. ASSUME label # "publish stats" PROVE \A i \in DOMAIN fs : ~Shows(fs[i], j.version)
  BY <1>1, <1>2, <1>3 DEF Pending
<1>4. ASSUME label = "publish stats" PROVE \E i \in DOMAIN fs : Shows(fs[i], j.version)
  <2>1. PICK i \in 1 .. n : Shows(es[i], j.version)
    BY <1>4 DEF Pending
  <2>2. i \in 1 .. (n + 1) /\ fs[i] = es[i]
    OBVIOUS
  <2> QED
    BY <2>1, <2>2
<1>5. ASSUME NEW i \in DOMAIN fs, fs[i].type = "stats.updated", fs[i].alone
      PROVE  fs[i].version < j.version
  <2>1. i \in 1 .. n
    BY <1>1, <1>5
  <2> QED
    BY <1>5, <2>1 DEF Pending
<1> QED
  BY <1>3, <1>4, <1>5 DEF Pending

\* No step makes a call carry what is not true.
LEMMA TellingStep ==
  ASSUME Typed, Recorded, Told, Telling, Apart, [Next]_vars
  PROVE  Telling'
<1>1. CASE UNCHANGED vars
  BY <1>1 DEF Telling, vars
<1>2. CASE Next
  <2>1. PICK c \in Calls :
           /\ OthersKeep(c)
           /\ \/ \E s \in Stickers, n \in Inputs : UpdateItem(c, s, n)
              \/ Upsert(c) \/ Commit(c) \/ ReadStats(c) \/ PublishItem(c) \/ PublishStats(c)
              \/ \E S \in SUBSET Users, all \in BOOLEAN : Match(c, S, all)
              \/ \E o \in Users : TheyHaveYouNeed(c, o) \/ YouHaveTheyNeed(c, o)
              \/ Finish(c) /\ UNCHANGED <<items, events, past>>
    BY <1>2, Steps
  <2> DEFINE Tells(d) == pc'[d] \in Committed =>
                            /\ CallFits(pc'[d], job'[d], past'[Caller[d]])
                            /\ Pending(pc'[d], job'[d], events'[Caller[d]])
  <2>2. ASSUME Tells(c), \A d \in Calls \ {c} : pc[d] \in Committed =>
                           Pending(pc[d], job'[d], events'[Caller[d]])
        PROVE  Telling'
    <3>1. ASSUME NEW d \in Calls \ {c}, pc[d] \in Committed
          PROVE  CallFits(pc[d], job'[d], past'[Caller[d]])
      BY <2>1, <3>1, OthersTell
    <3>2. \A d \in Calls \ {c} : pc'[d] = pc[d]
      BY <2>1 DEF OthersKeep
    <3>3. \A d \in Calls : Tells(d)
      BY <2>2, <3>1, <3>2
    <3> QED
      BY <3>3 DEF Telling
  <2>3. ASSUME Tells(c), UNCHANGED events PROVE Telling'
    <3>1. ASSUME NEW d \in Calls \ {c}, pc[d] \in Committed
          PROVE  Pending(pc[d], job'[d], events'[Caller[d]])
      BY <2>1, <2>3, <3>1, OthersTell
    <3> QED
      BY <2>2, <2>3, <3>1
  <2> DEFINE u == Caller[c]
             n == Len(events[u])
  <2>4. ASSUME Tells(c), pc[c] \in Committed, NEW e \in ItemEvent \cup StatsEvent,
               e.version = job[c].version, e.type = "stats.updated" => e.alone = job[c].alone,
               events' = [events EXCEPT ![u] = Append(@, e)]
        PROVE  Telling'
    <3>0. u \in Users
      BY UserAssumption
    <3>1. /\ \A w \in Users \ {u} : events'[w] = events[w]
          /\ n \in Nat /\ DOMAIN events[u] = 1 .. n /\ DOMAIN events'[u] = 1 .. (n + 1)
          /\ \A i \in 1 .. n : events'[u][i] = events[u][i]
          /\ events'[u][n + 1] = e
      BY <2>4, <3>0, EventAppended
    <3> HIDE DEF u, n
    <3>2. ASSUME NEW d \in Calls \ {c}, pc[d] \in Committed
          PROVE  Pending(pc[d], job'[d], events'[Caller[d]])
      <4>0. Caller[d] \in Users
        BY UserAssumption
      <4>1. CASE Caller[d] # u
        <5>1. events'[Caller[d]] = events[Caller[d]]
          BY <3>1, <4>0, <4>1
        <5> QED
          BY <2>1, <3>2, <5>1, OthersTell
      <4>2. CASE Caller[d] = u
        <5>1. job[c].version # job[d].version /\ ~job[c].alone
          BY <2>4, <3>2, <4>2 DEF Apart, Busy, u
        <5>2. job[d] \in UpdateJob /\ Pending(pc[d], job[d], events[u])
          BY <3>2, <4>2, CarriedBy
        <5>3. job'[d].version = job[d].version
          <6>1. CASE job'[d] = job[d]
            BY <6>1
          <6>2. CASE job'[d] = [job[d] EXCEPT !.alone = FALSE]
            BY <5>2, <6>2 DEF UpdateJob
          <6> QED
            BY <2>1, <6>1, <6>2 DEF OthersKeep
        <5>4. e.version # job[d].version /\ (e.type = "stats.updated" => ~e.alone)
          BY <2>4, <5>1
        <5>5. Pending(pc[d], job[d], events'[u])
          BY <3>1, <5>2, <5>4, OthersPend
        <5> QED
          BY <4>2, <5>3, <5>5 DEF Pending
      <4> QED
        BY <4>1, <4>2
    <3> QED
      BY <2>2, <2>4, <3>2
  <2>5. ASSUME pc'[c] \notin Committed, UNCHANGED events PROVE Telling'
    BY <2>3, <2>5
  <2> HIDE DEF Tells
  <2>6. ASSUME NEW s \in Stickers, NEW m \in Inputs, UpdateItem(c, s, m) PROVE Telling'
    <3>1. pc'[c] = "upsert" /\ UNCHANGED events
      BY <2>6, BeginStarts
    <3> QED
      BY <2>5, <3>1 DEF Committed
  <2>7. ASSUME Upsert(c) PROVE Telling'
    <3>1. pc'[c] = "commit" /\ UNCHANGED events
      BY <2>7 DEF Upsert, Goto, Typed
    <3> QED
      BY <2>5, <3>1 DEF Committed
  <2>8. ASSUME Commit(c) PROVE Telling'
    <3> DEFINE k == Len(past[u])
    <3>1. /\ u \in Users /\ pc[c] = "commit" /\ job[c] \in UpdateJob /\ pc'[c] = "stats"
          /\ k \in Nat /\ Len(past'[u]) = k + 1
          /\ past'[u][k + 1][job[c].sticker] = job[c].count
          /\ job'[c] = [job[c] EXCEPT !.version = k + 1]
      BY <2>8, CommitStores
    <3>2. UNCHANGED events
      BY <2>8 DEF Commit
    <3>3. job'[c].version = k + 1 /\ job'[c].sticker = job[c].sticker /\ job'[c].count = job[c].count
      BY <3>1 DEF UpdateJob
    <3>4. ASSUME NEW i \in DOMAIN events[u] PROVE events[u][i].version < k + 1
      <4>1. events[u][i].version \in 1 .. k
        BY <3>1 DEF Told, EventFits
      <4> HIDE DEF k
      <4> QED
        BY <3>1, <4>1
    <3>5. k + 1 \in 1 .. Len(past'[u])
      <4> HIDE DEF k
      <4> QED
        BY <3>1
    <3> HIDE DEF k
    <3>6. CallFits("stats", job'[c], past'[u])
      BY <3>1, <3>3, <3>5 DEF CallFits
    <3>7. Pending("stats", job'[c], events[u])
      <4>0. \A i \in DOMAIN events[u] : events[u][i].version # k + 1
        <5>1. ASSUME NEW i \in DOMAIN events[u] PROVE events[u][i].version # k + 1
          <6>1. events[u][i].version < k + 1
            BY <3>4
          <6> QED
            BY <3>1, <6>1
        <5> QED
          BY <5>1
      <4>1. \A i \in DOMAIN events[u] : ~Shows(events[u][i], job'[c].version)
        BY <3>3, <4>0 DEF Shows
      <4> QED
        BY <3>3, <3>4, <4>1 DEF Pending
    <3>8. Tells(c)
      BY <3>1, <3>2, <3>6, <3>7 DEF Tells
    <3> QED
      BY <2>3, <3>2, <3>8
  <2>9. ASSUME ReadStats(c) PROVE Telling'
    <3> DEFINE new == TrueStats(GetCollection(u))
               k == Len(past[u])
    <3>1. /\ u \in Users /\ pc[c] = "stats" /\ job[c] \in UpdateJob /\ pc'[c] = "publish item"
          /\ job'[c] = [job[c] EXCEPT !.stats = new]
          /\ UNCHANGED <<items, events, past>>
      BY <2>9, ReadStatsMoves
    <3>2. k > 0 /\ k \in Nat /\ past[u][k] = GetCollection(u)
      <4>1. past[u] \in Seq(Counts)
        BY <3>1 DEF Typed
      <4> QED
        BY <3>1, <4>1, LenProperties DEF Recorded
    <3>3. new = TrueStats(past[u][k])
      BY <3>2
    <3> HIDE DEF new
    <3>4. /\ job'[c].version = job[c].version /\ job'[c].stats = new
          /\ job'[c].sticker = job[c].sticker /\ job'[c].count = job[c].count
      BY <3>1 DEF UpdateJob
    <3>5. CallFits("stats", job[c], past[u]) /\ Pending("stats", job[c], events[u])
      BY <3>1 DEF Telling, Committed
    <3>6. Vouched(job'[c], past[u])
      <4>1. job[c].version \in 1 .. k
        BY <3>5 DEF CallFits
      <4>2. k \in job'[c].version .. k
        <5> HIDE DEF k
        <5> QED
          BY <3>2, <3>4, <4>1
      <4> QED
        BY <3>3, <3>4, <4>2 DEF Vouched
    <3>7. CallFits("publish item", job'[c], past[u])
      BY <3>4, <3>5, <3>6 DEF CallFits
    <3>8. Pending("publish item", job'[c], events[u])
      BY <3>4, <3>5 DEF Pending
    <3>9. Tells(c)
      BY <3>1, <3>7, <3>8 DEF Tells
    <3> QED
      BY <2>3, <3>1, <3>9
  <2>10. ASSUME PublishItem(c) PROVE Telling'
    <3> DEFINE e == ItemEventOf(job[c])
    <3>1. /\ u \in Users /\ pc[c] = "publish item" /\ e \in ItemEvent
          /\ events' = [events EXCEPT ![u] = Append(@, e)]
          /\ pc'[c] = "publish stats" /\ UNCHANGED <<items, job, past>>
      BY <2>10, PublishItemMoves
    <3>2. e.version = job[c].version /\ e.type = "collection.updated"
      BY DEF ItemEventOf
    <3> HIDE DEF e
    <3>3. CallFits(pc[c], job[c], past[u]) /\ Pending(pc[c], job[c], events[u])
      BY <3>1 DEF Telling, Committed
    <3>4. CallFits("publish stats", job[c], past[u])
      BY <3>1, <3>3 DEF CallFits
    <3>5. /\ n \in Nat /\ DOMAIN events[u] = 1 .. n /\ DOMAIN events'[u] = 1 .. (n + 1)
          /\ \A i \in 1 .. n : events'[u][i] = events[u][i]
          /\ events'[u][n + 1] = e
      BY <3>1, EventAppended
    <3>6. Pending("publish stats", job[c], events'[u])
      <4> HIDE DEF n
      <4>1. n + 1 \in DOMAIN events'[u] /\ Shows(events'[u][n + 1], job[c].version)
        BY <3>2, <3>5 DEF Shows
      <4>2. ASSUME NEW i \in DOMAIN events'[u], events'[u][i].type = "stats.updated",
                   events'[u][i].alone
            PROVE  events'[u][i].version < job[c].version
        <5>1. i \in 1 .. n
          BY <3>2, <3>5, <4>2
        <5> QED
          BY <3>3, <3>5, <4>2, <5>1 DEF Pending
      <4> QED
        BY <4>1, <4>2 DEF Pending
    <3>7. Tells(c)
      BY <3>1, <3>4, <3>6 DEF Tells
    <3> QED
      BY <2>4, <3>1, <3>2, <3>7 DEF Committed
  <2>11. ASSUME PublishStats(c) PROVE Telling'
    <3> DEFINE e == StatsEventOf(job[c])
    <3>1. /\ u \in Users /\ pc[c] = "publish stats" /\ e \in StatsEvent
          /\ events' = [events EXCEPT ![u] = Append(@, e)]
      BY <2>11, PublishStatsMoves
    <3>2. Finish(c)
      BY <2>11 DEF PublishStats
    <3>3. pc'[c] = "idle"
      BY <3>2, FinishMoves
    <3>4. e.version = job[c].version /\ e.alone = job[c].alone
      BY DEF StatsEventOf
    <3> HIDE DEF e
    <3>5. Tells(c)
      BY <3>3 DEF Tells, Committed
    <3> QED
      BY <2>4, <3>1, <3>4, <3>5 DEF Committed
  <2>12. ASSUME Finish(c), UNCHANGED events PROVE Telling'
    <3>1. pc'[c] = "idle"
      BY <2>12, FinishMoves
    <3> QED
      BY <2>5, <2>12, <3>1 DEF Committed
  <2>13. ASSUME NEW S \in SUBSET Users, NEW all \in BOOLEAN, Match(c, S, all) PROVE Telling'
    <3>1. /\ Goto(c, "they have") /\ job' = [job EXCEPT ![c] = NewMatch(S, all)]
          /\ UNCHANGED events
      BY <2>13, MatchMoves
    <3>2. pc'[c] = "they have"
      BY <3>1, CallMoves
    <3> QED
      BY <2>5, <3>1, <3>2 DEF Committed
  <2>14. ASSUME NEW o \in Users, TheyHaveYouNeed(c, o) PROVE Telling'
    <3>1. /\ Goto(c, "you have") /\ job' = [job EXCEPT ![c] = TheyJob(job[c], Caller[c], o)]
          /\ UNCHANGED events
      BY <2>14, TheyHaveMoves
    <3>2. pc'[c] = "you have"
      BY <3>1, CallMoves
    <3> QED
      BY <2>5, <3>1, <3>2 DEF Committed
  <2>15. ASSUME NEW o \in Users, YouHaveTheyNeed(c, o) PROVE Telling'
    <3>1. /\ Goto(c, "they have") /\ job' = [job EXCEPT ![c] = YouJob(job[c], Caller[c], o)]
          /\ UNCHANGED events
      BY <2>15, YouHaveMoves
    <3>2. pc'[c] = "they have"
      BY <3>1, CallMoves
    <3> QED
      BY <2>5, <3>1, <3>2 DEF Committed
  <2> QED
    BY <2>1, <2>6, <2>7, <2>8, <2>9, <2>10, <2>11, <2>12, <2>13, <2>14, <2>15
<1> QED
  BY <1>1, <1>2

------------------------------------------------------------------------------
(* Matches hold                                                             *)

\* A query sees the present counts, which are counts since the call began.
LEMMA QueryIsFair ==
  ASSUME Typed, Recorded, NEW a \in Users, NEW b \in Users, NEW since,
         \A u \in Users : since[u] \in 1 .. Len(past[u])
  PROVE  Fair(QueryMatchSide(a, b), b, a, since, past)
<1>1. ASSUME NEW u \in Users
      PROVE  /\ Len(past[u]) \in since[u] .. Len(past[u])
             /\ past[u][Len(past[u])] = GetCollection(u) /\ GetCollection(u) \in Counts
  <2> DEFINE k == Len(past[u])
  <2>1. k \in Nat /\ past[u][k] = GetCollection(u)
    <3>1. past[u] \in Seq(Counts)
      BY DEF Typed
    <3> QED
      BY <3>1, LenProperties DEF Recorded
  <2>2. since[u] \in 1 .. k
    OBVIOUS
  <2>3. k \in since[u] .. k
    <3> HIDE DEF k
    <3> QED
      BY <2>1, <2>2
  <2> QED
    BY <2>1, <2>3, CollectionTyped
<1>2. ASSUME NEW s \in Stickers
      PROVE  /\ GetCollection(b)[s] > 1 <=> GetCollection(b)[s] \in Tradable
             /\ GetCollection(a)[s] = 0 <=> GetCollection(a)[s] \in {0}
  <2>1. GetCollection(b)[s] \in Count
    BY <1>1 DEF Counts
  <2>2. \A n \in Count : n > 1 <=> n \in Tradable
    BY DEF Count, Tradable, MaxCount
  <2>3. GetCollection(b)[s] > 1 <=> GetCollection(b)[s] \in Tradable
    BY <2>1, <2>2
  <2> QED
    BY <2>3
<1>3. ASSUME NEW s \in Stickers, s \in QueryMatchSide(a, b)
      PROVE  Seen(b, s, Tradable, since, past) /\ Seen(a, s, {0}, since, past)
  <2>1. GetCollection(b)[s] \in Tradable /\ GetCollection(a)[s] \in {0}
    BY <1>2, <1>3 DEF QueryMatchSide
  <2>2. past[b][Len(past[b])][s] \in Tradable /\ past[a][Len(past[a])][s] \in {0}
    BY <1>1, <2>1
  <2> QED
    BY <1>1, <2>2 DEF Seen
<1>4. ASSUME NEW s \in Stickers, Stayed(b, s, Tradable, since, past), Stayed(a, s, {0}, since, past)
      PROVE  s \in QueryMatchSide(a, b)
  <2>1. past[b][Len(past[b])][s] \in Tradable /\ past[a][Len(past[a])][s] \in {0}
    BY <1>1, <1>4 DEF Stayed
  <2>2. GetCollection(b)[s] \in Tradable /\ GetCollection(a)[s] \in {0}
    BY <1>1, <2>1
  <2> QED
    BY <1>2, <2>2 DEF QueryMatchSide
<1> QED
  BY <1>3, <1>4 DEF Fair

\* What was fair stays fair while others commit.
LEMMA StillFair ==
  ASSUME NEW ps, NEW qs, NEW since,
         \A u \in Users : /\ ps[u] \in Seq(Counts) /\ qs[u] \in Seq(Counts)
                          /\ Extends(ps[u], qs[u]) /\ since[u] \in 1 .. Len(ps[u]),
         NEW T, NEW a \in Users, NEW b \in Users, Fair(T, a, b, since, ps)
  PROVE  Fair(T, a, b, since, qs)
<1>1. ASSUME NEW u \in Users, NEW v \in since[u] .. Len(ps[u])
      PROVE  v \in since[u] .. Len(qs[u]) /\ qs[u][v] = ps[u][v]
  <2> DEFINE n == Len(ps[u])
             m == Len(qs[u])
  <2>1. n \in Nat /\ m \in Nat /\ n <= m /\ \A i \in 1 .. n : qs[u][i] = ps[u][i]
    BY LenProperties DEF Extends
  <2>2. since[u] \in 1 .. n /\ v \in since[u] .. n
    OBVIOUS
  <2> HIDE DEF n, m
  <2>3. v \in 1 .. n /\ v \in since[u] .. m
    BY <2>1, <2>2
  <2> QED
    BY <2>1, <2>3 DEF m
<1>2. ASSUME NEW u \in Users, NEW s, NEW S, Seen(u, s, S, since, ps) PROVE Seen(u, s, S, since, qs)
  BY <1>1, <1>2 DEF Seen
<1>3. ASSUME NEW u \in Users, NEW s, NEW S, Stayed(u, s, S, since, qs)
      PROVE  Stayed(u, s, S, since, ps)
  BY <1>1, <1>3 DEF Stayed
<1> QED
  BY <1>2, <1>3 DEF Fair

\* What a match has found stays fair while others commit.
LEMMA MatchStillFits ==
  ASSUME Typed, Recorded, [Next]_vars, NEW label, NEW j \in MatchJob, NEW me \in Users,
         MatchFits(label, j, me, past)
  PROVE  MatchFits(label, j, me, past')
<1>1. \A u \in Users : j.since[u] \in 1 .. Len(past[u])
  BY DEF MatchFits
<1>2. \A u \in Users : /\ past[u] \in Seq(Counts) /\ past'[u] \in Seq(Counts)
                       /\ Extends(past[u], past'[u])
  BY PastGrows
<1>3. ASSUME NEW T, NEW a \in Users, NEW b \in Users, Fair(T, a, b, j.since, past)
      PROVE  Fair(T, a, b, j.since, past')
  BY <1>1, <1>2, <1>3, StillFair
<1>4. ASSUME NEW u \in Users PROVE j.since[u] \in 1 .. Len(past'[u])
  <2> DEFINE n == Len(past[u])
             m == Len(past'[u])
  <2>1. n \in Nat /\ m \in Nat /\ n <= m /\ j.since[u] \in 1 .. n
    BY <1>1, <1>2, LenProperties DEF Extends
  <2> HIDE DEF n, m
  <2>2. j.since[u] \in 1 .. m
    BY <2>1
  <2> QED
    BY <2>2 DEF m
<1>5. j.asked \subseteq Users /\ \A m \in j.matches : m.partner \in Users
  BY DEF MatchJob, MatchRow
<1>6. ASSUME NEW m \in j.matches
      PROVE  Fair(m.take, m.partner, me, j.since, past') /\ Fair(m.give, me, m.partner, j.since, past')
  BY <1>3, <1>5 DEF MatchFits
<1>7. ASSUME label = "you have"
      PROVE  \E o \in Users : j.with = {o} /\ Fair(j.need, o, me, j.since, past')
  BY <1>3, <1>7 DEF MatchFits
<1>8. ASSUME NEW o \in j.asked \ (j.left \cup j.with)
      PROVE  \E T, G \in SUBSET Stickers :
               /\ Fair(T, o, me, j.since, past') /\ Fair(G, me, o, j.since, past')
               /\ T \cup G # {} => [partner |-> o, take |-> T, give |-> G] \in j.matches
  <2>1. PICK T \in SUBSET Stickers, G \in SUBSET Stickers :
          /\ Fair(T, o, me, j.since, past) /\ Fair(G, me, o, j.since, past)
          /\ T \cup G # {} => [partner |-> o, take |-> T, give |-> G] \in j.matches
    BY DEF MatchFits
  <2>2. Fair(T, o, me, j.since, past') /\ Fair(G, me, o, j.since, past')
    BY <1>3, <1>5, <2>1
  <2> QED
    BY <2>1, <2>2
<1> QED
  BY <1>4, <1>6, <1>7, <1>8 DEF MatchFits

\* A call that begins has asked nobody yet.
LEMMA NewMatchFits ==
  ASSUME Typed, Recorded, NEW S \in SUBSET Users, NEW all \in BOOLEAN, NEW me \in Users
  PROVE  MatchFits("they have", NewMatch(S, all), me, past)
<1>1. ASSUME NEW u \in Users PROVE NewMatch(S, all).since[u] \in 1 .. Len(past[u])
  <2> DEFINE k == Len(past[u])
  <2>1. k \in Nat /\ k > 0
    <3>1. past[u] \in Seq(Counts)
      BY DEF Typed
    <3> QED
      BY <3>1, LenProperties DEF Recorded
  <2>2. NewMatch(S, all).since[u] = k
    BY DEF NewMatch
  <2> HIDE DEF k
  <2>3. k \in 1 .. k
    BY <2>1
  <2> QED
    BY <2>2, <2>3 DEF k
<1>2. /\ NewMatch(S, all).matches = {} /\ NewMatch(S, all).with = {}
      /\ NewMatch(S, all).asked = NewMatch(S, all).left
  BY DEF NewMatch
<1> QED
  BY <1>1, <1>2 DEF MatchFits

\* After the first query of a partner.
LEMMA TheyHaveFits ==
  ASSUME Typed, Recorded, NEW j \in MatchJob, NEW me \in Users, NEW o \in j.left,
         j.with = {}, MatchFits("they have", j, me, past)
  PROVE  MatchFits("you have", TheyJob(j, me, o), me, past)
<1> DEFINE k == TheyJob(j, me, o)
<1>1. /\ k.since = j.since /\ k.matches = j.matches /\ k.asked = j.asked
      /\ k.left = j.left \ {o} /\ k.with = {o} /\ k.need = QueryMatchSide(me, o)
  BY DEF TheyJob, MatchJob
<1>2. o \in Users
  BY DEF MatchJob
<1> HIDE DEF k
<1>3. \A u \in Users : j.since[u] \in 1 .. Len(past[u])
  BY DEF MatchFits
<1>4. Fair(k.need, o, me, k.since, past)
  <2>1. Fair(QueryMatchSide(me, o), o, me, j.since, past)
    BY <1>2, <1>3, QueryIsFair
  <2> QED
    BY <1>1, <2>1
<1>5. k.asked \ (k.left \cup k.with) = j.asked \ (j.left \cup j.with)
  BY <1>1
<1>6. MatchFits("you have", k, me, past)
  BY <1>1, <1>2, <1>4, <1>5 DEF MatchFits
<1> QED
  BY <1>6 DEF k

\* And after the second.
LEMMA YouHaveFits ==
  ASSUME Typed, Recorded, NEW j \in MatchJob, NEW me \in Users, NEW o \in j.with,
         MatchFits("you have", j, me, past)
  PROVE  MatchFits("they have", YouJob(j, me, o), me, past)
<1> DEFINE k == YouJob(j, me, o)
           give == QueryMatchSide(o, me)
           row == [partner |-> o, take |-> j.need, give |-> give]
<1>1. /\ o \in Users /\ j.with = {o} /\ Fair(j.need, o, me, j.since, past)
      /\ \A u \in Users : j.since[u] \in 1 .. Len(past[u])
  BY DEF MatchFits
<1>2. Fair(give, me, o, j.since, past) /\ give \in SUBSET Stickers /\ j.need \in SUBSET Stickers
  BY <1>1, QueryIsFair, SideTyped DEF MatchJob
<1> HIDE DEF give
<1>3. /\ k.since = j.since /\ k.asked = j.asked /\ k.left = j.left /\ k.with = {}
      /\ k.matches = IF j.all \/ j.need \cup give # {} THEN j.matches \cup {row} ELSE j.matches
  BY DEF YouJob, MatchJob, give
<1>4. row.partner = o /\ row.take = j.need /\ row.give = give
  OBVIOUS
<1> HIDE DEF k
<1>5. ASSUME NEW m \in k.matches
      PROVE  Fair(m.take, m.partner, me, j.since, past) /\ Fair(m.give, me, m.partner, j.since, past)
  <2> HIDE DEF row
  <2>1. m \in j.matches \/ m = row
    BY <1>3
  <2>2. CASE m \in j.matches
    BY <2>2 DEF MatchFits
  <2>3. CASE m = row
    BY <1>1, <1>2, <1>4, <2>3
  <2> QED
    BY <2>1, <2>2, <2>3
<1>6. ASSUME NEW p \in j.asked \ j.left
      PROVE  \E T, G \in SUBSET Stickers :
               /\ Fair(T, p, me, j.since, past) /\ Fair(G, me, p, j.since, past)
               /\ T \cup G # {} => [partner |-> p, take |-> T, give |-> G] \in k.matches
  <2>1. CASE p = o
    <3>1. j.need \cup give # {} => row \in k.matches
      BY <1>3
    <3> QED
      BY <1>1, <1>2, <2>1, <3>1
  <2>2. CASE p # o
    <3>1. p \in j.asked \ (j.left \cup j.with) /\ j.matches \subseteq k.matches
      BY <1>1, <1>3, <2>2
    <3> QED
      BY <3>1 DEF MatchFits
  <2> QED
    BY <2>1, <2>2
<1>7. MatchFits("they have", k, me, past)
  <2>1. k.asked \ (k.left \cup k.with) = j.asked \ j.left
    BY <1>3
  <2> QED
    BY <1>1, <1>3, <1>5, <1>6, <2>1 DEF MatchFits
<1> QED
  BY <1>7 DEF k

\* Every action keeps the lists of matches fair.
LEMMA MatchesStep ==
  ASSUME Typed, Recorded, Matches, [Next]_vars
  PROVE  Matches'
<1>0. ASSUME NEW d \in Calls, pc[d] \in Matched
      PROVE  /\ job[d] \in MatchJob /\ Caller[d] \in Users
             /\ MatchFits(pc[d], job[d], Caller[d], past)
             /\ MatchFits(pc[d], job[d], Caller[d], past')
  <2>1. job[d] \in MatchJob /\ Caller[d] \in Users /\ MatchFits(pc[d], job[d], Caller[d], past)
    BY <1>0, UserAssumption DEF Typed, Matches
  <2> QED
    BY <2>1, MatchStillFits
<1>1. CASE UNCHANGED vars
  BY <1>0, <1>1 DEF Matches, vars
<1>2. CASE Next
  <2>1. PICK c \in Calls :
           /\ OthersKeep(c)
           /\ \/ \E s \in Stickers, n \in Inputs : UpdateItem(c, s, n)
              \/ Upsert(c) \/ Commit(c) \/ ReadStats(c) \/ PublishItem(c) \/ PublishStats(c)
              \/ \E S \in SUBSET Users, all \in BOOLEAN : Match(c, S, all)
              \/ \E o \in Users : TheyHaveYouNeed(c, o) \/ YouHaveTheyNeed(c, o)
              \/ Finish(c) /\ UNCHANGED <<items, events, past>>
    BY <1>2, Steps
  <2> DEFINE me == Caller[c]
             Fits == pc'[c] \in Matched => MatchFits(pc'[c], job'[c], me, past')
  <2>2. ASSUME Fits PROVE Matches'
    <3>1. ASSUME NEW d \in Calls \ {c}, pc'[d] \in Matched
          PROVE  MatchFits(pc'[d], job'[d], Caller[d], past')
      <4>1. pc'[d] = pc[d] /\ job'[d] = job[d]
        BY <2>1, <3>1 DEF OthersKeep, Busy, Committed, Matched
      <4> QED
        BY <1>0, <3>1, <4>1
    <3> QED
      BY <2>2, <3>1 DEF Matches
  <2>3. ASSUME pc'[c] \notin Matched PROVE Fits
    BY <2>3
  <2> HIDE DEF Fits
  <2>4. me \in Users
    BY UserAssumption
  <2>5. ASSUME NEW s \in Stickers, NEW m \in Inputs, UpdateItem(c, s, m) PROVE Fits
    <3>1. pc'[c] = "upsert"
      BY <2>5, BeginStarts
    <3> QED
      BY <2>3, <3>1 DEF Matched
  <2>6. ASSUME Upsert(c) PROVE Fits
    <3>1. pc'[c] = "commit"
      BY <2>6 DEF Upsert, Goto, Typed
    <3> QED
      BY <2>3, <3>1 DEF Matched
  <2>7. ASSUME Commit(c) PROVE Fits
    <3>1. pc'[c] = "stats"
      BY <2>7, CommitStores
    <3> QED
      BY <2>3, <3>1 DEF Matched
  <2>8. ASSUME ReadStats(c) PROVE Fits
    <3>1. pc'[c] = "publish item"
      BY <2>8, ReadStatsMoves
    <3> QED
      BY <2>3, <3>1 DEF Matched
  <2>9. ASSUME PublishItem(c) PROVE Fits
    <3>1. pc'[c] = "publish stats"
      BY <2>9, PublishItemMoves
    <3> QED
      BY <2>3, <3>1 DEF Matched
  <2>10. ASSUME Finish(c) PROVE Fits
    <3>1. pc'[c] = "idle"
      BY <2>10, FinishMoves
    <3> QED
      BY <2>3, <3>1 DEF Matched
  <2>11. PublishStats(c) => Finish(c)
    BY DEF PublishStats
  <2>12. ASSUME NEW S \in SUBSET Users, NEW all \in BOOLEAN, Match(c, S, all) PROVE Fits
    <3>1. /\ Goto(c, "they have") /\ job' = [job EXCEPT ![c] = NewMatch(S, all)]
          /\ UNCHANGED past
      BY <2>12, MatchMoves
    <3>2. pc'[c] = "they have" /\ job'[c] = NewMatch(S, all)
      BY <3>1, CallMoves
    <3>3. MatchFits("they have", NewMatch(S, all), me, past)
      BY <2>4, NewMatchFits
    <3> QED
      BY <3>1, <3>2, <3>3 DEF Fits
  <2>13. ASSUME NEW o \in Users, TheyHaveYouNeed(c, o) PROVE Fits
    <3>1. /\ pc[c] = "they have" /\ job[c] \in MatchJob /\ o \in job[c].left
          /\ Goto(c, "you have") /\ job' = [job EXCEPT ![c] = TheyJob(job[c], me, o)]
          /\ UNCHANGED past
      BY <2>13, TheyHaveMoves
    <3>2. pc'[c] = "you have" /\ job'[c] = TheyJob(job[c], me, o)
      BY <3>1, CallMoves
    <3>3. MatchFits("they have", job[c], me, past) /\ job[c].with = {}
      BY <1>0, <3>1 DEF Matched, Typed
    <3>4. MatchFits("you have", TheyJob(job[c], me, o), me, past)
      BY <2>4, <3>1, <3>3, TheyHaveFits
    <3> QED
      BY <3>1, <3>2, <3>4 DEF Fits
  <2>14. ASSUME NEW o \in Users, YouHaveTheyNeed(c, o) PROVE Fits
    <3>1. /\ pc[c] = "you have" /\ job[c] \in MatchJob /\ o \in job[c].with
          /\ Goto(c, "they have") /\ job' = [job EXCEPT ![c] = YouJob(job[c], me, o)]
          /\ UNCHANGED past
      BY <2>14, YouHaveMoves
    <3>2. pc'[c] = "they have" /\ job'[c] = YouJob(job[c], me, o)
      BY <3>1, CallMoves
    <3>3. MatchFits("you have", job[c], me, past)
      BY <1>0, <3>1 DEF Matched
    <3>4. MatchFits("they have", YouJob(job[c], me, o), me, past)
      BY <2>4, <3>1, <3>3, YouHaveFits
    <3> QED
      BY <3>1, <3>2, <3>4 DEF Fits
  <2>15. Fits
    BY <2>1, <2>5, <2>6, <2>7, <2>8, <2>9, <2>10, <2>11, <2>12, <2>13, <2>14
  <2> QED
    BY <2>2, <2>15
<1> QED
  BY <1>1, <1>2

------------------------------------------------------------------------------
(* What is promised                                                         *)

\* Safe holds at first.
LEMMA InitSafe ==
  ASSUME Init
  PROVE  Safe
<1>1. Typed /\ Recorded
  BY InitTyped
<1>2. (\A c \in Calls : pc[c] = "idle") /\ \A u \in Users : events[u] = << >>
  BY DEF Init
<1>3. Told
  <2>1. ASSUME NEW u \in Users PROVE DOMAIN events[u] = {}
    BY <1>2
  <2> QED
    BY <2>1 DEF Told, Sequenced
<1>4. Telling /\ Apart /\ Matches
  BY <1>2 DEF Telling, Apart, Matches, Busy, Committed, Matched
<1> QED
  BY <1>1, <1>3, <1>4 DEF Safe

\* Every step keeps Safe.
LEMMA SafeStep ==
  ASSUME Safe, [Next]_vars
  PROVE  Safe'
<1>1. Typed' /\ Recorded'
  BY TypedStep, RecordedStep DEF Safe
<1>2. Told' /\ Telling' /\ Apart' /\ Matches'
  BY ToldStep, TellingStep, ApartStep, MatchesStep DEF Safe
<1> QED
  BY <1>1, <1>2 DEF Safe

\* Every state that the program can reach satisfies it.
THEOREM Invariant == Spec => []Safe
<1>1. Init => Safe
  BY InitSafe
<1>2. Safe /\ [Next]_vars => Safe'
  BY SafeStep
<1> QED
  BY <1>1, <1>2, PTL DEF Spec

\* Rows fit the table, only counts that the API accepts are stored, in the
\* rows and at every time before, and each goroutine carries what its next
\* statement needs: UpdateItem and FindMatches are never mixed up.
THEOREM TypeCorrect == Spec => []TypeOK
<1>1. ASSUME Typed PROVE TypeOK
  <2>1. ASSUME NEW u \in Users
        PROVE  DOMAIN items[u] \subseteq Stickers /\ Range(items[u]) \subseteq Count
    <3>1. items[u] \in Rows
      BY <1>1 DEF Typed
    <3> QED
      BY <3>1, CollectionCounts DEF Range
  <2>2. pc \in [Calls -> {"idle", "upsert", "commit", "stats", "publish item",
                       "publish stats", "they have", "you have"}]
    BY <1>1 DEF Typed, Busy, Committed, Matched
  <2>3. ASSUME NEW c \in Calls
        PROVE  /\ pc[c] = "idle" <=> job[c] = NoJob
               /\ pc[c] = "they have" => job[c].with = {}
               /\ job[c].kind = "update" => job[c].sticker \in Stickers /\ job[c].count \in Count
    <3>1. job[c].kind = "update" => job[c] \in UpdateJob
      BY <1>1, Kinds DEF Typed
    <3>2. \A j \in UpdateJob : j.sticker \in Stickers /\ j.count \in Count
      BY DEF UpdateJob
    <3>3. pc[c] = "idle" <=> job[c] = NoJob
      BY <1>1, Kinds
    <3>4. pc[c] = "they have" => job[c].with = {}
      BY <1>1 DEF Typed
    <3> QED
      BY <3>1, <3>2, <3>3, <3>4
  <2>4. ASSUME NEW u \in Users, NEW i \in DOMAIN past[u] PROVE Range(past[u][i]) \subseteq Count
    <3>1. past[u] \in Seq(Counts)
      BY <1>1 DEF Typed
    <3>2. past[u][i] \in Counts
      BY <3>1, LenProperties, ElementOfSeq
    <3> QED
      BY <3>2 DEF Counts, Range
  <2> QED
    BY <2>1, <2>2, <2>3, <2>4 DEF TypeOK
<1>2. Safe => TypeOK
  BY <1>1 DEF Safe
<1> QED
  BY <1>2, Invariant, PTL

\* The copies beyond the first of those that one has more than one of are the
\* copies of all, less one of each that one has.
LEMMA SparesAreTheRest ==
  ASSUME NEW f \in Counts
  PROVE  LET D == {s \in Stickers : f[s] > 1} IN
         /\ Cardinality(D) \in Nat /\ Cardinality(Copies(f, D)) \in Nat
         /\ Cardinality(Copies(f, Stickers)) - Cardinality(Owned(f, Stickers)) + Cardinality(D)
              = Cardinality(Copies(f, D))
<1> DEFINE D == {s \in Stickers : f[s] > 1}
           S == {s \in Stickers : f[s] = 1}
<1>0. IsFiniteSet(Stickers) /\ \A s \in Stickers : f[s] \in Count /\ f[s] \in Nat
  BY CatalogueAssumption DEF Counts, Count
<1>1. IsFiniteSet(D) /\ IsFiniteSet(S)
  BY <1>0, FS_Subset
<1>2. Owned(f, Stickers) = D \cup S /\ D \cap S = {}
  BY <1>0 DEF Owned
<1>3. Copies(f, Stickers) = Copies(f, D) \cup (S \X {1})
  <2>0. 1 \in 1 .. MaxCount
    BY DEF MaxCount
  <2>1. ASSUME NEW s \in Stickers, NEW k \in 1 .. MaxCount
        PROVE  k <= f[s] <=> (s \in D /\ k <= f[s]) \/ (s \in S /\ k = 1)
    BY <1>0, <2>1
  <2> QED
    BY <2>0, <2>1 DEF Copies
<1>4. Copies(f, D) \cap (S \X {1}) = {}
  BY <1>2 DEF Copies
<1>5. IsFiniteSet(Copies(f, D))
  <2>1. IsFiniteSet(1 .. MaxCount)
    <3>1. 1 \in Int /\ MaxCount \in Int
      BY DEF MaxCount
    <3> QED
      BY <3>1, FS_Interval
  <2>2. IsFiniteSet(D \X (1 .. MaxCount))
    BY <1>1, <2>1, FS_Product
  <2>3. Copies(f, D) \subseteq D \X (1 .. MaxCount)
    BY DEF Copies
  <2> QED
    BY <2>2, <2>3, FS_Subset
<1> HIDE DEF D, S
<1>6. IsFiniteSet(S \X {1}) /\ Cardinality(S \X {1}) = Cardinality(S)
  <2>1. IsFiniteSet({1}) /\ Cardinality({1}) = 1
    BY FS_Singleton
  <2>2. IsFiniteSet(S \X {1}) /\ Cardinality(S \X {1}) = Cardinality(S) * 1
    BY <1>1, <2>1, FS_Product
  <2>3. Cardinality(S) \in Nat
    BY <1>1, FS_CardinalityType
  <2> QED
    BY <2>2, <2>3
<1>7. Cardinality(Copies(f, Stickers)) = Cardinality(Copies(f, D)) + Cardinality(S) - 0
  BY <1>3, <1>4, <1>5, <1>6, FS_Union, FS_EmptySet
<1>8. Cardinality(Owned(f, Stickers)) = Cardinality(D) + Cardinality(S) - 0
  BY <1>1, <1>2, FS_Union, FS_EmptySet
<1>9. Cardinality(D) \in Nat /\ Cardinality(S) \in Nat /\ Cardinality(Copies(f, D)) \in Nat
  BY <1>1, <1>5, FS_CardinalityType
<1>10. Cardinality(Copies(f, Stickers)) - Cardinality(Owned(f, Stickers)) + Cardinality(D)
         = Cardinality(Copies(f, D))
  BY <1>7, <1>8, <1>9
<1> QED
  BY <1>9, <1>10 DEF D

\* The loop of CalculateCollectionStats counts the collection as it is, in
\* whatever order it meets the stickers, and what it counts as missing and as
\* duplicates is what the queries GetMissing and GetDuplicates list, for every
\* catalogue and every collection that calls can leave.
THEOREM ViewsAgree == Spec => []StatsAndListsAgree
<1>1. ASSUME Typed, NEW u \in Users
      PROVE  /\ GetStats(u) = TrueStats(GetCollection(u))
             /\ GetStats(u).missing = Cardinality(GetMissing(u))
             /\ GetStats(u).duplicates + Cardinality(GetDuplicates(u))
                  = SumFunctionOnSet(items[u], GetDuplicates(u))
  <2> DEFINE k == GetCollection(u)
             row == items[u]
             D == GetDuplicates(u)
  <2>1. k \in Counts /\ row \in Rows
    BY <1>1, CollectionTyped DEF Typed
  <2>2. DOMAIN row \subseteq Stickers /\ \A s \in DOMAIN row : row[s] \in Count /\ k[s] = row[s]
    BY <2>1, CollectionCounts DEF GetCollection
  <2>3. D = {s \in Stickers : k[s] > 1}
    BY <2>2 DEF GetDuplicates, GetCollection
  <2>4. GetMissing(u) = {s \in Stickers : k[s] = 0} /\ IsFiniteSet(Stickers)
        /\ (\A s \in Stickers : k[s] \in Count)
    BY <2>1, CatalogueAssumption DEF GetMissing, Counts
  <2>5. D \subseteq DOMAIN row
    BY DEF GetDuplicates
  <2>6. GetStats(u) = CalculateCollectionStats(k)
    BY DEF GetStats
  <2> HIDE DEF k, row, D
  <2>7. GetStats(u) = TrueStats(k)
    BY <2>1, <2>6, StatsAreTrue DEF Counts
  <2>8. GetStats(u).missing = Cardinality(GetMissing(u))
    <3>1. GetMissing(u) = Stickers \ Owned(k, Stickers)
      BY <2>4 DEF Owned, Count
    <3>2. Stickers \cap Owned(k, Stickers) = Owned(k, Stickers)
      BY DEF Owned
    <3>3. Cardinality(GetMissing(u)) = Cardinality(Stickers) - Cardinality(Owned(k, Stickers))
      BY <2>4, <3>1, <3>2, FS_Difference
    <3> QED
      BY <2>7, <3>3 DEF TrueStats
  <2>9. GetStats(u).duplicates + Cardinality(D) = SumFunctionOnSet(row, D)
    <3>1. IsFiniteSet(D) /\ \A s \in D : row[s] \in Count /\ row[s] = k[s]
      BY <2>2, <2>3, <2>4, <2>5, FS_Subset
    <3>2. SumFunctionOnSet(row, D) = Cardinality(Copies(row, D))
      BY <3>1, SumIsCopies
    <3>3. Copies(row, D) = Copies(k, D)
      BY <3>1 DEF Copies
    <3>4. SumFunction(k) = Cardinality(Copies(k, Stickers))
      <4>1. DOMAIN k = Stickers
        BY <2>1 DEF Counts
      <4> QED
        BY <2>4, <4>1, SumIsCopies DEF SumFunction
    <3>5. GetStats(u).duplicates = Cardinality(Copies(k, Stickers)) - Cardinality(Owned(k, Stickers))
      BY <2>7, <3>4 DEF TrueStats
    <3>6. Cardinality(Copies(k, Stickers)) - Cardinality(Owned(k, Stickers)) + Cardinality(D)
            = Cardinality(Copies(k, D))
      BY <2>1, <2>3, SparesAreTheRest
    <3> QED
      BY <3>2, <3>3, <3>5, <3>6
  <2> QED
    BY <2>7, <2>8, <2>9 DEF k, row, D
<1>2. Safe => StatsAndListsAgree
  BY <1>1 DEF Safe, StatsAndListsAgree
<1> QED
  BY <1>2, Invariant, PTL

\* The two types of events.
LEMMA EventKinds ==
  ASSUME Typed, NEW u \in Users, NEW i \in DOMAIN events[u]
  PROVE  /\ i \in Nat
         /\ events[u][i].version \in Nat
         /\ i \in StatsEvents(u) <=> events[u][i].type = "stats.updated"
         /\ i \in ItemEvents(u) <=> events[u][i].type = "collection.updated"
<1>1. events[u] \in Seq(ItemEvent \cup StatsEvent)
  BY DEF Typed
<1>2. i \in 1 .. Len(events[u]) /\ Len(events[u]) \in Nat /\ events[u][i] \in ItemEvent \cup StatsEvent
  BY <1>1, LenProperties, ElementOfSeq
<1>3. i \in Nat
  BY <1>2
<1>4. /\ events[u][i].version \in Nat
      /\ events[u][i].type = "collection.updated" <=> events[u][i].type # "stats.updated"
  BY <1>2 DEF ItemEvent, StatsEvent
<1> QED
  BY <1>3, <1>4 DEF StatsEvents, ItemEvents

\* UpdateItem publishes after its commit, outside of the transaction, and reads
\* the statistics in a query of their own: collection.updated still shows what
\* one commit stored and is sent once for it, and stats.updated follows it with
\* statistics of a collection that was committed then or later.
THEOREM TruthTold == Spec => []EventsTellTheTruth
<1>1. ASSUME Typed, Told, NEW u \in Users
      PROVE  /\ \A i, j \in ItemEvents(u) :
                  LET e == events[u][i] IN
                  /\ past[u][e.version][e.sticker] = e.count
                  /\ i # j => e.version # events[u][j].version
             /\ \A i \in StatsEvents(u) :
                  LET e == events[u][i] IN
                  /\ \E j \in ItemEvents(u) : j < i /\ events[u][j].version = e.version
                  /\ \E v \in e.version .. Len(past[u]) : e.stats = TrueStats(past[u][v])
  <2>0. ItemEvents(u) \subseteq DOMAIN events[u] /\ StatsEvents(u) \subseteq DOMAIN events[u]
    BY DEF ItemEvents, StatsEvents
  <2>1. Sequenced(events[u]) /\ \A i \in DOMAIN events[u] : EventFits(events[u][i], past[u])
    BY <1>1 DEF Told
  <2>2. ASSUME NEW i \in ItemEvents(u), NEW j \in ItemEvents(u)
        PROVE  /\ past[u][events[u][i].version][events[u][i].sticker] = events[u][i].count
               /\ i # j => events[u][i].version # events[u][j].version
    <3>1. events[u][i].type = "collection.updated" /\ events[u][j].type = "collection.updated"
      BY <1>1, <2>0, EventKinds
    <3>2. i # j => ~Shows(events[u][j], events[u][i].version)
      BY <2>0, <2>1, <3>1 DEF Sequenced
    <3> QED
      BY <2>0, <2>1, <3>1, <3>2 DEF EventFits, Shows
  <2>3. ASSUME NEW i \in StatsEvents(u)
        PROVE  /\ \E j \in ItemEvents(u) : j < i /\ events[u][j].version = events[u][i].version
               /\ \E v \in events[u][i].version .. Len(past[u]) :
                    events[u][i].stats = TrueStats(past[u][v])
    <3>1. events[u][i].type = "stats.updated"
      BY DEF StatsEvents
    <3>2. PICK h \in DOMAIN events[u] : h < i /\ Shows(events[u][h], events[u][i].version)
      BY <2>0, <2>1, <3>1 DEF Sequenced
    <3>3. h \in ItemEvents(u) /\ events[u][h].version = events[u][i].version
      BY <1>1, <3>2, EventKinds DEF Shows
    <3>4. Vouched(events[u][i], past[u])
      BY <2>0, <2>1, <3>1 DEF EventFits
    <3> QED
      BY <3>2, <3>3, <3>4 DEF Vouched
  <2> QED
    BY <2>2, <2>3
<1>2. Safe => EventsTellTheTruth
  BY <1>1 DEF Safe, EventsTellTheTruth
<1> QED
  BY <1>2, Invariant, PTL

\* A browser that keeps the statistics of the last stats.updated shows the
\* collection as it is, when that was sent for the last commit and no other
\* update of the user ran beside it.
THEOREM LastIsCurrent == Spec => []LastStatsAreCurrent
<1>1. ASSUME Typed, Recorded, Told, NEW u \in Users, NEW i \in StatsEvents(u),
             events[u][i].version = Len(past[u]), events[u][i].alone
      PROVE  /\ events[u][i].stats = TrueStats(GetCollection(u))
             /\ \A j \in StatsEvents(u) : j <= i
  <2> DEFINE n == Len(past[u])
  <2>0. StatsEvents(u) \subseteq DOMAIN events[u] /\ i \in DOMAIN events[u]
        /\ events[u][i].type = "stats.updated"
    BY DEF StatsEvents
  <2>1. Sequenced(events[u]) /\ \A j \in DOMAIN events[u] : EventFits(events[u][j], past[u])
    BY <1>1 DEF Told
  <2>2. n \in Nat /\ past[u][n] = GetCollection(u)
    <3>1. past[u] \in Seq(Counts)
      BY <1>1 DEF Typed
    <3> QED
      BY <1>1, <3>1, LenProperties DEF Recorded
  <2>3. events[u][i].stats = TrueStats(GetCollection(u))
    <3>1. PICK v \in n .. n : events[u][i].stats = TrueStats(past[u][v])
      BY <1>1, <2>0, <2>1 DEF EventFits, Vouched
    <3>2. v = n
      <4> HIDE DEF n
      <4> QED
        BY <2>2
    <3> QED
      BY <2>2, <3>1, <3>2
  <2>4. ASSUME NEW j \in StatsEvents(u) PROVE j <= i
    <3>1. i \in Nat /\ j \in Nat /\ events[u][j].version \in Nat /\ events[u][j].type = "stats.updated"
      BY <1>1, <2>0, EventKinds DEF StatsEvents
    <3>2. i < j => n < events[u][j].version
      BY <1>1, <2>0, <2>1, <3>1 DEF Sequenced
    <3>3. events[u][j].version \in 1 .. n
      BY <2>0, <2>1 DEF EventFits
    <3> HIDE DEF n
    <3>4. ~(n < events[u][j].version)
      BY <2>2, <3>3
    <3> QED
      BY <3>1, <3>2, <3>4
  <2> QED
    BY <2>3, <2>4
<1>2. Safe => LastStatsAreCurrent
  BY <1>1 DEF Safe, LastStatsAreCurrent
<1> QED
  BY <1>2, Invariant, PTL

\* computeMatch takes two queries per partner while collections change.  What a
\* match lists was so at some time of the call, so that CreateTrade would have
\* taken it, and what was so during all of the call is listed, for every
\* partner that has been asked.
THEOREM MatchesAreRight == Spec => []MatchesHold
<1>1. ASSUME Typed, Matches, NEW c \in Calls, job[c].kind = "match"
      PROVE  LET me == Caller[c] IN
             /\ \A m \in job[c].matches :
                  /\ \A s \in m.take : Once(c, m.partner, s, Tradable) /\ Once(c, me, s, {0})
                  /\ \A s \in m.give : Once(c, me, s, Tradable) /\ Once(c, m.partner, s, {0})
             /\ \A o \in job[c].asked \ (job[c].left \cup job[c].with), s \in Stickers :
                  /\ Always(c, o, s, Tradable) /\ Always(c, me, s, {0}) =>
                       \E m \in job[c].matches : m.partner = o /\ s \in m.take
                  /\ Always(c, me, s, Tradable) /\ Always(c, o, s, {0}) =>
                       \E m \in job[c].matches : m.partner = o /\ s \in m.give
  <2> DEFINE me == Caller[c]
             j == job[c]
  <2>1. pc[c] \in Matched
    BY <1>1, Kinds
  <2>2. j \in MatchJob /\ MatchFits(pc[c], j, me, past)
    BY <1>1, <2>1 DEF Typed, Matches
  <2>3. /\ \A u, s, S : Once(c, u, s, S) <=> Seen(u, s, S, j.since, past)
        /\ \A u, s, S : Always(c, u, s, S) <=> Stayed(u, s, S, j.since, past)
    BY DEF Once, Always, Seen, Stayed
  <2> HIDE DEF j
  <2>4. ASSUME NEW m \in j.matches
        PROVE  /\ \A s \in m.take : Once(c, m.partner, s, Tradable) /\ Once(c, me, s, {0})
               /\ \A s \in m.give : Once(c, me, s, Tradable) /\ Once(c, m.partner, s, {0})
    <3>1. Fair(m.take, m.partner, me, j.since, past) /\ Fair(m.give, me, m.partner, j.since, past)
      BY <2>2 DEF MatchFits
    <3>2. m.take \subseteq Stickers /\ m.give \subseteq Stickers
      BY <2>2 DEF MatchJob, MatchRow
    <3> QED
      BY <2>3, <3>1, <3>2 DEF Fair
  <2>5. ASSUME NEW o \in j.asked \ (j.left \cup j.with), NEW s \in Stickers
        PROVE  /\ Always(c, o, s, Tradable) /\ Always(c, me, s, {0}) =>
                    \E m \in j.matches : m.partner = o /\ s \in m.take
               /\ Always(c, me, s, Tradable) /\ Always(c, o, s, {0}) =>
                    \E m \in j.matches : m.partner = o /\ s \in m.give
    <3>1. PICK T \in SUBSET Stickers, G \in SUBSET Stickers :
            /\ Fair(T, o, me, j.since, past) /\ Fair(G, me, o, j.since, past)
            /\ T \cup G # {} => [partner |-> o, take |-> T, give |-> G] \in j.matches
      BY <2>2 DEF MatchFits
    <3>2. Always(c, o, s, Tradable) /\ Always(c, me, s, {0}) => s \in T
      BY <2>3, <3>1 DEF Fair
    <3>3. Always(c, me, s, Tradable) /\ Always(c, o, s, {0}) => s \in G
      BY <2>3, <3>1 DEF Fair
    <3>4. s \in T \/ s \in G =>
            \E m \in j.matches : m.partner = o /\ m.take = T /\ m.give = G
      BY <3>1
    <3> QED
      BY <3>2, <3>3, <3>4
  <2> QED
    BY <2>4, <2>5 DEF j
<1>2. Safe => MatchesHold
  BY <1>1 DEF Safe, MatchesHold
<1> QED
  BY <1>2, Invariant, PTL
==============================================================================
