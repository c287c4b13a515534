------------------------------ MODULE SumProofs ------------------------------
(***************************************************************************)
(* Sums of integers over a finite set, as the models use them: a balance,  *)
(* a season's points, a player's score.  SumFunctionOnSet is a recursive   *)
(* function on subsets that takes out an element of its own choice; the    *)
(* lemmas show that the function exists and that the choice is immaterial. *)
(*                                                                         *)
(* Induction is over the size of a set, through the least number of a      *)
(* nonempty set of naturals.                                               *)
(***************************************************************************)
EXTENDS FiniteSetsExt, FiniteSetTheorems, TLAPS

\* A set that holds 0 and the successor of each of its numbers holds Nat.
LEMMA SuccessorsCoverNat ==
  ASSUME NEW T, 0 \in T, \A k \in Nat : k \in T => k + 1 \in T
  PROVE  Nat \subseteq T
<1> SUFFICES ASSUME Nat \ T # {} PROVE FALSE
  OBVIOUS
<1>1. PICK m \in Nat \ T : \A k \in Nat \ T : ~(<<k, m>> \in OpToRel(<, Nat))
  BY NatLessThanWellFounded, WFMin, Zenon
<1>2. \A k \in Nat \ T : ~(k < m)
  <2> SUFFICES ASSUME NEW k \in Nat \ T, k < m PROVE FALSE
    OBVIOUS
  <2>1. <<k, m>> \in OpToRel(<, Nat)
    BY DEF OpToRel
  <2> QED BY <1>1, <2>1, Zenon
<1>3. m # 0
  OBVIOUS
<1>4. m - 1 \in Nat /\ m - 1 < m /\ (m - 1) + 1 = m
  BY <1>3
<1> QED BY <1>2, <1>4

----------------------------------------------------------------------------
(* The recursive function behind a sum.                                    *)

Taken(s) == CHOOSE x \in s : TRUE
Unfolded(n, g, s) == IF s = {} THEN 0 ELSE n[Taken(s)] + g[s \ {Taken(s)}]
Sums(n, g, S) == g = [s \in SUBSET S |-> Unfolded(n, g, s)]
SumsUpTo(n, g, S, k) ==
  /\ g \in [SUBSET S -> {g[s] : s \in SUBSET S}]
  /\ \A s \in SUBSET S : Cardinality(s) <= k => g[s] = Unfolded(n, g, s)

\* The element the definition takes out of a set is one of its own.
LEMMA TakenIn == ASSUME NEW s, s # {} PROVE Taken(s) \in s
BY DEF Taken

\* The subsets of a finite set are finite, and smaller without an element.
LEMMA SubsetSize ==
  ASSUME NEW S, IsFiniteSet(S), NEW s \in SUBSET S
  PROVE  /\ IsFiniteSet(s) /\ Cardinality(s) \in Nat
         /\ Cardinality(s) <= Cardinality(S)
         /\ Cardinality(s) = 0 <=> s = {}
         /\ \A x \in s : /\ s \ {x} \in SUBSET S
                         /\ Cardinality(s \ {x}) = Cardinality(s) - 1
BY FS_Subset, FS_CardinalityType, FS_EmptySet, FS_RemoveElement

\* The function exists: it is built up from the small subsets to the large.
LEMMA SumsExist ==
  ASSUME NEW n, NEW S, IsFiniteSet(S)
  PROVE  \E g : Sums(n, g, S)
<1> DEFINE Reached == {k \in Nat : \E g : SumsUpTo(n, g, S, k)}
<1>1. 0 \in Reached
  <2> DEFINE g == [s \in SUBSET S |-> 0]
  <2>1. \A s \in SUBSET S : Cardinality(s) <= 0 => s = {}
    BY SubsetSize
  <2>2. \A s \in SUBSET S : Cardinality(s) <= 0 => g[s] = Unfolded(n, g, s)
    BY <2>1 DEF Unfolded
  <2>3. SumsUpTo(n, g, S, 0)
    <3>1. g \in [SUBSET S -> {g[s] : s \in SUBSET S}]
      OBVIOUS
    <3> HIDE DEF g
    <3> QED BY <2>2, <3>1 DEF SumsUpTo
  <2> HIDE DEF g
  <2> QED BY <2>3
<1>2. ASSUME NEW k \in Nat, k \in Reached PROVE k + 1 \in Reached
  <2>1. PICK g : SumsUpTo(n, g, S, k)
    BY <1>2
  <2> DEFINE h == [s \in SUBSET S |-> Unfolded(n, g, s)]
  <2>2. ASSUME NEW s \in SUBSET S, Cardinality(s) <= k PROVE h[s] = g[s]
    BY <2>1, <2>2 DEF SumsUpTo
  <2>3. ASSUME NEW s \in SUBSET S, Cardinality(s) <= k + 1
        PROVE  h[s] = Unfolded(n, h, s)
    <3>1. CASE s = {}
      BY <3>1 DEF Unfolded
    <3>2. CASE s # {}
      <4>1. Taken(s) \in s
        BY <3>2, TakenIn
      <4>2. s \ {Taken(s)} \in SUBSET S /\ Cardinality(s \ {Taken(s)}) <= k
        BY <4>1, <2>3, SubsetSize
      <4>3. h[s \ {Taken(s)}] = g[s \ {Taken(s)}]
        BY <4>2, <2>2
      <4> QED BY <4>3, <3>2 DEF Unfolded
    <3> QED BY <3>1, <3>2
  <2>4. SumsUpTo(n, h, S, k + 1)
    <3> HIDE DEF h
    <3>1. h \in [SUBSET S -> {h[s] : s \in SUBSET S}]
      BY DEF h
    <3> QED BY <2>3, <3>1 DEF SumsUpTo
  <2> HIDE DEF h
  <2> QED BY <2>4
<1>3. Cardinality(S) \in Reached
  <2> HIDE DEF Reached
  <2>1. Nat \subseteq Reached
    BY <1>1, <1>2, SuccessorsCoverNat
  <2> QED BY <2>1, FS_CardinalityType
<1>4. PICK g : SumsUpTo(n, g, S, Cardinality(S))
  BY <1>3
<1>5. g = [s \in SUBSET S |-> g[s]]
  BY <1>4 DEF SumsUpTo
<1>6. \A s \in SUBSET S : g[s] = Unfolded(n, g, s)
  BY <1>4, SubsetSize DEF SumsUpTo
<1> QED BY <1>5, <1>6 DEF Sums

\* What it gives for a set does not depend on the set it is built for.
LEMMA SumsAgree ==
  ASSUME NEW n, NEW S, IsFiniteSet(S), NEW T \in SUBSET S,
         NEW f, Sums(n, f, S), NEW g, Sums(n, g, T)
  PROVE  f[T] = g[T]
<1> DEFINE Same == {k \in Nat : \A s \in SUBSET T : Cardinality(s) <= k => f[s] = g[s]}
<1>0. IsFiniteSet(T) /\ Cardinality(T) \in Nat
  BY SubsetSize
<1>1. \A s \in SUBSET T : f[s] = Unfolded(n, f, s) /\ g[s] = Unfolded(n, g, s)
  BY DEF Sums
<1>2. 0 \in Same
  <2>1. \A s \in SUBSET T : Cardinality(s) <= 0 => s = {}
    BY <1>0, SubsetSize
  <2>2. \A s \in SUBSET T : Cardinality(s) <= 0 => f[s] = g[s]
    BY <2>1, <1>1 DEF Unfolded
  <2> QED BY <2>2
<1>3. ASSUME NEW k \in Nat, k \in Same PROVE k + 1 \in Same
  <2> SUFFICES ASSUME NEW s \in SUBSET T, Cardinality(s) <= k + 1 PROVE f[s] = g[s]
    OBVIOUS
  <2>1. CASE s = {}
    BY <2>1, <1>1 DEF Unfolded
  <2>2. CASE s # {}
    <3>1. Taken(s) \in s
      BY <2>2, TakenIn
    <3>2. s \ {Taken(s)} \in SUBSET T /\ Cardinality(s \ {Taken(s)}) <= k
      BY <3>1, <1>0, SubsetSize
    <3>3. f[s \ {Taken(s)}] = g[s \ {Taken(s)}]
      BY <3>2, <1>3
    <3> QED BY <3>3, <1>1, <2>2 DEF Unfolded
  <2> QED BY <2>1, <2>2
<1>4. Nat \subseteq Same
  <2> HIDE DEF Same
  <2> QED BY <1>2, <1>3, SuccessorsCoverNat
<1> QED BY <1>0, <1>4

\* The sum is what some such function gives.
LEMMA SumIsValue ==
  ASSUME NEW n, NEW S, IsFiniteSet(S)
  PROVE  \E g : Sums(n, g, S) /\ SumFunctionOnSet(n, S) = g[S]
<1> DEFINE g == CHOOSE h : Sums(n, h, S)
<1>1. Sums(n, g, S)
  BY SumsExist
<1>2. SumFunctionOnSet(n, S) = g[S]
  BY DEF SumFunctionOnSet, FoldFunctionOnSet, MapThenFoldSet, Sums, Unfolded, Taken
<1> HIDE DEF g
<1> QED BY <1>1, <1>2

----------------------------------------------------------------------------
(* The lemmas to cite.                                                     *)

\* The sum of nothing is 0.
LEMMA SumEmpty ==
  ASSUME NEW n
  PROVE  SumFunctionOnSet(n, {}) = 0
<1>1. PICK g : Sums(n, g, {}) /\ SumFunctionOnSet(n, {}) = g[{}]
  BY SumIsValue, FS_EmptySet
<1> QED BY <1>1 DEF Sums, Unfolded

\* The definition, unfolded once.
LEMMA SumStep ==
  ASSUME NEW n, NEW S, IsFiniteSet(S), S # {}
  PROVE  SumFunctionOnSet(n, S) = n[Taken(S)] + SumFunctionOnSet(n, S \ {Taken(S)})
<1> DEFINE T == S \ {Taken(S)}
<1>1. T \in SUBSET S /\ IsFiniteSet(T)
  BY FS_RemoveElement
<1>2. PICK f : Sums(n, f, S) /\ SumFunctionOnSet(n, S) = f[S]
  BY SumIsValue
<1>3. PICK g : Sums(n, g, T) /\ SumFunctionOnSet(n, T) = g[T]
  BY <1>1, SumIsValue
<1>4. f[S] = n[Taken(S)] + f[T]
  BY <1>2 DEF Sums, Unfolded
<1>5. f[T] = g[T]
  <2> HIDE DEF T
  <2> QED BY <1>1, <1>2, <1>3, SumsAgree
<1> QED BY <1>2, <1>3, <1>4, <1>5

\* A sum of integers is one, and any element may be taken out first.
LEMMA SumSplits ==
  ASSUME NEW S, IsFiniteSet(S), NEW n, \A x \in S : n[x] \in Int
  PROVE  /\ SumFunctionOnSet(n, S) \in Int
         /\ \A x \in S : SumFunctionOnSet(n, S) = n[x] + SumFunctionOnSet(n, S \ {x})
<1> DEFINE Fine(T) ==
      /\ SumFunctionOnSet(n, T) \in Int
      /\ \A x \in T : SumFunctionOnSet(n, T) = n[x] + SumFunctionOnSet(n, T \ {x})
    FineUpTo == {k \in Nat : \A T \in SUBSET S : Cardinality(T) <= k => Fine(T)}
<1>1. 0 \in FineUpTo
  BY SubsetSize, SumEmpty
<1>2. ASSUME NEW k \in Nat, k \in FineUpTo PROVE k + 1 \in FineUpTo
  <2> SUFFICES ASSUME NEW T \in SUBSET S, Cardinality(T) <= k + 1 PROVE Fine(T)
    OBVIOUS
  <2>1. CASE T = {}
    BY <2>1, SumEmpty
  <2>2. CASE T # {}
    <3> DEFINE p == Taken(T)
    <3>1. p \in T /\ IsFiniteSet(T)
      BY <2>2, TakenIn, SubsetSize
    <3>2. \A x \in T : T \ {x} \in SUBSET S /\ Cardinality(T \ {x}) <= k
      BY SubsetSize
    <3>3. \A x \in T : Fine(T \ {x})
      BY <3>2, <1>2
    <3>4. SumFunctionOnSet(n, T) = n[p] + SumFunctionOnSet(n, T \ {p})
      BY <3>1, <2>2, SumStep
    <3>5. SumFunctionOnSet(n, T) \in Int
      BY <3>1, <3>3, <3>4
    <3>6. ASSUME NEW x \in T
          PROVE  SumFunctionOnSet(n, T) = n[x] + SumFunctionOnSet(n, T \ {x})
      <4> HIDE DEF p
      <4>1. CASE x = p
        BY <4>1, <3>4
      <4>2. CASE x # p
        <5>1. SumFunctionOnSet(n, T \ {p})
                = n[x] + SumFunctionOnSet(n, (T \ {p}) \ {x})
          BY <4>2, <3>1, <3>3
        <5>2. SumFunctionOnSet(n, T \ {x})
                = n[p] + SumFunctionOnSet(n, (T \ {x}) \ {p})
          BY <4>2, <3>1, <3>3
        <5>3. (T \ {p}) \ {x} = (T \ {x}) \ {p}
          OBVIOUS
        <5> DEFINE rest == SumFunctionOnSet(n, (T \ {x}) \ {p})
        <5>4. rest \in Int
          <6>1. T \ {x} \in SUBSET S /\ p \in T \ {x}
            BY <3>1, <4>2
          <6>2. (T \ {x}) \ {p} \in SUBSET S
            OBVIOUS
          <6>3. Cardinality(T \ {x}) \in Nat /\ Cardinality(T \ {x}) <= k
            BY <6>1, <3>2, SubsetSize
          <6>4. Cardinality((T \ {x}) \ {p}) = Cardinality(T \ {x}) - 1
            <7>1. IsFiniteSet(T \ {x})
              BY <6>1, SubsetSize
            <7> QED BY <7>1, <6>1, FS_RemoveElement
          <6>5. Cardinality((T \ {x}) \ {p}) <= k
            BY <6>3, <6>4
          <6> QED BY <6>2, <6>5, <1>2
        <5>5. n[x] \in Int /\ n[p] \in Int
          BY <3>1
        <5>6. SumFunctionOnSet(n, T \ {p}) = n[x] + rest
          BY <5>1, <5>3
        <5> HIDE DEF rest
        <5>7. SumFunctionOnSet(n, T \ {x}) = n[p] + rest
          BY <5>2 DEF rest
        <5> QED BY <5>4, <5>5, <5>6, <5>7, <3>4
      <4> QED BY <4>1, <4>2
    <3> QED BY <3>5, <3>6
  <2> QED BY <2>1, <2>2
<1>3. Nat \subseteq FineUpTo
  <2> HIDE DEF FineUpTo
  <2> QED BY <1>1, <1>2, SuccessorsCoverNat
<1>4. Cardinality(S) \in Nat /\ Cardinality(S) <= Cardinality(S)
  BY SubsetSize
<1> QED BY <1>3, <1>4

\* Induction on the subsets of a finite set: G is the set of those reached.
LEMMA SubsetsReached ==
  ASSUME NEW S, IsFiniteSet(S), NEW G, {} \in G,
         \A T \in SUBSET S, x \in S : T \in G /\ x \notin T => T \cup {x} \in G
  PROVE  S \in G
<1> DEFINE All == {k \in Nat : \A T \in SUBSET S : Cardinality(T) <= k => T \in G}
<1>1. 0 \in All
  <2>1. \A T \in SUBSET S : Cardinality(T) <= 0 => T = {}
    BY SubsetSize
  <2> QED BY <2>1
<1>2. ASSUME NEW k \in Nat, k \in All PROVE k + 1 \in All
  <2> SUFFICES ASSUME NEW T \in SUBSET S, Cardinality(T) <= k + 1 PROVE T \in G
    OBVIOUS
  <2> SUFFICES ASSUME T # {} PROVE T \in G
    OBVIOUS
  <2>1. PICK x \in T : TRUE
    OBVIOUS
  <2>2. T \ {x} \in SUBSET S /\ Cardinality(T \ {x}) <= k
    BY SubsetSize
  <2>3. T \ {x} \in G
    BY <2>2, <1>2
  <2>4. (T \ {x}) \cup {x} = T
    OBVIOUS
  <2> QED BY <2>2, <2>3, <2>4
<1>3. Nat \subseteq All
  <2> HIDE DEF All
  <2> QED BY <1>1, <1>2, SuccessorsCoverNat
<1> QED BY <1>3, SubsetSize

\* An element comes in.
LEMMA SumInsert ==
  ASSUME NEW S, IsFiniteSet(S), NEW x, x \notin S,
         NEW n, \A y \in S \cup {x} : n[y] \in Int
  PROVE  SumFunctionOnSet(n, S \cup {x}) = n[x] + SumFunctionOnSet(n, S)
<1>1. IsFiniteSet(S \cup {x}) /\ (S \cup {x}) \ {x} = S
  BY FS_AddElement
<1> QED BY <1>1, SumSplits

\* What is larger element by element is larger in sum.
LEMMA SumGrows ==
  ASSUME NEW S, IsFiniteSet(S), NEW m, NEW n,
         \A x \in S : m[x] \in Int /\ n[x] \in Int /\ m[x] <= n[x]
  PROVE  SumFunctionOnSet(m, S) <= SumFunctionOnSet(n, S)
<1> DEFINE G == {T \in SUBSET S : SumFunctionOnSet(m, T) <= SumFunctionOnSet(n, T)}
<1>1. {} \in G
  BY SumEmpty
<1>2. ASSUME NEW T \in SUBSET S, NEW x \in S, T \in G, x \notin T PROVE T \cup {x} \in G
  <2>1. IsFiniteSet(T)
    BY FS_Subset
  <2>2. /\ SumFunctionOnSet(m, T \cup {x}) = m[x] + SumFunctionOnSet(m, T)
        /\ SumFunctionOnSet(n, T \cup {x}) = n[x] + SumFunctionOnSet(n, T)
    BY <2>1, <1>2, SumInsert
  <2>3. SumFunctionOnSet(m, T) \in Int /\ SumFunctionOnSet(n, T) \in Int
    BY <2>1, SumSplits
  <2> QED BY <2>2, <2>3, <1>2
<1> HIDE DEF G
<1>3. S \in G
  BY <1>1, <1>2, SubsetsReached
<1> QED BY <1>3 DEF G

\* Sums of the same numbers are the same.
LEMMA SumSame ==
  ASSUME NEW S, IsFiniteSet(S), NEW m, NEW n,
         \A x \in S : m[x] \in Int /\ m[x] = n[x]
  PROVE  SumFunctionOnSet(m, S) = SumFunctionOnSet(n, S)
<1>1. SumFunctionOnSet(m, S) \in Int /\ SumFunctionOnSet(n, S) \in Int
  BY SumSplits
<1>2. /\ SumFunctionOnSet(m, S) <= SumFunctionOnSet(n, S)
      /\ SumFunctionOnSet(n, S) <= SumFunctionOnSet(m, S)
  BY SumGrows
<1> QED BY <1>1, <1>2

\* One element changes.
LEMMA SumMoves ==
  ASSUME NEW S, IsFiniteSet(S), NEW m, NEW n, NEW x \in S,
         \A y \in S : m[y] \in Int /\ n[y] \in Int,
         \A y \in S \ {x} : m[y] = n[y]
  PROVE  SumFunctionOnSet(n, S) = SumFunctionOnSet(m, S) + (n[x] - m[x])
<1>1. IsFiniteSet(S \ {x})
  BY FS_RemoveElement
<1>2. SumFunctionOnSet(m, S \ {x}) = SumFunctionOnSet(n, S \ {x})
  BY <1>1, SumSame
<1>3. SumFunctionOnSet(m, S \ {x}) \in Int
  BY <1>1, SumSplits
<1>4. /\ SumFunctionOnSet(m, S) = m[x] + SumFunctionOnSet(m, S \ {x})
      /\ SumFunctionOnSet(n, S) = n[x] + SumFunctionOnSet(n, S \ {x})
  BY SumSplits
<1> QED BY <1>2, <1>3, <1>4

\* A part of a sum of naturals is no more than the whole.
LEMMA SumOfPart ==
  ASSUME NEW S, IsFiniteSet(S), NEW T \in SUBSET S, NEW n, \A x \in S : n[x] \in Nat
  PROVE  SumFunctionOnSet(n, T) <= SumFunctionOnSet(n, S)
<1> DEFINE G == {U \in SUBSET S :
                   SumFunctionOnSet(n, U \cap T) <= SumFunctionOnSet(n, U)}
<1>1. {} \in G
  <2>1. {} \cap T = {}
    OBVIOUS
  <2> QED BY <2>1, SumEmpty
<1>2. ASSUME NEW U \in SUBSET S, NEW x \in S, U \in G, x \notin U PROVE U \cup {x} \in G
  <2> SUFFICES SumFunctionOnSet(n, (U \cup {x}) \cap T) <= SumFunctionOnSet(n, U \cup {x})
    OBVIOUS
  <2>0. /\ SumFunctionOnSet(n, U \cap T) <= SumFunctionOnSet(n, U)
        /\ n[x] \in Nat /\ \A y \in U \cup {x} : n[y] \in Int
    BY <1>2
  <2> HIDE DEF G
  <2>1. IsFiniteSet(U) /\ IsFiniteSet(U \cap T)
    BY FS_Subset
  <2>2. SumFunctionOnSet(n, U) \in Int /\ SumFunctionOnSet(n, U \cap T) \in Int
    BY <2>1, SumSplits
  <2>3. SumFunctionOnSet(n, U \cup {x}) = n[x] + SumFunctionOnSet(n, U)
    BY <2>0, <2>1, <1>2, SumInsert
  <2>4. CASE x \in T
    <3>1. (U \cup {x}) \cap T = (U \cap T) \cup {x} /\ x \notin U \cap T
      BY <2>4, <1>2
    <3>2. SumFunctionOnSet(n, (U \cap T) \cup {x}) = n[x] + SumFunctionOnSet(n, U \cap T)
      <4>1. \A y \in (U \cap T) \cup {x} : n[y] \in Int
        BY <2>0
      <4> QED BY <2>1, <3>1, <4>1, SumInsert
    <3> QED BY <2>0, <2>2, <2>3, <3>1, <3>2
  <2>5. CASE x \notin T
    <3>1. (U \cup {x}) \cap T = U \cap T
      BY <2>5
    <3> DEFINE a == SumFunctionOnSet(n, U \cap T)
               b == SumFunctionOnSet(n, U)
    <3>2. a \in Int /\ b \in Int /\ a <= b
      BY <2>0, <2>2
    <3> HIDE DEF a, b
    <3>3. a <= n[x] + b
      BY <2>0, <3>2
    <3> QED BY <2>3, <3>1, <3>3 DEF a, b
  <2> QED BY <2>4, <2>5
<1> HIDE DEF G
<1>3. S \in G
  BY <1>1, <1>2, SubsetsReached
<1>4. S \cap T = T
  OBVIOUS
<1> QED BY <1>3, <1>4 DEF G

\* A sum of zeros is 0.
LEMMA SumOfZeros ==
  ASSUME NEW S, IsFiniteSet(S), NEW n, \A x \in S : n[x] = 0
  PROVE  SumFunctionOnSet(n, S) = 0
<1> DEFINE G == {T \in SUBSET S : SumFunctionOnSet(n, T) = 0}
<1>1. {} \in G
  BY SumEmpty
<1>2. ASSUME NEW T \in SUBSET S, NEW x \in S, T \in G, x \notin T PROVE T \cup {x} \in G
  <2>1. SumFunctionOnSet(n, T) = 0 /\ IsFiniteSet(T)
    BY <1>2, FS_Subset
  <2>2. \A y \in T \cup {x} : n[y] \in Int
    OBVIOUS
  <2>3. SumFunctionOnSet(n, T \cup {x}) = n[x] + SumFunctionOnSet(n, T)
    BY <1>2, <2>1, <2>2, SumInsert
  <2> QED  BY <2>1, <2>3
<1> HIDE DEF G
<1>3. S \in G
  BY <1>1, <1>2, SubsetsReached
<1> QED BY <1>3 DEF G

\* A sum of naturals is one.
LEMMA SumNat ==
  ASSUME NEW S, IsFiniteSet(S), NEW n, \A x \in S : n[x] \in Nat
  PROVE  SumFunctionOnSet(n, S) \in Nat
<1>1. SumFunctionOnSet(n, S) \in Int
  BY SumSplits
<1>2. SumFunctionOnSet(n, {}) <= SumFunctionOnSet(n, S)
  BY SumOfPart
<1> QED BY <1>1, <1>2, SumEmpty
=============================================================================
