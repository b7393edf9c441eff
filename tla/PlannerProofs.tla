---------------------------- MODULE PlannerProofs ----------------------------
(***************************************************************************)
(* The planner, for every fleet, model and request: what its algorithms    *)
(* return (the partition programme, the two path searches, the pins, the   *)
(* memory check, the draft, the replica groups), and from it that whatever *)
(* plan, failover alternative or replica set reaches a caller can be       *)
(* deployed.                                                               *)
(* The algorithms are recursive functions. Induction is over sets of       *)
(* numbers and finite sets (NatInduct, SetInduct), from the library's      *)
(* theorem that < is well founded.                                         *)
(***************************************************************************)
EXTENDS Planner, FiniteSetTheorems, WellFoundedInduction, TLAPS

(***************************************************************************)
(* Induction                                                               *)
(***************************************************************************)

\* A set of naturals with 0 and, with each number, the next is Nat.
LEMMA NatInduct ==
    ASSUME NEW P \in SUBSET Nat, 0 \in P, \A n \in P : n + 1 \in P
    PROVE  P = Nat
  <1> SUFFICES ASSUME NEW T, T = Nat \ P, T # {} PROVE FALSE
    OBVIOUS
  <1> DEFINE R == OpToRel(<, Nat)
  <1>1. IsWellFoundedOn(R, Nat)
    BY NatLessThanWellFounded
  <1> HIDE DEF R
  <1>2. PICK x \in T : \A y \in T : ~ (<<y, x>> \in R)
    BY <1>1, WFMin
  <1>3. \A y \in T : ~(y < x)
    BY <1>2 DEF R, OpToRel
  <1>4. x # 0 /\ x \in Nat
    OBVIOUS
  <1>5. x - 1 \in Nat /\ x - 1 < x /\ (x - 1) + 1 = x
    BY <1>4
  <1>6. x - 1 \in P
    BY <1>3, <1>5
  <1> QED
    BY <1>5, <1>6

\* A collection with {} that is closed under adding one element of S has S.
LEMMA SetInduct ==
    ASSUME NEW S, IsFiniteSet(S), NEW P, {} \in P, \A s \in SUBSET S, x \in S : s \in P /\ x \notin s => s \cup {x} \in P
    PROVE  S \in P
  <1> DEFINE Q == {n \in Nat : \A s \in SUBSET S : Cardinality(s) = n => s \in P}
  <1>1. ASSUME NEW s \in SUBSET S PROVE IsFiniteSet(s) /\ Cardinality(s) \in Nat
    BY FS_Subset, FS_CardinalityType
  <1>2. 0 \in Q
    <2>1. ASSUME NEW s \in SUBSET S, Cardinality(s) = 0 PROVE s \in P
      BY <1>1, <2>1, FS_EmptySet
    <2> QED
      BY <2>1
  <1>3. ASSUME NEW n \in Q PROVE n + 1 \in Q
    <2>1. ASSUME NEW s \in SUBSET S, Cardinality(s) = n + 1 PROVE s \in P
      <3>1. s # {}
        BY <1>3, <2>1, FS_EmptySet
      <3>2. PICK x \in s : TRUE
        BY <3>1
      <3>3. IsFiniteSet(s \ {x}) /\ Cardinality(s \ {x}) = Cardinality(s) - 1
        BY <1>1, FS_RemoveElement
      <3>4. s \ {x} \in P
        BY <1>3, <2>1, <3>3
      <3>5. (s \ {x}) \cup {x} = s /\ x \notin s \ {x} /\ s \ {x} \in SUBSET S
        BY <3>2
      <3> QED
        BY <3>4, <3>5
    <2> QED
      BY <1>3, <2>1
  <1>4. Q \in SUBSET Nat
    OBVIOUS
  <1> HIDE DEF Q
  <1>5. Q = Nat
    BY <1>2, <1>3, <1>4, NatInduct
  <1>6. S \in SUBSET S /\ Cardinality(S) \in Nat
    BY <1>1
  <1> QED
    BY <1>5, <1>6 DEF Q

(***************************************************************************)
(* Sums                                                                    *)
(***************************************************************************)

-----------------------------------------------------------------------------
(***************************************************************************)
(* Sums.  SumOf is the fold the reports are written with; what a sum over  *)
(* a finite set is, in any order, follows by induction on a set of numbers *)
(* or of subsets.                                                          *)
(***************************************************************************)
SumOf(g) == FoldFunction(+, 0, g)

\* The element FoldFunction takes next.
Pick(s) == CHOOSE x \in s : TRUE

\* The recursion the fold runs, on the subsets in D.
FoldEq(h, D, g) == h = [s \in D |-> IF s = {} THEN 0 ELSE g[Pick(s)] + h[s \ {Pick(s)}]]

\* FoldFunction with + is the fold over the subsets of the domain.
LEMMA SumIsFold ==
    ASSUME NEW g
    PROVE  SumOf(g) = (CHOOSE h : FoldEq(h, SUBSET (DOMAIN g), g))[DOMAIN g]
  BY DEF SumOf, FoldFunction, FoldFunctionOnSet, MapThenFoldSet, FoldEq, Pick

LEMMA PickIn == ASSUME NEW s, s # {} PROVE Pick(s) \in s
  BY DEF Pick

\* The fold is defined on every finite set.
LEMMA FoldExists ==
    ASSUME NEW S, IsFiniteSet(S), NEW g
    PROVE  \E h : FoldEq(h, SUBSET S, g)
  <1> DEFINE D(n) == {s \in SUBSET S : Cardinality(s) <= n}
             Q == {n \in Nat : \E h : FoldEq(h, D(n), g)}
  <1>1. ASSUME NEW s \in SUBSET S PROVE IsFiniteSet(s) /\ Cardinality(s) \in Nat
    BY FS_Subset, FS_CardinalityType
  <1>2. 0 \in Q
    <2>1. ASSUME NEW s \in D(0) PROVE s = {}
      BY <1>1, FS_EmptySet
    <2> DEFINE h == [s \in D(0) |-> 0]
    <2>2. FoldEq(h, D(0), g)
      BY <2>1 DEF FoldEq
    <2> QED
      BY <2>2
  <1>3. ASSUME NEW n \in Q PROVE n + 1 \in Q
    <2>1. PICK h : FoldEq(h, D(n), g)
      BY <1>3
    <2> DEFINE h2 == [s \in D(n + 1) |-> IF s = {} THEN 0 ELSE g[Pick(s)] + h[s \ {Pick(s)}]]
    <2>2. ASSUME NEW u \in D(n) PROVE u \in D(n + 1) /\ h2[u] = h[u]
      <3>1. u \in D(n + 1)
        BY <1>1
      <3>2. h[u] = IF u = {} THEN 0 ELSE g[Pick(u)] + h[u \ {Pick(u)}]
        BY <2>1 DEF FoldEq
      <3> QED
        BY <3>1, <3>2
    <2>3. ASSUME NEW s \in D(n + 1), s # {} PROVE s \ {Pick(s)} \in D(n)
      <3>1. Pick(s) \in s
        BY <2>3, PickIn
      <3>2. Cardinality(s \ {Pick(s)}) = Cardinality(s) - 1
        BY <1>1, <3>1, FS_RemoveElement
      <3> QED
        BY <1>1, <3>2
    <2>4. ASSUME NEW s \in D(n + 1)
          PROVE  h2[s] = IF s = {} THEN 0 ELSE g[Pick(s)] + h2[s \ {Pick(s)}]
      BY <2>2, <2>3
    <2>5. h2 = [s \in D(n + 1) |-> h2[s]]
      OBVIOUS
    <2>6. FoldEq(h2, D(n + 1), g)
      <3> HIDE DEF h2, D
      <3> QED
        BY <2>4, <2>5 DEF FoldEq
    <2> HIDE DEF h2
    <2>7. n + 1 \in Nat
      BY <1>3
    <2>8. \E f : FoldEq(f, D(n + 1), g)
      BY <2>6
    <2> HIDE DEF D
    <2> QED
      BY <2>7, <2>8
  <1>4. Q \in SUBSET Nat
    OBVIOUS
  <1> HIDE DEF Q
  <1>5. Q = Nat
    BY <1>2, <1>3, <1>4, NatInduct
  <1>6. Cardinality(S) \in Q
    BY <1>1, <1>5
  <1>7. D(Cardinality(S)) = SUBSET S
    <2>1. ASSUME NEW s \in SUBSET S PROVE Cardinality(s) <= Cardinality(S)
      BY FS_Subset
    <2> QED
      BY <2>1
  <1> QED
    BY <1>6, <1>7 DEF Q

FoldOn(h, S, g) == FoldEq(h, SUBSET S, g)
Agree(g, k, T) == \A x \in T : g[x] = k[x]

\* The fold over S restricted to a subset is the fold over the subset.
LEMMA FoldAgree ==
    ASSUME NEW S, IsFiniteSet(S), NEW T, T \subseteq S, NEW g, NEW k, Agree(g, k, T),
           NEW h, FoldOn(h, S, g), NEW j, FoldOn(j, T, k)
    PROVE  h[T] = j[T]
  <1> DEFINE Q == {n \in Nat : \A s \in SUBSET T : Cardinality(s) = n => h[s] = j[s]}
  <1>1. ASSUME NEW s \in SUBSET T PROVE IsFiniteSet(s) /\ Cardinality(s) \in Nat /\ s \in SUBSET S
    BY FS_Subset, FS_CardinalityType
  <1>2. ASSUME NEW s \in SUBSET T
        PROVE  /\ h[s] = IF s = {} THEN 0 ELSE g[Pick(s)] + h[s \ {Pick(s)}]
               /\ j[s] = IF s = {} THEN 0 ELSE k[Pick(s)] + j[s \ {Pick(s)}]
    BY <1>1 DEF FoldEq, FoldOn
  <1>3. 0 \in Q
    <2>1. ASSUME NEW s \in SUBSET T, Cardinality(s) = 0 PROVE h[s] = j[s]
      <3>1. s = {}
        BY <1>1, <2>1, FS_EmptySet
      <3> QED
        BY <1>2, <3>1
    <2> QED
      BY <2>1
  <1>4. ASSUME NEW n \in Q PROVE n + 1 \in Q
    <2>1. ASSUME NEW s \in SUBSET T, Cardinality(s) = n + 1 PROVE h[s] = j[s]
      <3>0. n \in Nat /\ Cardinality({}) = 0
        BY <1>4, FS_EmptySet
      <3>1. s # {}
        BY <2>1, <3>0
      <3>2. Pick(s) \in s
        BY <3>1, PickIn
      <3>3. Cardinality(s \ {Pick(s)}) = n /\ s \ {Pick(s)} \in SUBSET T
        <4>1. Cardinality(s \ {Pick(s)}) = Cardinality(s) - 1
          BY <1>1, <3>2, FS_RemoveElement
        <4> QED
          BY <1>4, <2>1, <4>1
      <3>4. h[s \ {Pick(s)}] = j[s \ {Pick(s)}]
        BY <1>4, <3>3
      <3>5. g[Pick(s)] = k[Pick(s)]
        BY <3>2 DEF Agree
      <3> QED
        BY <1>2, <3>1, <3>4, <3>5
    <2> QED
      BY <1>4, <2>1
  <1>5. Q \in SUBSET Nat
    OBVIOUS
  <1> HIDE DEF Q
  <1>6. Q = Nat
    BY <1>3, <1>4, <1>5, NatInduct
  <1>7. T \in SUBSET T /\ Cardinality(T) \in Q
    BY <1>1, <1>6
  <1> QED
    BY <1>7 DEF Q

\* A sum over a subset, as a sum of its own.
Part(g, T) == [x \in T |-> g[x]]

LEMMA SumEmpty == ASSUME NEW g, DOMAIN g = {} PROVE SumOf(g) = 0
  <1>1. IsFiniteSet({})
    BY FS_EmptySet
  <1>2. \E h : FoldEq(h, SUBSET {}, g)
    BY <1>1, FoldExists
  <1>3. PICK h : h = (CHOOSE f : FoldEq(f, SUBSET {}, g)) /\ FoldEq(h, SUBSET {}, g)
    BY <1>2
  <1>4. h[{}] = 0
    BY <1>3 DEF FoldEq
  <1> QED
    BY <1>3, <1>4, SumIsFold

\* One element taken out, the one the fold takes first.
LEMMA SumPick ==
    ASSUME NEW S, IsFiniteSet(S), S # {}, NEW g, DOMAIN g = S
    PROVE  SumOf(g) = g[Pick(S)] + SumOf(Part(g, S \ {Pick(S)}))
  <1> SUFFICES ASSUME NEW T, T = S \ {Pick(S)}, NEW k, k = Part(g, T)
               PROVE  SumOf(g) = g[Pick(S)] + SumOf(k)
    OBVIOUS
  <1>1. Pick(S) \in S
    BY PickIn
  <1>2. IsFiniteSet(T) /\ T \subseteq S
    BY FS_Subset
  <1>3. DOMAIN k = T /\ Agree(g, k, T)
    BY DEF Part, Agree
  <1>4. PICK h : h = (CHOOSE f : FoldEq(f, SUBSET S, g)) /\ FoldEq(h, SUBSET S, g)
    BY FoldExists
  <1>5. PICK j : j = (CHOOSE f : FoldEq(f, SUBSET T, k)) /\ FoldEq(j, SUBSET T, k)
    BY <1>2, FoldExists
  <1>6. SumOf(g) = h[S] /\ SumOf(k) = j[T]
    BY <1>3, <1>4, <1>5, SumIsFold
  <1>7. h[S] = g[Pick(S)] + h[S \ {Pick(S)}]
    BY <1>4 DEF FoldEq
  <1>8. FoldOn(h, S, g) /\ FoldOn(j, T, k)
    BY <1>4, <1>5 DEF FoldOn
  <1>9. h[T] = j[T]
    BY <1>2, <1>3, <1>8, FoldAgree
  <1> QED
    BY <1>6, <1>7, <1>9

-----------------------------------------------------------------------------
\* The sum of g over T.
SumAt(g, T) == SumOf(Part(g, T))
Nats(g, T) == \A x \in T : g[x] \in Nat

LEMMA SumAtAgree == ASSUME NEW g, NEW k, NEW T, Agree(g, k, T) PROVE SumAt(g, T) = SumAt(k, T)
  <1>1. Part(g, T) = Part(k, T)
    BY DEF Agree, Part
  <1> QED
    BY <1>1 DEF SumAt

LEMMA SumAtEmpty == ASSUME NEW g PROVE SumAt(g, {}) = 0
  BY SumEmpty DEF SumAt, Part

\* Taking one element off.
LEMMA SumAtPick ==
    ASSUME NEW S, IsFiniteSet(S), S # {}, NEW g
    PROVE  SumAt(g, S) = g[Pick(S)] + SumAt(g, S \ {Pick(S)})
  <1> SUFFICES ASSUME NEW T, T = S \ {Pick(S)}, NEW k, k = Part(g, S)
               PROVE  SumOf(k) = g[Pick(S)] + SumOf(Part(g, T))
    BY DEF SumAt
  <1>1. Pick(S) \in S
    BY PickIn
  <1>2. DOMAIN k = S /\ k[Pick(S)] = g[Pick(S)] /\ Part(k, T) = Part(g, T)
    BY <1>1 DEF Part
  <1>3. SumOf(k) = k[Pick(S)] + SumOf(Part(k, S \ {Pick(S)}))
    BY <1>2, SumPick
  <1> QED
    BY <1>2, <1>3

\* A sum of naturals is a natural.
LEMMA SumAtNat ==
    ASSUME NEW S, IsFiniteSet(S), NEW g, Nats(g, S)
    PROVE  SumAt(g, S) \in Nat
  <1> DEFINE Q == {n \in Nat : \A T \in SUBSET S : Cardinality(T) = n => SumAt(g, T) \in Nat}
  <1>1. ASSUME NEW T \in SUBSET S PROVE IsFiniteSet(T) /\ Cardinality(T) \in Nat
    BY FS_Subset, FS_CardinalityType
  <1>2. 0 \in Q
    <2>1. ASSUME NEW T \in SUBSET S, Cardinality(T) = 0 PROVE SumAt(g, T) \in Nat
      <3>1. T = {}
        BY <1>1, <2>1, FS_EmptySet
      <3> QED
        BY <3>1, SumAtEmpty
    <2> QED
      BY <2>1
  <1>3. ASSUME NEW n \in Q PROVE n + 1 \in Q
    <2>0. n \in Nat /\ Cardinality({}) = 0
      BY <1>3, FS_EmptySet
    <2>1. ASSUME NEW T \in SUBSET S, Cardinality(T) = n + 1 PROVE SumAt(g, T) \in Nat
      <3> DEFINE c == Pick(T)
      <3>1. T # {}
        BY <2>0, <2>1
      <3>2. c \in T
        BY <3>1, PickIn
      <3>3. Cardinality(T \ {c}) = Cardinality(T) - 1
        BY <1>1, <3>2, FS_RemoveElement
      <3>4. SumAt(g, T \ {c}) \in Nat
        BY <1>3, <2>0, <2>1, <3>3
      <3>5. SumAt(g, T) = g[c] + SumAt(g, T \ {c})
        BY <1>1, <3>1, SumAtPick
      <3>6. g[c] \in Nat
        BY <3>2 DEF Nats
      <3> QED
        BY <3>4, <3>5, <3>6
    <2> QED
      BY <2>0, <2>1
  <1>4. Q \in SUBSET Nat
    OBVIOUS
  <1> HIDE DEF Q
  <1>5. Q = Nat
    BY <1>2, <1>3, <1>4, NatInduct
  <1>6. S \in SUBSET S /\ Cardinality(S) \in Q
    BY <1>1, <1>5
  <1> QED
    BY <1>6 DEF Q

\* The order in which the elements are taken does not matter.
LEMMA SumAtTake ==
    ASSUME NEW S, IsFiniteSet(S), NEW g, Nats(g, S)
    PROVE  SumAt(g, S) \in Nat /\ \A x \in S : SumAt(g, S) = g[x] + SumAt(g, S \ {x})
  <1> DEFINE Good(T) == SumAt(g, T) \in Nat /\ \A x \in T : SumAt(g, T) = g[x] + SumAt(g, T \ {x})
             Q == {n \in Nat : \A T \in SUBSET S : Cardinality(T) = n => Good(T)}
  <1>1. ASSUME NEW T \in SUBSET S PROVE IsFiniteSet(T) /\ Cardinality(T) \in Nat
    BY FS_Subset, FS_CardinalityType
  <1>2. 0 \in Q
    <2>1. ASSUME NEW T \in SUBSET S, Cardinality(T) = 0 PROVE Good(T)
      <3>1. T = {}
        BY <1>1, <2>1, FS_EmptySet
      <3> QED
        BY <3>1, SumAtEmpty
    <2> QED
      BY <2>1
  <1>3. ASSUME NEW n \in Q PROVE n + 1 \in Q
    <2>0. n \in Nat /\ Cardinality({}) = 0
      BY <1>3, FS_EmptySet
    <2>1. ASSUME NEW T \in SUBSET S, Cardinality(T) = n + 1 PROVE Good(T)
      <3> DEFINE c == Pick(T)
      <3>1. T # {}
        BY <2>0, <2>1
      <3>2. c \in T
        BY <3>1, PickIn
      <3>3. ASSUME NEW x \in T PROVE Good(T \ {x})
        <4>1. Cardinality(T \ {x}) = Cardinality(T) - 1
          BY <1>1, FS_RemoveElement
        <4>2. Cardinality(T \ {x}) = n /\ T \ {x} \in SUBSET S
          BY <2>0, <2>1, <4>1
        <4> HIDE DEF Good
        <4> QED
          BY <1>3, <4>2
      <3>4. SumAt(g, T) = g[c] + SumAt(g, T \ {c})
        BY <1>1, <3>1, SumAtPick
      <3>5. g[c] \in Nat /\ \A x \in T : g[x] \in Nat
        BY <3>2 DEF Nats
      <3> HIDE DEF c
      <3>6. SumAt(g, T) \in Nat
        BY <3>2, <3>3, <3>4, <3>5
      <3>7. ASSUME NEW x \in T PROVE SumAt(g, T) = g[x] + SumAt(g, T \ {x})
        <4>1. CASE x = c
          BY <3>4, <4>1
        <4>2. CASE x # c
          <5>1. SumAt(g, T \ {c}) = g[x] + SumAt(g, (T \ {c}) \ {x})
            BY <3>2, <3>3, <4>2
          <5>2. SumAt(g, T \ {x}) = g[c] + SumAt(g, (T \ {x}) \ {c})
            BY <3>2, <3>3, <4>2
          <5>3. (T \ {c}) \ {x} = (T \ {x}) \ {c}
            OBVIOUS
          <5>4. SumAt(g, (T \ {x}) \ {c}) \in Nat
            <6>1. IsFiniteSet((T \ {x}) \ {c})
              BY <1>1
            <6>2. Nats(g, (T \ {x}) \ {c})
              BY <3>5 DEF Nats
            <6> QED
              BY <6>1, <6>2, SumAtNat
          <5> QED
            BY <3>4, <3>5, <5>1, <5>2, <5>3, <5>4
        <4> QED
          BY <4>1, <4>2
      <3> QED
        BY <3>6, <3>7
    <2> HIDE DEF Good
    <2>2. n + 1 \in Nat
      BY <2>0
    <2> QED
      BY <2>1, <2>2
  <1>4. Q \in SUBSET Nat
    OBVIOUS
  <1> HIDE DEF Q
  <1>5. Q = Nat
    BY <1>2, <1>3, <1>4, NatInduct
  <1>6. S \in SUBSET S /\ Cardinality(S) \in Q
    BY <1>1, <1>5
  <1> QED
    BY <1>6 DEF Q

\* Adding one element.
LEMMA SumAtAdd ==
    ASSUME NEW S, IsFiniteSet(S), NEW x, x \notin S, NEW g, Nats(g, S), g[x] \in Nat
    PROVE  SumAt(g, S \cup {x}) = g[x] + SumAt(g, S)
  <1>1. IsFiniteSet(S \cup {x}) /\ (S \cup {x}) \ {x} = S /\ x \in S \cup {x}
    BY FS_AddElement
  <1>2. Nats(g, S \cup {x})
    BY DEF Nats
  <1> QED
    BY <1>1, <1>2, SumAtTake

(***************************************************************************)
(* Least elements and recursions over 0 .. N                               *)
(***************************************************************************)

\* Every non-empty set of naturals has its least element.
LEMMA LeastNat ==
    ASSUME NEW S \in SUBSET Nat, S # {}
    PROVE  Min(S) \in S /\ \A y \in S : Min(S) <= y
  <1> DEFINE R == OpToRel(<, Nat)
  <1>1. IsWellFoundedOn(R, Nat)
    BY NatLessThanWellFounded
  <1> HIDE DEF R
  <1>2. PICK x \in S : \A y \in S : ~ (<<y, x>> \in R)
    BY <1>1, WFMin
  <1>3. \A y \in S : ~(y < x)
    BY <1>2 DEF R, OpToRel
  <1>4. \A y \in S : x <= y
    BY <1>3
  <1> QED
    BY <1>4 DEF Min

\* A recursion over 0 .. N has a solution.
RecEq(f, N, b, g) == f = [m \in 0 .. N |-> IF m = 0 THEN b ELSE g[<<m, f[m - 1]>>]]

LEMMA RecExists ==
    ASSUME NEW N \in Nat, NEW b, NEW g
    PROVE  \E f : RecEq(f, N, b, g)
  <1> DEFINE Q == {n \in Nat : \E f : RecEq(f, n, b, g)}
  <1>1. 0 \in Q
    <2> DEFINE f == [m \in 0 .. 0 |-> b]
    <2>1. RecEq(f, 0, b, g)
      BY DEF RecEq
    <2> QED
      BY <2>1
  <1>2. ASSUME NEW n \in Q PROVE n + 1 \in Q
    <2>1. PICK f : RecEq(f, n, b, g)
      BY <1>2
    <2> DEFINE h == [m \in 0 .. n + 1 |-> IF m = 0 THEN b ELSE g[<<m, f[m - 1]>>]]
    <2>2. n \in Nat
      BY <1>2
    <2>3. ASSUME NEW m \in 0 .. n PROVE h[m] = f[m]
      <3>1. f[m] = IF m = 0 THEN b ELSE g[<<m, f[m - 1]>>]
        BY <2>1 DEF RecEq
      <3> QED
        BY <2>2, <3>1
    <2>4. ASSUME NEW m \in 0 .. n + 1 PROVE h[m] = IF m = 0 THEN b ELSE g[<<m, h[m - 1]>>]
      <3>1. CASE m = 0
        BY <2>2, <3>1
      <3>2. CASE m # 0
        <4>1. m - 1 \in 0 .. n
          BY <2>2, <3>2
        <4>2. h[m - 1] = f[m - 1]
          BY <2>3, <4>1
        <4>3. h[m] = g[<<m, f[m - 1]>>]
          BY <3>2
        <4> QED
          BY <3>2, <4>2, <4>3
      <3> QED
        BY <3>1, <3>2
    <2>5. h = [m \in 0 .. n + 1 |-> h[m]]
      OBVIOUS
    <2>6. RecEq(h, n + 1, b, g)
      <3> HIDE DEF h
      <3> QED
        BY <2>4, <2>5 DEF RecEq
    <2> HIDE DEF h
    <2> QED
      BY <2>2, <2>6
  <1>3. Q \in SUBSET Nat
    OBVIOUS
  <1> HIDE DEF Q
  <1>4. Q = Nat
    BY <1>1, <1>2, <1>3, NatInduct
  <1> QED
    BY <1>4 DEF Q

\* Its values, when every step stays in A.
LEMMA RecTyped ==
    ASSUME NEW N \in Nat, NEW A, NEW b \in A, NEW g, \A m \in 1 .. N, a \in A : g[<<m, a>>] \in A,
           NEW f, RecEq(f, N, b, g)
    PROVE  /\ f \in [0 .. N -> A] /\ f[0] = b
           /\ \A m \in 1 .. N : f[m] = g[<<m, f[m - 1]>>]
  <1> DEFINE Q == {n \in Nat : n <= N => f[n] \in A}
  <1>1. ASSUME NEW m \in 0 .. N PROVE f[m] = IF m = 0 THEN b ELSE g[<<m, f[m - 1]>>]
    BY DEF RecEq
  <1>2. f[0] = b /\ \A m \in 1 .. N : f[m] = g[<<m, f[m - 1]>>]
    <2>1. 0 \in 0 .. N
      OBVIOUS
    <2>2. f[0] = b
      BY <1>1, <2>1
    <2>3. ASSUME NEW m \in 1 .. N PROVE f[m] = g[<<m, f[m - 1]>>]
      <3>1. m \in 0 .. N /\ m # 0
        OBVIOUS
      <3> QED
        BY <1>1, <3>1
    <2> QED
      BY <2>2, <2>3
  <1>3. 0 \in Q
    BY <1>2
  <1>4. ASSUME NEW n \in Q PROVE n + 1 \in Q
    <2>1. ASSUME n + 1 <= N PROVE f[n + 1] \in A
      <3>1. n + 1 \in 1 .. N /\ (n + 1) - 1 = n /\ f[n] \in A
        BY <1>4, <2>1
      <3> QED
        BY <1>2, <3>1
    <2> QED
      BY <1>4, <2>1
  <1>5. Q \in SUBSET Nat
    OBVIOUS
  <1> HIDE DEF Q
  <1>6. Q = Nat
    BY <1>3, <1>4, <1>5, NatInduct
  <1>7. \A n \in 0 .. N : f[n] \in A
    BY <1>6 DEF Q
  <1>8. f = [m \in 0 .. N |-> f[m]]
    BY DEF RecEq
  <1> QED
    BY <1>2, <1>7, <1>8

(***************************************************************************)
(* The partition table                                                     *)
(***************************************************************************)

-----------------------------------------------------------------------------
(***************************************************************************)
(* The partition table.                                                    *)
(***************************************************************************)
Times(n, time) == \A m \in 1 .. n, j \in 0 .. Layers : \A i \in 0 .. j - 1 : time[<<m, i, j>>] \in Nat

Firsts == [j \in 0 .. Layers |-> IF j = 0 THEN 0 ELSE Inf]
Options(prev, time, m, j) == {Inf} \cup {larger(prev[i], time[<<m, i, j>>]) : i \in 0 .. j - 1}
RowAfterStage(prev, time, m) == [j \in 0 .. Layers |-> Min(Options(prev, time, m, j))]
DpRows == [0 .. Layers -> Nat]

DpFacts(dp, n, time) ==
    /\ dp \in [0 .. n -> DpRows] /\ dp[0] = Firsts
    /\ \A m \in 1 .. n : dp[m] = RowAfterStage(dp[m - 1], time, m)

LEMMA InfIsNat == Inf \in Nat /\ Inf > 0
  BY DEF Inf

\* What a cell chooses from is a non-empty set of naturals.
LEMMA OptionsNat ==
    ASSUME NEW n \in Nat, NEW time, Times(n, time), NEW prev \in DpRows, NEW m \in 1 .. n, NEW j \in 0 .. Layers
    PROVE  Options(prev, time, m, j) \in SUBSET Nat /\ Inf \in Options(prev, time, m, j)
  <1>1. ASSUME NEW i \in 0 .. j - 1 PROVE larger(prev[i], time[<<m, i, j>>]) \in Nat
    <2>1. time[<<m, i, j>>] \in Nat
      BY DEF Times
    <2>2. prev[i] \in Nat
      BY PartitionAssumption DEF DpRows
    <2> QED
      BY <2>1, <2>2 DEF larger
  <1> QED
    BY <1>1, InfIsNat DEF Options

\* dpTable solves its recursion, row by row.
LEMMA DpTable ==
    ASSUME NEW n \in Nat, NEW time, Times(n, time)
    PROVE  DpFacts(dpTable(n, time), n, time)
  <1> DEFINE g == [x \in (1 .. n) \X DpRows |-> RowAfterStage(x[2], time, x[1])]
             Eq(f) == f = [m \in 0 .. n |-> IF m = 0 THEN Firsts ELSE RowAfterStage(f[m - 1], time, m)]
  <1>1. Firsts \in DpRows
    BY InfIsNat DEF Firsts, DpRows
  <1>2. ASSUME NEW m \in 1 .. n, NEW a \in DpRows PROVE RowAfterStage(a, time, m) \in DpRows
    <2>1. ASSUME NEW j \in 0 .. Layers PROVE Min(Options(a, time, m, j)) \in Nat
      <3>1. Options(a, time, m, j) \in SUBSET Nat /\ Options(a, time, m, j) # {}
        BY OptionsNat
      <3> QED
        BY <3>1, LeastNat
    <2> QED
      BY <2>1 DEF RowAfterStage, DpRows
  <1>3. \A m \in 1 .. n, a \in DpRows : g[<<m, a>>] = RowAfterStage(a, time, m)
    OBVIOUS
  <1> HIDE DEF g
  <1>4. \A m \in 1 .. n, a \in DpRows : g[<<m, a>>] \in DpRows
    BY <1>2, <1>3
  <1>5. ASSUME NEW f, RecEq(f, n, Firsts, g) PROVE Eq(f)
    <2>1. f \in [0 .. n -> DpRows]
      BY <1>1, <1>4, <1>5, RecTyped
    <2>2. ASSUME NEW m \in 0 .. n PROVE f[m] = IF m = 0 THEN Firsts ELSE RowAfterStage(f[m - 1], time, m)
      <3>1. f[m] = IF m = 0 THEN Firsts ELSE g[<<m, f[m - 1]>>]
        BY <1>5 DEF RecEq
      <3>2. m # 0 => m \in 1 .. n /\ f[m - 1] \in DpRows
        BY <2>1
      <3>3. m # 0 => g[<<m, f[m - 1]>>] = RowAfterStage(f[m - 1], time, m)
        BY <1>3, <3>2
      <3> QED
        BY <3>1, <3>3
    <2> QED
      BY <2>1, <2>2
  <1>6. \E f : Eq(f)
    BY <1>5, RecExists
  <1>7. dpTable(n, time) = CHOOSE f : Eq(f)
    BY DEF dpTable, RowAfterStage, Options, Firsts
  <1>8. ASSUME NEW f, Eq(f) PROVE DpFacts(f, n, time)
    <2> DEFINE Q == {k \in Nat : k <= n => f[k] \in DpRows}
    <2>1. ASSUME NEW m \in 0 .. n PROVE f[m] = IF m = 0 THEN Firsts ELSE RowAfterStage(f[m - 1], time, m)
      BY <1>8
    <2>2. f[0] = Firsts
      <3>1. 0 \in 0 .. n
        OBVIOUS
      <3> QED
        BY <2>1, <3>1
    <2>3. ASSUME NEW m \in 1 .. n PROVE f[m] = RowAfterStage(f[m - 1], time, m)
      <3>1. m \in 0 .. n /\ m # 0
        OBVIOUS
      <3> QED
        BY <2>1, <3>1
    <2>4. 0 \in Q
      BY <1>1, <2>2
    <2>5. ASSUME NEW k \in Q PROVE k + 1 \in Q
      <3>1. ASSUME k + 1 <= n PROVE f[k + 1] \in DpRows
        <4>1. k + 1 \in 1 .. n /\ (k + 1) - 1 = k /\ f[k] \in DpRows
          BY <2>5, <3>1
        <4> QED
          BY <1>2, <2>3, <4>1
      <3> QED
        BY <2>5, <3>1
    <2>6. Q \in SUBSET Nat
      OBVIOUS
    <2> HIDE DEF Q
    <2>7. Q = Nat
      BY <2>4, <2>5, <2>6, NatInduct
    <2>8. \A k \in 0 .. n : f[k] \in DpRows
      BY <2>7 DEF Q
    <2>9. f = [m \in 0 .. n |-> f[m]]
      BY <1>8
    <2>10. f \in [0 .. n -> DpRows]
      BY <2>8, <2>9
    <2> QED
      BY <2>2, <2>3, <2>10 DEF DpFacts
  <1> HIDE DEF Eq
  <1>9. Eq(dpTable(n, time))
    BY <1>6, <1>7
  <1> QED
    BY <1>8, <1>9

(***************************************************************************)
(* The ends of the shards, followed back from the last                     *)
(***************************************************************************)

\* Its cells are naturals.
LEMMA DpNat ==
    ASSUME NEW n \in Nat, NEW time, NEW dp, DpFacts(dp, n, time), NEW m \in 0 .. n, NEW j \in 0 .. Layers
    PROVE  dp[m][j] \in Nat
  BY DEF DpFacts, DpRows

\* One cell: no option is less, and a finite one is an option that its cut attains.
LEMMA DpCell ==
    ASSUME NEW n \in Nat, NEW time, Times(n, time), NEW dp, DpFacts(dp, n, time), NEW m \in 1 .. n, NEW j \in 0 .. Layers
    PROVE  /\ dp[m][j] \in Nat /\ dp[m][j] <= Inf
           /\ \A i \in 0 .. j - 1 : dp[m - 1][i] \in Nat /\ dp[m][j] <= larger(dp[m - 1][i], time[<<m, i, j>>])
           /\ dp[m][j] < Inf => LET c == dpCut(dp, time, m, j) IN
                c \in 0 .. j - 1 /\ larger(dp[m - 1][c], time[<<m, c, j>>]) = dp[m][j]
  <1> DEFINE P == dp[m - 1]
             O == Options(P, time, m, j)
             C == {i \in 0 .. j - 1 : larger(dp[m - 1][i], time[<<m, i, j>>]) = dp[m][j]}
  <1>1. m - 1 \in 0 .. n /\ P \in DpRows
    BY DEF DpFacts
  <1>2. O \in SUBSET Nat /\ Inf \in O
    BY <1>1, OptionsNat
  <1>3. dp[m][j] = Min(O)
    BY DEF DpFacts, RowAfterStage
  <1> HIDE DEF O
  <1>4. dp[m][j] \in O /\ \A y \in O : dp[m][j] <= y
    BY <1>2, <1>3, LeastNat
  <1>5. ASSUME NEW i \in 0 .. j - 1 PROVE P[i] \in Nat /\ larger(P[i], time[<<m, i, j>>]) \in O
    <2>1. i \in 0 .. Layers
      BY PartitionAssumption
    <2>2. P[i] \in Nat
      BY <1>1, <2>1 DEF DpRows
    <2> QED
      BY <2>2 DEF O, Options
  <1>6. ASSUME dp[m][j] < Inf
        PROVE  dpCut(dp, time, m, j) \in 0 .. j - 1 /\ larger(P[dpCut(dp, time, m, j)], time[<<m, dpCut(dp, time, m, j), j>>]) = dp[m][j]
    <2>1. dp[m][j] # Inf
      BY <1>2, <1>4, <1>6
    <2>2. PICK i \in 0 .. j - 1 : dp[m][j] = larger(P[i], time[<<m, i, j>>])
      BY <1>4, <2>1 DEF O, Options
    <2>3. C \in SUBSET Nat /\ C # {}
      BY <2>2
    <2>4. dpCut(dp, time, m, j) = Min(C)
      BY DEF dpCut
    <2> HIDE DEF C
    <2>5. dpCut(dp, time, m, j) \in C
      BY <2>3, <2>4, LeastNat
    <2> QED
      BY <2>5 DEF C
  <1>7. dp[m][j] \in Nat /\ dp[m][j] <= Inf
    BY <1>2, <1>4
  <1> QED
    BY <1>4, <1>5, <1>6, <1>7

\* The ends of the shards: no shard is empty, the last takes what is left, and none is slower
\* than the bottleneck.
EndsOf(e, used, time, b) ==
    /\ e \in [1 .. used -> 1 .. Layers] /\ e[used] = Layers
    /\ \A m \in 1 .. used - 1 : e[m] < e[m + 1]
    /\ \A m \in 1 .. used : time[<<m, IF m = 1 THEN 0 ELSE e[m - 1], e[m]>>] <= b

\* Only no layer at all is placed on no node.
LEMMA DpFirst ==
    ASSUME NEW n \in Nat, NEW time, Times(n, time), NEW dp, DpFacts(dp, n, time), NEW m \in 1 .. n
    PROVE  dp[m][0] = Inf
  <1>0. 0 \in 0 .. Layers
    BY PartitionAssumption
  <1>1. dp[m][0] \in Nat /\ dp[m][0] <= Inf
    BY <1>0, DpCell
  <1>2. dp[m][0] < Inf => dpCut(dp, time, m, 0) \in 0 .. 0 - 1
    BY <1>0, DpCell
  <1> QED
    BY <1>1, <1>2, InfIsNat

\* Ends that were followed back from all layers through the cuts.
Followed(f, dp, time, used, low) ==
    /\ f = [m \in 1 .. used |-> f[m]] /\ f[used] = Layers
    /\ \A m \in low .. used - 1 : f[m] = dpCut(dp, time, m + 1, f[m + 1])

\* The recursion of dpEnds has a solution.
LEMMA FollowedExists ==
    ASSUME NEW used \in Nat \ {0}, NEW dp, NEW time
    PROVE  \E f : Followed(f, dp, time, used, 1)
  <1> DEFINE Q == {k \in Nat : k < used => \E f : Followed(f, dp, time, used, used - k)}
  <1>1. 0 \in Q
    <2> DEFINE f == [m \in 1 .. used |-> Layers]
    <2>1. Followed(f, dp, time, used, used - 0)
      BY DEF Followed
    <2> HIDE DEF f
    <2> QED
      BY <2>1
  <1>2. ASSUME NEW k \in Q PROVE k + 1 \in Q
    <2>1. ASSUME k + 1 < used PROVE \E f : Followed(f, dp, time, used, used - (k + 1))
      <3>1. PICK f : Followed(f, dp, time, used, used - k)
        BY <1>2, <2>1
      <3> DEFINE l == used - (k + 1)
                 h == [m \in 1 .. used |-> IF m = l THEN dpCut(dp, time, m + 1, f[m + 1]) ELSE f[m]]
      <3>2. l \in 1 .. used - 1 /\ l + 1 = used - k /\ k \in Nat
        BY <1>2, <2>1
      <3> HIDE DEF l
      <3>3. ASSUME NEW m \in l .. used - 1 PROVE h[m] = dpCut(dp, time, m + 1, h[m + 1])
        <4>1. m \in 1 .. used /\ m + 1 \in 1 .. used /\ m + 1 # l
          BY <3>2
        <4>2. h[m + 1] = f[m + 1]
          BY <4>1
        <4>3. CASE m = l
          BY <4>1, <4>2, <4>3
        <4>4. CASE m # l
          <5>1. m \in used - k .. used - 1
            BY <3>2, <4>4
          <5>2. f[m] = dpCut(dp, time, m + 1, f[m + 1])
            BY <3>1, <5>1 DEF Followed
          <5> QED
            BY <4>1, <4>2, <4>4, <5>2
        <4> QED
          BY <4>3, <4>4
      <3>4. h = [m \in 1 .. used |-> h[m]] /\ h[used] = Layers
        BY <3>1, <3>2 DEF Followed
      <3> HIDE DEF h
      <3>5. Followed(h, dp, time, used, l)
        BY <3>3, <3>4 DEF Followed
      <3> QED
        BY <3>5 DEF l
    <2> QED
      BY <1>2, <2>1
  <1>3. Q \in SUBSET Nat
    OBVIOUS
  <1> HIDE DEF Q
  <1>4. Q = Nat
    BY <1>1, <1>2, <1>3, NatInduct
  <1>5. used - 1 \in Q /\ used - 1 < used /\ used - (used - 1) = 1
    BY <1>4
  <1> QED
    BY <1>5 DEF Q

\* The cells they pass through are no slower than the last.
LEMMA FollowedCells ==
    ASSUME NEW n \in Nat, NEW time, Times(n, time), NEW dp, DpFacts(dp, n, time),
           NEW used \in 1 .. n, NEW b \in Nat, dp[used][Layers] <= b, b < Inf, NEW f, Followed(f, dp, time, used, 1)
    PROVE  \A m \in 1 .. used : f[m] \in 1 .. Layers /\ dp[m][f[m]] <= b
  <1> DEFINE Good(m) == f[m] \in 1 .. Layers /\ dp[m][f[m]] <= b
             Q == {k \in Nat : k < used => Good(used - k)}
  <1> Layers \in Nat /\ Layers \in 1 .. Layers
    BY PartitionAssumption
  <1>1. 0 \in Q
    BY DEF Followed
  <1>2. ASSUME NEW k \in Q PROVE k + 1 \in Q
    <2>1. ASSUME k + 1 < used PROVE Good(used - (k + 1))
      <3>1. PICK m : m = used - (k + 1)
        OBVIOUS
      <3>2. m \in 1 .. used - 1 /\ m + 1 = used - k /\ m + 1 \in 1 .. n /\ m \in 1 .. n /\ (m + 1) - 1 = m /\ k < used
        BY <1>2, <2>1, <3>1
      <3>3. Good(m + 1)
        BY <1>2, <3>2
      <3>4. f[m] = dpCut(dp, time, m + 1, f[m + 1])
        BY <3>2 DEF Followed
      <3>a. f[m + 1] \in 0 .. Layers
        BY <3>3
      <3>b. dp[m + 1][f[m + 1]] \in Nat
        <4>1. m + 1 \in 0 .. n
          BY <3>2
        <4> QED
          BY <3>a, <4>1, DpNat
      <3>5. f[m + 1] \in 0 .. Layers /\ dp[m + 1][f[m + 1]] \in Nat /\ dp[m + 1][f[m + 1]] < Inf
        BY <3>3, <3>a, <3>b, InfIsNat
      <3>6. f[m] \in 0 .. f[m + 1] - 1 /\ larger(dp[m][f[m]], time[<<m + 1, f[m], f[m + 1]>>]) = dp[m + 1][f[m + 1]]
        BY <3>2, <3>4, <3>5, DpCell
      <3>7. f[m] \in 0 .. Layers
        BY <3>5, <3>6
      <3>8. dp[m][f[m]] \in Nat /\ time[<<m + 1, f[m], f[m + 1]>>] \in Nat
        <4>1. dp[m][f[m]] \in Nat
          BY <3>2, <3>7, DpCell
        <4> QED
          BY <3>2, <3>5, <3>6, <4>1 DEF Times
      <3>9. dp[m][f[m]] <= b
        BY <3>3, <3>6, <3>8 DEF larger
      <3>10. f[m] # 0
        BY <3>2, <3>8, <3>9, DpFirst, InfIsNat
      <3> QED
        BY <3>1, <3>7, <3>9, <3>10
    <2> HIDE DEF Good
    <2> QED
      BY <1>2, <2>1
  <1>3. Q \in SUBSET Nat
    OBVIOUS
  <1> HIDE DEF Good
  <1> HIDE DEF Q
  <1>4. Q = Nat
    BY <1>1, <1>2, <1>3, NatInduct
  <1>5. ASSUME NEW m \in 1 .. used PROVE Good(m)
    <2>1. used - m \in Q /\ used - m < used /\ used - (used - m) = m
      BY <1>4
    <2> QED
      BY <2>1 DEF Q
  <1> QED
    BY <1>5 DEF Good

\* dpEnds: increasing ends, from above 0 to Layers, each stage within the bottleneck.
LEMMA EndsHold ==
    ASSUME NEW n \in Nat, NEW time, Times(n, time), NEW dp, DpFacts(dp, n, time),
           NEW used \in 1 .. n, NEW b \in Nat, dp[used][Layers] <= b, b < Inf
    PROVE  EndsOf(dpEnds(dp, time, used), used, time, b)
  <1> Layers \in Nat /\ Layers \in 1 .. Layers
    BY PartitionAssumption
  <1> DEFINE Eq(f) == f = [m \in 1 .. used |-> IF m = used THEN Layers ELSE dpCut(dp, time, m + 1, f[m + 1])]
             e == CHOOSE f : Eq(f)
  <1>1. ASSUME NEW f, Followed(f, dp, time, used, 1) PROVE Eq(f)
    <2>1. ASSUME NEW m \in 1 .. used PROVE f[m] = IF m = used THEN Layers ELSE dpCut(dp, time, m + 1, f[m + 1])
      <3>1. m # used => m \in 1 .. used - 1
        OBVIOUS
      <3> QED
        BY <1>1, <3>1 DEF Followed
    <2>2. f = [m \in 1 .. used |-> f[m]]
      BY <1>1 DEF Followed
    <2> QED
      BY <2>1, <2>2
  <1>2. ASSUME NEW f, Eq(f) PROVE Followed(f, dp, time, used, 1)
    <2>1. ASSUME NEW m \in 1 .. used PROVE f[m] = IF m = used THEN Layers ELSE dpCut(dp, time, m + 1, f[m + 1])
      BY <1>2
    <2>2. f = [m \in 1 .. used |-> f[m]]
      BY <1>2
    <2>3. used \in 1 .. used
      OBVIOUS
    <2>4. f[used] = Layers
      BY <2>1, <2>3
    <2>5. ASSUME NEW m \in 1 .. used - 1 PROVE f[m] = dpCut(dp, time, m + 1, f[m + 1])
      <3>1. m \in 1 .. used /\ m # used
        OBVIOUS
      <3> QED
        BY <2>1, <3>1
    <2> QED
      BY <2>2, <2>4, <2>5 DEF Followed
  <1>3. dpEnds(dp, time, used) = [m \in 1 .. used |-> e[m]]
    BY DEF dpEnds
  <1> HIDE DEF Eq
  <1>4. Eq(e)
    BY <1>1, FollowedExists
  <1> HIDE DEF e
  <1>5. Followed(e, dp, time, used, 1)
    BY <1>2, <1>4
  <1>6. dpEnds(dp, time, used) = e
    BY <1>3, <1>5 DEF Followed
  <1>7. \A m \in 1 .. used : e[m] \in 1 .. Layers /\ dp[m][e[m]] <= b
    BY <1>5, FollowedCells
  <1>8. e \in [1 .. used -> 1 .. Layers] /\ e[used] = Layers
    BY <1>5, <1>7 DEF Followed
  <1>9. ASSUME NEW m \in 1 .. used
        PROVE  /\ m < used => e[m] < e[m + 1]
               /\ time[<<m, IF m = 1 THEN 0 ELSE e[m - 1], e[m]>>] <= b
    <2> DEFINE p == IF m = 1 THEN 0 ELSE e[m - 1]
               c == dpCut(dp, time, m, e[m])
    <2>a. m \in 1 .. n /\ e[m] \in 0 .. Layers
      BY <1>7
    <2>1. m \in 1 .. n /\ e[m] \in 0 .. Layers /\ dp[m][e[m]] \in Nat /\ dp[m][e[m]] <= b
      BY <1>7, <2>a, DpCell
    <2>2. c \in 0 .. e[m] - 1 /\ larger(dp[m - 1][c], time[<<m, c, e[m]>>]) = dp[m][e[m]]
      BY <2>1, DpCell, InfIsNat
    <2>3. dp[m - 1][c] \in Nat /\ time[<<m, c, e[m]>>] \in Nat
      <3>1. dp[m - 1][c] \in Nat
        BY <2>1, <2>2, DpCell
      <3> QED
        BY <2>1, <2>2, <3>1 DEF Times
    <2>4. dp[m - 1][c] <= b /\ time[<<m, c, e[m]>>] <= b
      BY <2>1, <2>2, <2>3 DEF larger
    <2>5. c = p
      <3>1. CASE m = 1
        <4>0. c \in 0 .. Layers
          BY <2>1, <2>2
        <4>1. dp[0] = Firsts /\ c \in 0 .. Layers
          BY <4>0 DEF DpFacts
        <4>2. dp[0][c] <= b
          BY <2>4, <3>1
        <4> QED
          BY <3>1, <4>1, <4>2, InfIsNat DEF Firsts
      <3>2. CASE m # 1
        <4>1. m - 1 \in 1 .. used - 1 /\ (m - 1) + 1 = m
          BY <3>2
        <4> QED
          BY <1>5, <3>2, <4>1 DEF Followed
      <3> QED
        BY <3>1, <3>2
    <2>6. ASSUME m < used PROVE e[m] < e[m + 1]
      <3>1. m + 1 \in 1 .. used /\ m \in 1 .. used - 1 /\ m + 1 \in 1 .. n
        BY <2>6
      <3>2. e[m] = dpCut(dp, time, m + 1, e[m + 1])
        BY <1>5, <3>1 DEF Followed
      <3>a. e[m + 1] \in 0 .. Layers /\ dp[m + 1][e[m + 1]] <= b
        BY <1>7, <3>1
      <3>3. e[m + 1] \in 0 .. Layers /\ dp[m + 1][e[m + 1]] \in Nat /\ dp[m + 1][e[m + 1]] < Inf
        <4>1. m + 1 \in 0 .. n
          BY <3>1
        <4>2. dp[m + 1][e[m + 1]] \in Nat
          BY <3>a, <4>1, DpNat
        <4> QED
          BY <3>a, <4>2, InfIsNat
      <3>4. dpCut(dp, time, m + 1, e[m + 1]) \in 0 .. e[m + 1] - 1
        BY <3>1, <3>3, DpCell
      <3> QED
        BY <3>2, <3>3, <3>4
    <2> QED
      BY <2>4, <2>5, <2>6
  <1>10. ASSUME NEW m \in 1 .. used - 1 PROVE e[m] < e[m + 1]
    <2>1. m \in 1 .. used /\ m < used
      OBVIOUS
    <2> QED
      BY <1>9, <2>1
  <1>11. \A m \in 1 .. used : time[<<m, IF m = 1 THEN 0 ELSE e[m - 1], e[m]>>] <= b
    BY <1>9
  <1> QED
    BY <1>6, <1>8, <1>10, <1>11 DEF EndsOf

(***************************************************************************)
(* dpPartition                                                             *)
(***************************************************************************)

\* Hardware and links as the planner gets them.
Linked(order, links) == \A k \in 2 .. Len(order) : links[order[k - 1]][order[k]] \in Nat

LEMMA QuotientNat == ASSUME NEW a \in Nat, NEW b \in Nat \ {0} PROVE a \div b \in Nat
  OBVIOUS

LEMMA ComputeTimeNat ==
    ASSUME NEW h, Machine(h), NEW weight \in Nat, NEW l \in Nat
    PROVE  computeTime(h, weight, l) \in Nat
  <1>1. normalizeBandwidth(h.bw) \in Nat \ {0}
    BY DEF normalizeBandwidth, RefBw, Machine
  <1>2. weight * l * 2 \in Nat
    OBVIOUS
  <1> QED
    BY <1>1, <1>2, QuotientNat DEF computeTime

\* Stage times are naturals.
LEMMA StageTimesNat ==
    ASSUME NEW order, Len(order) \in Nat, NEW hw, \A k \in 1 .. Len(order) : Machine(hw[order[k]]),
           NEW links, Linked(order, links), NEW weight \in Nat, NEW kv
    PROVE  Times(Len(order), stageTimes(order, hw, links, weight, kv))
  <1> Layers \in Nat
    BY PartitionAssumption
  <1> SUFFICES ASSUME NEW m \in 1 .. Len(order), NEW j \in 0 .. Layers, NEW i \in 0 .. j - 1
               PROVE  stageTimes(order, hw, links, weight, kv)[<<m, i, j>>] \in Nat
    BY DEF Times
  <1>1. i \in 0 .. Layers /\ j - i \in Nat
    OBVIOUS
  <1>2. stageTimes(order, hw, links, weight, kv)[<<m, i, j>>] = stageTime(order, hw, links, weight, kv, m, i, j)
    BY <1>1 DEF stageTimes
  <1>3. computeTime(hw[order[m]], weight, j - i) \in Nat
    BY <1>1, ComputeTimeNat
  <1>4. m >= 2 => commTime(links, order[m - 1], order[m]) \in Nat
    <2>1. m >= 2 => m \in 2 .. Len(order)
      OBVIOUS
    <2> QED
      BY <2>1 DEF Linked, commTime
  <1>5. computeTime(hw[order[m]], weight, j - i) + (IF m >= 2 THEN commTime(links, order[m - 1], order[m]) ELSE 0) \in Nat
    BY <1>3, <1>4
  <1>6. stageTime(order, hw, links, weight, kv, m, i, j) \in Nat
    BY <1>5, InfIsNat DEF stageTime
  <1> QED
    BY <1>2, <1>6

\* What the partition returns: no bottleneck that is not in the table, and shards whose times
\* it bounds.
LEMMA PartitionHolds ==
    ASSUME NEW order, Len(order) \in Nat, NEW hw, NEW links, NEW weight, NEW kv,
           NEW time, time = stageTimes(order, hw, links, weight, kv), Times(Len(order), time),
           NEW p, p = dpPartition(order, hw, links, weight, kv),
           NEW dp, dp = dpTable(Len(order), time)
    PROVE  /\ p.bottleneck \in Nat /\ p.bottleneck <= Inf
           /\ \A m \in 1 .. Len(order) : p.bottleneck <= dp[m][Layers]
           /\ p.bottleneck < Inf => \E used \in 1 .. Len(order) :
                dp[used][Layers] = p.bottleneck /\ EndsOf(p.cuts, used, time, p.bottleneck)
  <1> DEFINE B == {Inf} \cup {dp[m][Layers] : m \in 1 .. Len(order)}
             b == Min(B)
             M == {m \in 1 .. Len(order) : dp[m][Layers] = b}
             n == Len(order)
  <1> Layers \in 0 .. Layers
    BY PartitionAssumption
  <1>1. DpFacts(dp, n, time)
    BY DpTable
  <1>2. ASSUME NEW m \in 1 .. n PROVE dp[m][Layers] \in Nat
    <2>1. m \in 0 .. n
      OBVIOUS
    <2> QED
      BY <1>1, <2>1, DpNat
  <1>3. B \in SUBSET Nat /\ B # {}
    BY <1>2, InfIsNat
  <1>4. b \in B /\ \A y \in B : b <= y
    <2> HIDE DEF B
    <2> QED
      BY <1>3, LeastNat
  <1>5. p = IF b = Inf THEN [cuts |-> <<>>, bottleneck |-> Inf]
            ELSE [cuts |-> dpEnds(dp, time, Min(M)), bottleneck |-> b]
    BY DEF dpPartition
  <1>6. p.bottleneck = b
    BY <1>5
  <1>7. b \in Nat /\ b <= Inf /\ \A m \in 1 .. n : b <= dp[m][Layers]
    BY <1>3, <1>4
  <1>8. ASSUME b < Inf PROVE \E used \in 1 .. n : dp[used][Layers] = b /\ EndsOf(p.cuts, used, time, b)
    <2>1. b # Inf
      BY <1>7, <1>8, InfIsNat
    <2> HIDE DEF b
    <2>a. PICK m \in 1 .. n : dp[m][Layers] = b
      BY <1>4, <2>1
    <2>2. M \in SUBSET Nat /\ M # {}
      BY <2>a
    <2>3. Min(M) \in M
      <3> HIDE DEF M
      <3> QED
        BY <2>2, LeastNat
    <2>4. Min(M) \in 1 .. n /\ dp[Min(M)][Layers] = b
      BY <2>3
    <2>5. p.cuts = dpEnds(dp, time, Min(M))
      BY <1>5, <2>1
    <2> HIDE DEF M, B
    <2>6. EndsOf(dpEnds(dp, time, Min(M)), Min(M), time, b)
      BY <1>1, <1>7, <1>8, <2>4, EndsHold
    <2> QED
      BY <2>4, <2>5, <2>6
  <1> HIDE DEF b
  <1> QED
    BY <1>6, <1>7, <1>8

(***************************************************************************)
(* sortedBy                                                                *)
(***************************************************************************)

-----------------------------------------------------------------------------
(***************************************************************************)
(* Rankings.                                                               *)
(***************************************************************************)
LEMMA GreatestNat ==
    ASSUME NEW S \in SUBSET Nat, IsFiniteSet(S), S # {}
    PROVE  \E x \in S : \A y \in S : y <= x
  <1> DEFINE P == {s \in SUBSET S : s = {} \/ \E x \in s : \A y \in s : y <= x}
  <1>1. {} \in P
    OBVIOUS
  <1>2. ASSUME NEW s \in SUBSET S, NEW z \in S, s \in P, z \notin s PROVE s \cup {z} \in P
    <2>1. CASE s = {}
      <3>1. \A y \in s \cup {z} : y <= z
        BY <2>1
      <3> QED
        BY <3>1
    <2>2. CASE s # {}
      <3>1. PICK x \in s : \A y \in s : y <= x
        BY <1>2, <2>2
      <3>2. CASE z <= x
        <4>1. x \in s \cup {z} /\ \A y \in s \cup {z} : y <= x
          BY <3>1, <3>2
        <4> QED
          BY <4>1
      <3>3. CASE ~(z <= x)
        <4>1. z \in s \cup {z} /\ \A y \in s \cup {z} : y <= z
          BY <3>1, <3>3
        <4> QED
          BY <4>1
      <3> QED
        BY <3>2, <3>3
    <2> QED
      BY <2>1, <2>2
  <1> HIDE DEF P
  <1>3. S \in P
    BY <1>1, <1>2, SetInduct
  <1> QED
    BY <1>3 DEF P

Before(key, a, b) == key[a] > key[b] \/ (key[a] = key[b] /\ a < b)
Ordered(s, n, key) == \A i, k \in 1 .. n : i < k => Before(key, s[i], s[k])
Keyed(S, key) == \A x \in S : key[x] \in Nat

\* A non-empty finite set has a last element in the order of keys and numbers.
LEMMA LastOf ==
    ASSUME NEW T \in SUBSET Nat, IsFiniteSet(T), T # {}, NEW key, Keyed(T, key)
    PROVE  \E x \in T : \A y \in T \ {x} : Before(key, y, x)
  <1> DEFINE K == {key[y] : y \in T}
             U == {y \in T : key[y] = Min(K)}
  <1>1. K \in SUBSET Nat /\ K # {}
    BY DEF Keyed
  <1>2. Min(K) \in K /\ \A y \in K : Min(K) <= y
    <2> HIDE DEF K
    <2> QED
      BY <1>1, LeastNat
  <1>3. PICK w \in T : key[w] = Min(K)
    BY <1>2
  <1>4. U \in SUBSET Nat /\ U # {} /\ U \subseteq T
    BY <1>3
  <1>5. IsFiniteSet(U)
    BY <1>4, FS_Subset
  <1>6. PICK x \in U : \A y \in U : y <= x
    <2> HIDE DEF U
    <2> QED
      BY <1>4, <1>5, GreatestNat
  <1>7. ASSUME NEW y \in T \ {x} PROVE Before(key, y, x)
    <2>1. key[x] = Min(K) /\ x \in Nat /\ y \in Nat /\ key[y] \in Nat /\ key[x] \in Nat
      BY <1>4, <1>6 DEF Keyed
    <2>2. Min(K) <= key[y]
      BY <1>2
    <2>3. key[y] = key[x] => y \in U
      BY <2>1
    <2>4. key[y] = key[x] => y <= x
      BY <1>6, <2>3
    <2> HIDE DEF K, U
    <2> QED
      BY <2>1, <2>2, <2>4 DEF Before
  <1> QED
    BY <1>4, <1>6, <1>7

\* A finite set can be sorted.
LEMMA SortExists ==
    ASSUME NEW S \in SUBSET Nat, IsFiniteSet(S), NEW key, Keyed(S, key)
    PROVE  \E s \in [1 .. Cardinality(S) -> S] : Ordered(s, Cardinality(S), key)
  <1> DEFINE Q == {n \in Nat : \A T \in SUBSET S : Cardinality(T) = n => \E s \in [1 .. n -> T] : Ordered(s, n, key)}
  <1>1. ASSUME NEW T \in SUBSET S PROVE IsFiniteSet(T) /\ Cardinality(T) \in Nat
    BY FS_Subset, FS_CardinalityType
  <1>2. 0 \in Q
    <2>1. ASSUME NEW T \in SUBSET S PROVE \E s \in [1 .. 0 -> T] : Ordered(s, 0, key)
      <3> DEFINE s == [i \in 1 .. 0 |-> 0]
      <3>1. s \in [1 .. 0 -> T] /\ Ordered(s, 0, key)
        BY DEF Ordered
      <3> QED
        BY <3>1
    <2> QED
      BY <2>1
  <1>3. ASSUME NEW n \in Q PROVE n + 1 \in Q
    <2>0. n \in Nat
      BY <1>3
    <2>1. ASSUME NEW T \in SUBSET S, Cardinality(T) = n + 1 PROVE \E s \in [1 .. n + 1 -> T] : Ordered(s, n + 1, key)
      <3>1. T # {}
        BY <2>0, <2>1, FS_EmptySet
      <3>2. Keyed(T, key)
        BY DEF Keyed
      <3>3. PICK x \in T : \A y \in T \ {x} : Before(key, y, x)
        BY <1>1, <3>1, <3>2, LastOf
      <3>4. Cardinality(T \ {x}) = Cardinality(T) - 1
        BY <1>1, FS_RemoveElement
      <3>5. Cardinality(T \ {x}) = n /\ T \ {x} \in SUBSET S
        BY <2>0, <2>1, <3>4
      <3>6. PICK s \in [1 .. n -> T \ {x}] : Ordered(s, n, key)
        BY <1>3, <3>5
      <3> DEFINE t == [i \in 1 .. n + 1 |-> IF i = n + 1 THEN x ELSE s[i]]
      <3>7. ASSUME NEW i \in 1 .. n PROVE s[i] \in T \ {x}
        BY <3>6
      <3>8. t \in [1 .. n + 1 -> T]
        <4>1. ASSUME NEW i \in 1 .. n + 1 PROVE t[i] \in T
          <5>1. i # n + 1 => i \in 1 .. n
            BY <2>0
          <5> QED
            BY <3>7, <5>1
        <4> QED
          BY <4>1
      <3>9. ASSUME NEW i \in 1 .. n + 1, NEW k \in 1 .. n + 1, i < k PROVE Before(key, t[i], t[k])
        <4>1. i \in 1 .. n /\ t[i] = s[i]
          BY <2>0, <3>9
        <4>2. CASE k = n + 1
          <5>1. t[k] = x
            BY <4>2
          <5> QED
            BY <3>3, <3>7, <4>1, <5>1
        <4>3. CASE k # n + 1
          <5>1. k \in 1 .. n /\ t[k] = s[k]
            BY <2>0, <4>3
          <5> QED
            BY <3>6, <3>9, <4>1, <5>1 DEF Ordered
        <4> QED
          BY <4>2, <4>3
      <3> HIDE DEF t
      <3> QED
        BY <3>8, <3>9 DEF Ordered
    <2> QED
      BY <2>0, <2>1
  <1>4. Q \in SUBSET Nat
    OBVIOUS
  <1> HIDE DEF Q
  <1>5. Q = Nat
    BY <1>2, <1>3, <1>4, NatInduct
  <1>6. S \in SUBSET S /\ Cardinality(S) \in Q
    BY <1>1, <1>5
  <1> QED
    BY <1>6 DEF Q

\* A ranking has every node once.
LEMMA SortedHolds ==
    ASSUME NEW S \in SUBSET Nat, IsFiniteSet(S), NEW key, Keyed(S, key), NEW s, s = sortedBy(S, key)
    PROVE  /\ s \in [1 .. Cardinality(S) -> S] /\ Ordered(s, Cardinality(S), key) /\ Cardinality(S) \in Nat
           /\ \A i, k \in 1 .. Cardinality(S) : s[i] = s[k] => i = k
           /\ \A x \in S : \E i \in 1 .. Cardinality(S) : s[i] = x
  <1> DEFINE n == Cardinality(S)
  <1>0. n \in Nat
    BY FS_CardinalityType
  <1>1. s = CHOOSE f \in [1 .. n -> S] : Ordered(f, n, key)
    BY DEF sortedBy, Ordered, Before
  <1>2. s \in [1 .. n -> S] /\ Ordered(s, n, key)
    BY <1>1, SortExists
  <1>3. ASSUME NEW i \in 1 .. n, NEW k \in 1 .. n, s[i] = s[k], i # k PROVE FALSE
    <2>1. ASSUME NEW a \in 1 .. n, NEW b \in 1 .. n, s[a] = s[b], a < b PROVE FALSE
      <3>1. Before(key, s[a], s[b]) /\ s[a] \in S
        BY <1>2, <2>1 DEF Ordered
      <3>2. key[s[a]] \in Nat /\ s[a] \in Nat
        BY <3>1 DEF Keyed
      <3> QED
        BY <2>1, <3>1, <3>2 DEF Before
    <2>2. i < k \/ k < i
      BY <1>0, <1>3
    <2> QED
      BY <1>3, <2>1, <2>2
  <1>4. \A x \in S : \E i \in 1 .. n : s[i] = x
    <2>1. s \in Injection(1 .. n, S)
      <3>1. \A i, k \in 1 .. n : s[i] = s[k] => i = k
        BY <1>3
      <3> QED
        BY <1>2, <3>1 DEF Injection, IsInjective
    <2>2. IsFiniteSet(1 .. n) /\ Cardinality(1 .. n) = n
      BY <1>0, FS_Interval
    <2>3. s \in Surjection(1 .. n, S)
      BY <2>1, <2>2, FS_Injection
    <2> QED
      BY <2>3 DEF Surjection
  <1> QED
    BY <1>0, <1>2, <1>3, <1>4

(***************************************************************************)
(* The Held-Karp table                                                     *)
(***************************************************************************)

-----------------------------------------------------------------------------
(***************************************************************************)
(* The Held-Karp table.                                                    *)
(***************************************************************************)
Cells(n) == (SUBSET (1 .. n)) \X (1 .. n)
\* Every edge has a cost.
Priced(n, cost) == \A i, k \in 1 .. n : cost[<<i, k>>] \in Nat

HkOptions(f, cost, S, j) == {f[<<S \ {j}, i>>] + cost[<<i, j>>] : i \in S \ {j}}
HkCell(f, cost, S, j) ==
    IF S = {1} THEN (IF j = 1 THEN 0 ELSE Inf)
    ELSE IF j = 1 \/ ~{1, j} \subseteq S THEN Inf
    ELSE Min(HkOptions(f, cost, S, j))

\* The table up to sets of k elements.
HkUpTo(f, n, cost, k) ==
    /\ f \in [Cells(n) -> Nat]
    /\ \A S \in SUBSET (1 .. n), j \in 1 .. n : Cardinality(S) <= k => f[<<S, j>>] = HkCell(f, cost, S, j)
HkFacts(f, n, cost) ==
    /\ f \in [Cells(n) -> Nat]
    /\ \A S \in SUBSET (1 .. n), j \in 1 .. n : f[<<S, j>>] = HkCell(f, cost, S, j)

LEMMA RangeSet ==
    ASSUME NEW n \in Nat, NEW S \in SUBSET (1 .. n)
    PROVE  /\ IsFiniteSet(S) /\ Cardinality(S) \in Nat /\ Cardinality(S) <= n /\ Cardinality(1 .. n) = n
           /\ \A j \in S : Cardinality(S \ {j}) = Cardinality(S) - 1
  <1>1. IsFiniteSet(1 .. n) /\ Cardinality(1 .. n) = n
    BY FS_Interval
  <1>2. IsFiniteSet(S) /\ Cardinality(S) <= n
    BY <1>1, FS_Subset
  <1> QED
    BY <1>1, <1>2, FS_CardinalityType, FS_RemoveElement

LEMMA HkOptionsNat ==
    ASSUME NEW n \in Nat, NEW cost, Priced(n, cost), NEW f \in [Cells(n) -> Nat],
           NEW S \in SUBSET (1 .. n), NEW j \in 2 .. n, {1, j} \subseteq S
    PROVE  /\ HkOptions(f, cost, S, j) \in SUBSET Nat /\ HkOptions(f, cost, S, j) # {}
           /\ 1 \in S \ {j} /\ S \ {j} \in SUBSET (1 .. n)
  <1>1. 1 \in S \ {j} /\ S \ {j} \in SUBSET (1 .. n)
    OBVIOUS
  <1>2. ASSUME NEW i \in S \ {j} PROVE f[<<S \ {j}, i>>] + cost[<<i, j>>] \in Nat
    <2>1. <<S \ {j}, i>> \in Cells(n)
      BY <1>1, <1>2 DEF Cells
    <2>2. f[<<S \ {j}, i>>] \in Nat
      BY <2>1
    <2>3. cost[<<i, j>>] \in Nat
      BY <1>2 DEF Priced
    <2> QED
      BY <2>2, <2>3
  <1> QED
    BY <1>1, <1>2 DEF HkOptions

LEMMA HkCellNat ==
    ASSUME NEW n \in Nat, NEW cost, Priced(n, cost), NEW f \in [Cells(n) -> Nat],
           NEW S \in SUBSET (1 .. n), NEW j \in 1 .. n
    PROVE  HkCell(f, cost, S, j) \in Nat
  <1>1. CASE S # {1} /\ j # 1 /\ {1, j} \subseteq S
    <2>1. j \in 2 .. n
      BY <1>1
    <2>2. Min(HkOptions(f, cost, S, j)) \in Nat
      BY <1>1, <2>1, HkOptionsNat, LeastNat
    <2> QED
      BY <1>1, <2>2 DEF HkCell
  <1>2. CASE ~(S # {1} /\ j # 1 /\ {1, j} \subseteq S)
    BY <1>2, InfIsNat DEF HkCell
  <1> QED
    BY <1>1, <1>2

\* A cell depends on the cells of the sets with one node less.
LEMMA HkCellSame ==
    ASSUME NEW n \in Nat, NEW cost, NEW f, NEW g, NEW k \in Nat,
           \A T \in SUBSET (1 .. n), i \in 1 .. n : Cardinality(T) <= k => f[<<T, i>>] = g[<<T, i>>],
           NEW S \in SUBSET (1 .. n), NEW j \in 1 .. n, Cardinality(S) <= k + 1
    PROVE  HkCell(f, cost, S, j) = HkCell(g, cost, S, j)
  <1>1. CASE j \in S
    <2>0. Cardinality(S) \in Nat /\ Cardinality(S \ {j}) = Cardinality(S) - 1
      BY <1>1, RangeSet
    <2>1. Cardinality(S \ {j}) <= k
      BY <2>0
    <2>2. \A i \in S \ {j} : f[<<S \ {j}, i>>] = g[<<S \ {j}, i>>]
      BY <2>1
    <2>3. HkOptions(f, cost, S, j) = HkOptions(g, cost, S, j)
      BY <2>2 DEF HkOptions
    <2> QED
      BY <2>3 DEF HkCell
  <1>2. CASE j \notin S
    BY <1>2 DEF HkCell
  <1> QED
    BY <1>1, <1>2

\* The recursion of hkTable has a solution, by the size of the set.
LEMMA HkExists ==
    ASSUME NEW n \in Nat, NEW cost, Priced(n, cost)
    PROVE  \E f : HkFacts(f, n, cost)
  <1> DEFINE Q == {k \in Nat : \E f : HkUpTo(f, n, cost, k)}
  <1>1. 0 \in Q
    <2> DEFINE f == [p \in Cells(n) |-> Inf]
    <2>1. f \in [Cells(n) -> Nat]
      BY InfIsNat
    <2>2. ASSUME NEW S \in SUBSET (1 .. n), NEW j \in 1 .. n, Cardinality(S) <= 0
          PROVE  f[<<S, j>>] = HkCell(f, cost, S, j)
      <3>1. S = {}
        BY <2>2, RangeSet, FS_EmptySet
      <3>2. f[<<S, j>>] = Inf
        BY DEF Cells
      <3> HIDE DEF f
      <3> QED
        BY <3>1, <3>2 DEF HkCell
    <2>3. HkUpTo(f, n, cost, 0)
      BY <2>1, <2>2 DEF HkUpTo
    <2> QED
      BY <2>3
  <1>2. ASSUME NEW k \in Q PROVE k + 1 \in Q
    <2>0. k \in Nat
      BY <1>2
    <2>1. PICK f : HkUpTo(f, n, cost, k)
      BY <1>2
    <2> DEFINE g == [p \in Cells(n) |-> IF Cardinality(p[1]) <= k THEN f[p] ELSE HkCell(f, cost, p[1], p[2])]
    <2>2. ASSUME NEW S \in SUBSET (1 .. n), NEW j \in 1 .. n
          PROVE  g[<<S, j>>] = IF Cardinality(S) <= k THEN f[<<S, j>>] ELSE HkCell(f, cost, S, j)
      BY DEF Cells
    <2>3. g \in [Cells(n) -> Nat]
      <3>1. ASSUME NEW p \in Cells(n)
            PROVE  (IF Cardinality(p[1]) <= k THEN f[p] ELSE HkCell(f, cost, p[1], p[2])) \in Nat
        <4>1. f[p] \in Nat /\ f \in [Cells(n) -> Nat]
          BY <2>1 DEF HkUpTo
        <4>2. p[1] \in SUBSET (1 .. n) /\ p[2] \in 1 .. n
          BY <3>1 DEF Cells
        <4>3. HkCell(f, cost, p[1], p[2]) \in Nat
          BY <4>1, <4>2, HkCellNat
        <4> QED
          BY <4>1, <4>3
      <3> QED
        BY <3>1
    <2> HIDE DEF g
    <2>4. ASSUME NEW S \in SUBSET (1 .. n), NEW j \in 1 .. n
          PROVE  g[<<S, j>>] = HkCell(f, cost, S, j) \/ Cardinality(S) > k + 1
      <3>1. Cardinality(S) <= k => f[<<S, j>>] = HkCell(f, cost, S, j)
        BY <2>1 DEF HkUpTo
      <3> QED
        BY <2>2, <3>1
    <2>5. \A T \in SUBSET (1 .. n), i \in 1 .. n : Cardinality(T) <= k => f[<<T, i>>] = g[<<T, i>>]
      BY <2>2
    <2>6. ASSUME NEW S \in SUBSET (1 .. n), NEW j \in 1 .. n, Cardinality(S) <= k + 1
          PROVE  g[<<S, j>>] = HkCell(g, cost, S, j)
      <3>1. HkCell(f, cost, S, j) = HkCell(g, cost, S, j)
        BY <2>0, <2>5, <2>6, HkCellSame
      <3>2. Cardinality(S) \in Nat
        BY RangeSet
      <3> QED
        BY <2>0, <2>4, <2>6, <3>1, <3>2
    <2>7. HkUpTo(g, n, cost, k + 1)
      BY <2>3, <2>6 DEF HkUpTo
    <2> QED
      BY <2>0, <2>7
  <1>3. Q \in SUBSET Nat
    OBVIOUS
  <1> HIDE DEF Q
  <1>4. n \in Q
    BY <1>1, <1>2, <1>3, NatInduct
  <1>5. PICK f : HkUpTo(f, n, cost, n)
    BY <1>4 DEF Q
  <1>6. \A S \in SUBSET (1 .. n) : Cardinality(S) <= n
    BY RangeSet
  <1>7. HkFacts(f, n, cost)
    BY <1>5, <1>6 DEF HkUpTo, HkFacts
  <1> QED
    BY <1>7

\* hkTable solves its recursion.
LEMMA HkTable ==
    ASSUME NEW n \in Nat, NEW cost, Priced(n, cost)
    PROVE  HkFacts(hkTable(n, cost), n, cost)
  <1> DEFINE Eq(f) == f = [p \in Cells(n) |-> HkCell(f, cost, p[1], p[2])]
  <1>1. ASSUME NEW f, HkFacts(f, n, cost) PROVE Eq(f)
    <2>1. f = [p \in Cells(n) |-> f[p]]
      BY <1>1 DEF HkFacts
    <2>2. ASSUME NEW p \in Cells(n) PROVE f[p] = HkCell(f, cost, p[1], p[2])
      <3>1. p[1] \in SUBSET (1 .. n) /\ p[2] \in 1 .. n /\ p = <<p[1], p[2]>>
        BY DEF Cells
      <3>2. f[<<p[1], p[2]>>] = HkCell(f, cost, p[1], p[2])
        BY <1>1, <3>1 DEF HkFacts
      <3> QED
        BY <3>1, <3>2
    <2> QED
      BY <2>1, <2>2
  <1>2. \E f : Eq(f)
    BY <1>1, HkExists
  <1>3. hkTable(n, cost) = CHOOSE f : Eq(f)
    BY DEF hkTable, HkCell, HkOptions, Cells
  <1>4. ASSUME NEW f, Eq(f) PROVE HkFacts(f, n, cost)
    <2>1. ASSUME NEW S \in SUBSET (1 .. n), NEW j \in 1 .. n PROVE f[<<S, j>>] = HkCell(f, cost, S, j)
      BY <1>4 DEF Cells
    <2>2. f \in [Cells(n) -> Nat]
      <3> DEFINE Q == {k \in Nat : \A S \in SUBSET (1 .. n), j \in 1 .. n : Cardinality(S) <= k => f[<<S, j>>] \in Nat}
      <3>1. 0 \in Q
        <4>1. ASSUME NEW S \in SUBSET (1 .. n), NEW j \in 1 .. n, Cardinality(S) <= 0 PROVE f[<<S, j>>] \in Nat
          <5>1. S = {}
            BY <4>1, RangeSet, FS_EmptySet
          <5> QED
            BY <2>1, <5>1, InfIsNat DEF HkCell
        <4> QED
          BY <4>1
      <3>2. ASSUME NEW k \in Q PROVE k + 1 \in Q
        <4> DEFINE g == [p \in Cells(n) |-> IF Cardinality(p[1]) <= k THEN f[p] ELSE 0]
        <4>0. k \in Nat
          BY <3>2
        <4>1. g \in [Cells(n) -> Nat]
          <5>1. ASSUME NEW p \in Cells(n), Cardinality(p[1]) <= k PROVE f[p] \in Nat
            <6>1. p[1] \in SUBSET (1 .. n) /\ p[2] \in 1 .. n /\ p = <<p[1], p[2]>>
              BY <5>1 DEF Cells
            <6>2. f[<<p[1], p[2]>>] \in Nat
              BY <3>2, <5>1, <6>1
            <6> QED
              BY <6>1, <6>2
          <5> QED
            BY <5>1
        <4>2. \A T \in SUBSET (1 .. n), i \in 1 .. n : Cardinality(T) <= k => g[<<T, i>>] = f[<<T, i>>]
          BY DEF Cells
        <4> HIDE DEF g
        <4>3. ASSUME NEW S \in SUBSET (1 .. n), NEW j \in 1 .. n, Cardinality(S) <= k + 1 PROVE f[<<S, j>>] \in Nat
          <5>1. HkCell(g, cost, S, j) = HkCell(f, cost, S, j)
            BY <4>0, <4>2, <4>3, HkCellSame
          <5>2. HkCell(g, cost, S, j) \in Nat
            BY <4>1, HkCellNat
          <5> QED
            BY <2>1, <5>1, <5>2
        <4> QED
          BY <4>0, <4>3
      <3>3. Q \in SUBSET Nat
        OBVIOUS
      <3> HIDE DEF Q
      <3>4. n \in Q
        BY <3>1, <3>2, <3>3, NatInduct
      <3>5. \A S \in SUBSET (1 .. n), j \in 1 .. n : f[<<S, j>>] \in Nat
        <4>1. \A S \in SUBSET (1 .. n) : Cardinality(S) <= n
          BY RangeSet
        <4> QED
          BY <3>4, <4>1 DEF Q
      <3>6. ASSUME NEW p \in Cells(n) PROVE f[p] \in Nat
        <4>1. p[1] \in SUBSET (1 .. n) /\ p[2] \in 1 .. n /\ p = <<p[1], p[2]>>
          BY DEF Cells
        <4> QED
          BY <3>5, <4>1
      <3>7. f = [p \in Cells(n) |-> f[p]]
        BY <1>4
      <3> QED
        BY <3>6, <3>7
    <2> QED
      BY <2>1, <2>2 DEF HkFacts
  <1> HIDE DEF Eq
  <1>5. Eq(hkTable(n, cost))
    BY <1>2, <1>3
  <1> QED
    BY <1>4, <1>5

(***************************************************************************)
(* The Held-Karp path, followed back from its end                          *)
(***************************************************************************)

Back(f, N, all, last, dp, cost) == f = [m \in 0 .. N |-> IF m = 0 THEN <<all, last>> ELSE hkBefore(dp, cost, f[m - 1])]

\* The walk back exists.
LEMMA BackExists ==
    ASSUME NEW N \in Nat, NEW all, NEW last, NEW dp, NEW cost
    PROVE  \E f : Back(f, N, all, last, dp, cost)
  <1> DEFINE Q == {n \in Nat : \E f : Back(f, n, all, last, dp, cost)}
  <1>1. 0 \in Q
    <2> DEFINE f == [m \in 0 .. 0 |-> <<all, last>>]
    <2>1. Back(f, 0, all, last, dp, cost)
      BY DEF Back
    <2> QED
      BY <2>1
  <1>2. ASSUME NEW n \in Q PROVE n + 1 \in Q
    <2>1. PICK f : Back(f, n, all, last, dp, cost)
      BY <1>2
    <2> DEFINE h == [m \in 0 .. n + 1 |-> IF m = 0 THEN <<all, last>> ELSE hkBefore(dp, cost, f[m - 1])]
    <2>2. n \in Nat
      BY <1>2
    <2>3. ASSUME NEW m \in 0 .. n PROVE h[m] = f[m]
      <3>1. f[m] = IF m = 0 THEN <<all, last>> ELSE hkBefore(dp, cost, f[m - 1])
        BY <2>1 DEF Back
      <3>2. h[m] = IF m = 0 THEN <<all, last>> ELSE hkBefore(dp, cost, f[m - 1])
        BY <2>2
      <3> HIDE DEF h
      <3> QED
        BY <3>1, <3>2
    <2>4. ASSUME NEW m \in 0 .. n + 1 PROVE h[m] = IF m = 0 THEN <<all, last>> ELSE hkBefore(dp, cost, h[m - 1])
      <3>1. CASE m = 0
        BY <2>2, <3>1
      <3>2. CASE m # 0
        <4>1. m - 1 \in 0 .. n
          BY <2>2, <3>2
        <4>2. h[m - 1] = f[m - 1]
          BY <2>3, <4>1
        <4>3. h[m] = hkBefore(dp, cost, f[m - 1])
          BY <3>2
        <4> HIDE DEF h
        <4> QED
          BY <3>2, <4>2, <4>3
      <3> QED
        BY <3>1, <3>2
    <2>5. h = [m \in 0 .. n + 1 |-> h[m]]
      OBVIOUS
    <2>6. Back(h, n + 1, all, last, dp, cost)
      <3> HIDE DEF h
      <3> QED
        BY <2>4, <2>5 DEF Back
    <2> HIDE DEF h
    <2> QED
      BY <2>2, <2>6
  <1>3. Q \in SUBSET Nat
    OBVIOUS
  <1> HIDE DEF Q
  <1>4. Q = Nat
    BY <1>1, <1>2, <1>3, NatInduct
  <1> QED
    BY <1>4 DEF Q

LEMMA BackSteps ==
    ASSUME NEW N \in Nat, NEW all, NEW last, NEW dp, NEW cost, NEW f, Back(f, N, all, last, dp, cost)
    PROVE  f[0] = <<all, last>> /\ \A m \in 1 .. N : f[m] = hkBefore(dp, cost, f[m - 1])
  <1>1. ASSUME NEW m \in 0 .. N PROVE f[m] = IF m = 0 THEN <<all, last>> ELSE hkBefore(dp, cost, f[m - 1])
    BY DEF Back
  <1>2. f[0] = <<all, last>>
    <2>1. 0 \in 0 .. N
      OBVIOUS
    <2> QED
      BY <1>1, <2>1
  <1>3. ASSUME NEW m \in 1 .. N PROVE f[m] = hkBefore(dp, cost, f[m - 1])
    <2>1. m \in 0 .. N /\ m # 0
      OBVIOUS
    <2> QED
      BY <1>1, <2>1
  <1> QED
    BY <1>2, <1>3

\* A set with the host and an end that is not the host, unless it is alone.
HkReach(S, n, j) == S \in SUBSET (1 .. n) /\ {1, j} \subseteq S /\ (j # 1 \/ S = {1})

\* Every hop into j is an upper bound of the cell.
HkHops(dp, cost, n, S, j) ==
    /\ j \in 2 .. n /\ S \ {j} \in SUBSET (1 .. n) /\ 1 \in S \ {j} /\ dp[<<S, j>>] \in Nat
    /\ \A i \in S \ {j} : /\ dp[<<S \ {j}, i>>] \in Nat /\ cost[<<i, j>>] \in Nat
                          /\ dp[<<S, j>>] <= dp[<<S \ {j}, i>>] + cost[<<i, j>>]
    /\ \E i \in S \ {j} : dp[<<S \ {j}, i>>] + cost[<<i, j>>] = dp[<<S, j>>]

LEMMA HkOption ==
    ASSUME NEW n \in Nat, NEW cost, Priced(n, cost), NEW dp, HkFacts(dp, n, cost),
           NEW S, NEW j, HkReach(S, n, j), S # {1}
    PROVE  HkHops(dp, cost, n, S, j)
  <1>a. {1, j} \subseteq S /\ S \in SUBSET (1 .. n) /\ j # 1
    BY DEF HkReach
  <1>b. j \in 1 .. n
    BY <1>a
  <1>0. j \in 2 .. n /\ {1, j} \subseteq S /\ S \in SUBSET (1 .. n) /\ j \in 1 .. n
    BY <1>a, <1>b
  <1>1. dp \in [Cells(n) -> Nat]
    BY DEF HkFacts
  <1>2. HkOptions(dp, cost, S, j) \in SUBSET Nat /\ HkOptions(dp, cost, S, j) # {} /\ 1 \in S \ {j} /\ S \ {j} \in SUBSET (1 .. n)
    BY <1>0, <1>1, HkOptionsNat
  <1>3. dp[<<S, j>>] = HkCell(dp, cost, S, j)
    BY <1>0 DEF HkFacts
  <1>4. dp[<<S, j>>] = Min(HkOptions(dp, cost, S, j))
    BY <1>0, <1>3 DEF HkCell
  <1>5. dp[<<S, j>>] \in HkOptions(dp, cost, S, j) /\ \A y \in HkOptions(dp, cost, S, j) : dp[<<S, j>>] <= y
    BY <1>2, <1>4, LeastNat
  <1>6. ASSUME NEW i \in S \ {j}
        PROVE  /\ dp[<<S \ {j}, i>>] \in Nat /\ cost[<<i, j>>] \in Nat
               /\ dp[<<S, j>>] <= dp[<<S \ {j}, i>>] + cost[<<i, j>>]
    <2>1. <<S \ {j}, i>> \in Cells(n)
      BY <1>0, <1>2, <1>6 DEF Cells
    <2>2. dp[<<S \ {j}, i>>] \in Nat
      BY <1>1, <2>1
    <2>3. cost[<<i, j>>] \in Nat
      BY <1>0, <1>6 DEF Priced
    <2>4. dp[<<S \ {j}, i>>] + cost[<<i, j>>] \in HkOptions(dp, cost, S, j)
      BY <1>6 DEF HkOptions
    <2> QED
      BY <1>5, <2>2, <2>3, <2>4
  <1>7. \E i \in S \ {j} : dp[<<S \ {j}, i>>] + cost[<<i, j>>] = dp[<<S, j>>]
    BY <1>5 DEF HkOptions
  <1>8. dp[<<S, j>>] \in Nat
    BY <1>2, <1>5
  <1> QED
    BY <1>0, <1>2, <1>6, <1>7, <1>8 DEF HkHops

\* Every path through a set costs at most its hops times the dearest link.
LEMMA HkBound ==
    ASSUME NEW n \in Nat \ {0}, NEW cost, Priced(n, cost), NEW dp, HkFacts(dp, n, cost),
           NEW c \in Nat, \A i, k \in 1 .. n : cost[<<i, k>>] <= c, NEW S, NEW j, HkReach(S, n, j)
    PROVE  dp[<<S, j>>] <= (Cardinality(S) - 1) * c
  <1> DEFINE Q == {k \in Nat : \A T, i : HkReach(T, n, i) /\ Cardinality(T) = k + 1 => dp[<<T, i>>] <= k * c}
  <1>1. 0 \in Q
    <2>1. ASSUME NEW T, NEW i, HkReach(T, n, i), Cardinality(T) = 0 + 1 PROVE dp[<<T, i>>] <= 0 * c
      <3>1. T \in SUBSET (1 .. n) /\ 1 \in T /\ i \in T
        BY <2>1 DEF HkReach
      <3>2. IsFiniteSet(T)
        BY <3>1, RangeSet
      <3>a. Cardinality(T) = 1
        BY <2>1
      <3>3. PICK x : T = {x}
        BY <3>a, <3>2, FS_Singleton
      <3>4. T = {1} /\ i = 1 /\ i \in 1 .. n
        BY <3>1, <3>3
      <3>5. dp[<<T, i>>] = HkCell(dp, cost, T, i)
        BY <3>1, <3>4 DEF HkFacts
      <3>6. dp[<<T, i>>] = 0
        BY <3>4, <3>5 DEF HkCell
      <3> QED
        BY <3>6
    <2> QED
      BY <2>1
  <1>2. ASSUME NEW k \in Q PROVE k + 1 \in Q
    <2>0. k \in Nat
      BY <1>2
    <2>1. ASSUME NEW T, NEW i, HkReach(T, n, i), Cardinality(T) = (k + 1) + 1 PROVE dp[<<T, i>>] <= (k + 1) * c
      <3>1. T \in SUBSET (1 .. n) /\ 1 \in T /\ i \in T
        BY <2>1 DEF HkReach
      <3>2. T # {1}
        BY <2>0, <2>1, FS_Singleton
      <3>3. /\ i \in 2 .. n /\ T \ {i} \in SUBSET (1 .. n) /\ 1 \in T \ {i}
            /\ \A h \in T \ {i} : /\ dp[<<T \ {i}, h>>] \in Nat /\ cost[<<h, i>>] \in Nat
                                  /\ dp[<<T, i>>] <= dp[<<T \ {i}, h>>] + cost[<<h, i>>]
        <4>1. HkHops(dp, cost, n, T, i)
          BY <2>1, <3>2, HkOption
        <4> QED
          BY <4>1 DEF HkHops
      <3>a. Cardinality(T \ {i}) = Cardinality(T) - 1
        BY <3>1, RangeSet
      <3>4. Cardinality(T \ {i}) = k + 1
        BY <2>0, <2>1, <3>a
      <3>5. PICK h \in T \ {i} : h # 1 \/ T \ {i} = {1}
        BY <3>3
      <3>6. HkReach(T \ {i}, n, h)
        BY <3>3, <3>5 DEF HkReach
      <3>7. dp[<<T \ {i}, h>>] <= k * c
        BY <1>2, <3>4, <3>6
      <3>8. cost[<<h, i>>] <= c
        BY <3>3
      <3>9. dp[<<T, i>>] \in Nat /\ k * c \in Nat /\ (k + 1) * c = k * c + c
        <4>1. HkHops(dp, cost, n, T, i)
          BY <2>1, <3>2, HkOption
        <4>2. dp[<<T, i>>] \in Nat
          BY <4>1 DEF HkHops
        <4> QED
          BY <2>0, <4>2
      <3> QED
        BY <3>3, <3>7, <3>8, <3>9
    <2> QED
      BY <2>0, <2>1
  <1>3. Q \in SUBSET Nat
    OBVIOUS
  <1> HIDE DEF Q
  <1>4. Q = Nat
    BY <1>1, <1>2, <1>3, NatInduct
  <1>5. S \in SUBSET (1 .. n) /\ 1 \in S
    BY DEF HkReach
  <1>6. Cardinality(S) \in Nat /\ Cardinality(S) # 0
    BY <1>5, RangeSet, FS_EmptySet
  <1>7. Cardinality(S) - 1 \in Nat /\ (Cardinality(S) - 1) + 1 = Cardinality(S)
    BY <1>6
  <1> QED
    BY <1>4, <1>7 DEF Q

\* A cell with a path, and the one before it on that path.
HkGood(dp, n, S, j) == HkReach(S, n, j) /\ dp[<<S, j>>] < Inf

HkPrev(dp, cost, n, S, j, i) ==
    /\ i \in S \ {j} /\ hkBefore(dp, cost, <<S, j>>) = <<S \ {j}, i>> /\ HkGood(dp, n, S \ {j}, i)
    /\ dp[<<S \ {j}, i>>] + cost[<<i, j>>] = dp[<<S, j>>]

\* hkBefore of a reachable cell is a reachable cell one hop back.
LEMMA HkBeforeGood ==
    ASSUME NEW n \in Nat, NEW cost, Priced(n, cost), NEW dp, HkFacts(dp, n, cost),
           NEW S, NEW j, HkGood(dp, n, S, j), S # {1}
    PROVE  \E i : HkPrev(dp, cost, n, S, j, i)
  <1>a. PICK T : T = S \ {j}
    OBVIOUS
  <1> DEFINE A == {k \in T : dp[<<T, k>>] + cost[<<k, j>>] = dp[<<S, j>>]}
             i == Min(A)
  <1>1. HkReach(S, n, j) /\ dp[<<S, j>>] < Inf
    BY DEF HkGood
  <1>2. /\ j \in 2 .. n /\ T \in SUBSET (1 .. n) /\ 1 \in T /\ dp[<<S, j>>] \in Nat
        /\ \A k \in T : dp[<<T, k>>] \in Nat /\ cost[<<k, j>>] \in Nat
        /\ \E k \in T : dp[<<T, k>>] + cost[<<k, j>>] = dp[<<S, j>>]
    <2> SUFFICES /\ j \in 2 .. n /\ S \ {j} \in SUBSET (1 .. n) /\ 1 \in S \ {j} /\ dp[<<S, j>>] \in Nat
                 /\ \A k \in S \ {j} : dp[<<S \ {j}, k>>] \in Nat /\ cost[<<k, j>>] \in Nat
                 /\ \E k \in S \ {j} : dp[<<S \ {j}, k>>] + cost[<<k, j>>] = dp[<<S, j>>]
      BY <1>a
    <2> QED
      <3>1. HkHops(dp, cost, n, S, j)
        BY <1>1, HkOption
      <3> QED
        BY <3>1 DEF HkHops
  <1>3. A \in SUBSET Nat /\ A # {}
    <2>1. T \in SUBSET Nat
      BY <1>2
    <2>2. A # {}
      BY <1>2
    <2> QED
      BY <2>1, <2>2
  <1>4. i \in A
    BY <1>3, LeastNat
  <1>5. hkBefore(dp, cost, <<S, j>>) = <<T, i>>
    BY <1>a DEF hkBefore
  <1> HIDE DEF i
  <1>6. i \in T /\ dp[<<T, i>>] + cost[<<i, j>>] = dp[<<S, j>>]
    BY <1>4
  <1>7. dp[<<T, i>>] < Inf
    BY <1>1, <1>2, <1>6, InfIsNat
  <1>8. i # 1 \/ T = {1}
    <2>1. ASSUME i = 1, T # {1} PROVE FALSE
      <3>1. dp[<<T, 1>>] = HkCell(dp, cost, T, 1)
        BY <1>2, <2>1 DEF HkFacts
      <3>2. HkCell(dp, cost, T, 1) = Inf
        BY <2>1 DEF HkCell
      <3> QED
        BY <1>7, <2>1, <3>1, <3>2, InfIsNat
    <2> QED
      BY <2>1
  <1>9. HkReach(T, n, i)
    BY <1>2, <1>6, <1>8 DEF HkReach
  <1>10. HkPrev(dp, cost, n, S, j, i)
    BY <1>a, <1>5, <1>6, <1>7, <1>9 DEF HkGood, HkPrev
  <1> QED
    BY <1>10

\* What is followed back: cells with a path, each through one node less.
BackAt(f, n, dp, k) == f[k] = <<f[k][1], f[k][2]>> /\ HkGood(dp, n, f[k][1], f[k][2]) /\ Cardinality(f[k][1]) = n - k
BackHop(f, dp, cost, k) ==
    /\ f[k][1] = f[k - 1][1] \ {f[k - 1][2]}
    /\ dp[f[k]] + cost[<<f[k][2], f[k - 1][2]>>] = dp[f[k - 1]]

LEMMA BackStep ==
    ASSUME NEW n \in Nat, NEW cost, Priced(n, cost), NEW dp, HkFacts(dp, n, cost),
           NEW f, NEW k \in 1 .. n - 1, f[k] = hkBefore(dp, cost, f[k - 1]), BackAt(f, n, dp, k - 1)
    PROVE  BackAt(f, n, dp, k) /\ BackHop(f, dp, cost, k)
  <1>1. PICK S, j : S = f[k - 1][1] /\ j = f[k - 1][2]
    OBVIOUS
  <1>2. f[k - 1] = <<S, j>> /\ HkGood(dp, n, S, j) /\ Cardinality(S) = n - (k - 1)
    BY <1>1 DEF BackAt
  <1>a. Cardinality({1}) = 1 /\ Cardinality(S) # 1
    <2>1. Cardinality({1}) = 1
      BY FS_Singleton
    <2>2. n - (k - 1) # 1
      OBVIOUS
    <2> QED
      BY <1>2, <2>1, <2>2
  <1>3. S # {1}
    BY <1>a
  <1>b. HkGood(dp, n, S, j)
    BY <1>2
  <1>c. PICK i : HkPrev(dp, cost, n, S, j, i)
    BY <1>b, <1>3, HkBeforeGood
  <1>4. /\ i \in S \ {j} /\ hkBefore(dp, cost, <<S, j>>) = <<S \ {j}, i>> /\ HkGood(dp, n, S \ {j}, i)
        /\ dp[<<S \ {j}, i>>] + cost[<<i, j>>] = dp[<<S, j>>]
    BY <1>c DEF HkPrev
  <1>5. f[k] = <<S \ {j}, i>>
    BY <1>2, <1>4
  <1>6. f[k][1] = S \ {j} /\ f[k][2] = i
    BY <1>5
  <1>7. S \in SUBSET (1 .. n) /\ j \in S
    BY <1>2 DEF HkGood, HkReach
  <1>8. Cardinality(S \ {j}) = Cardinality(S) - 1
    BY <1>7, RangeSet
  <1>9. Cardinality(S \ {j}) = n - k
    BY <1>2, <1>8
  <1> QED
    BY <1>1, <1>2, <1>4, <1>5, <1>6, <1>9 DEF BackAt, BackHop

\* The walk back stays on reachable cells and drops one element a step.
LEMMA BackHolds ==
    ASSUME NEW n \in Nat \ {0}, NEW cost, Priced(n, cost), NEW dp, HkFacts(dp, n, cost),
           NEW last, HkGood(dp, n, 1 .. n, last), NEW f, Back(f, n - 1, 1 .. n, last, dp, cost)
    PROVE  /\ f[0] = <<1 .. n, last>>
           /\ \A k \in 0 .. n - 1 : BackAt(f, n, dp, k)
           /\ \A k \in 1 .. n - 1 : BackHop(f, dp, cost, k)
  <1> DEFINE Q == {k \in Nat : k <= n - 1 => BackAt(f, n, dp, k)}
  <1>1. f[0] = <<1 .. n, last>> /\ \A k \in 1 .. n - 1 : f[k] = hkBefore(dp, cost, f[k - 1])
    BY BackSteps
  <1>2. 0 \in Q
    <2>1. Cardinality(1 .. n) = n - 0
      BY FS_Interval
    <2>2. BackAt(f, n, dp, 0)
      BY <1>1, <2>1 DEF BackAt
    <2> QED
      BY <2>2
  <1>3. ASSUME NEW k \in Q PROVE k + 1 \in Q
    <2>0. k \in Nat
      BY <1>3
    <2>1. ASSUME k + 1 <= n - 1 PROVE BackAt(f, n, dp, k + 1)
      <3>1. k + 1 \in 1 .. n - 1 /\ (k + 1) - 1 = k /\ BackAt(f, n, dp, k)
        BY <1>3, <2>0, <2>1
      <3>2. f[k + 1] = hkBefore(dp, cost, f[(k + 1) - 1]) /\ BackAt(f, n, dp, (k + 1) - 1)
        BY <1>1, <3>1
      <3> QED
        BY <3>1, <3>2, BackStep
    <2> QED
      BY <2>0, <2>1
  <1>4. Q \in SUBSET Nat
    OBVIOUS
  <1> HIDE DEF Q
  <1>5. Q = Nat
    BY <1>2, <1>3, <1>4, NatInduct
  <1>6. ASSUME NEW k \in 0 .. n - 1 PROVE BackAt(f, n, dp, k)
    BY <1>5 DEF Q
  <1>7. ASSUME NEW k \in 1 .. n - 1 PROVE BackHop(f, dp, cost, k)
    <2>1. k - 1 \in 0 .. n - 1
      OBVIOUS
    <2>2. BackAt(f, n, dp, k - 1) /\ f[k] = hkBefore(dp, cost, f[k - 1])
      BY <1>1, <1>6, <2>1
    <2> QED
      BY <2>2, BackStep
  <1> QED
    BY <1>1, <1>6, <1>7

(***************************************************************************)
(* heldKarpPath                                                            *)
(***************************************************************************)

\* An element that was dropped does not come back.
LEMMA BackNested ==
    ASSUME NEW n \in Nat \ {0}, NEW f, NEW dp, NEW cost, \A k \in 1 .. n - 1 : BackHop(f, dp, cost, k),
           NEW a \in 0 .. n - 1, NEW b \in 0 .. n - 1, a < b
    PROVE  f[b][1] \subseteq f[a][1] \ {f[a][2]}
  <1> DEFINE Q == {k \in Nat : a + 1 + k <= n - 1 => f[a + 1 + k][1] \subseteq f[a][1] \ {f[a][2]}}
  <1>1. 0 \in Q
    <2>1. a + 1 + 0 <= n - 1 => a + 1 \in 1 .. n - 1 /\ (a + 1) - 1 = a /\ a + 1 + 0 = a + 1
      OBVIOUS
    <2>2. a + 1 + 0 <= n - 1 => f[a + 1][1] = f[(a + 1) - 1][1] \ {f[(a + 1) - 1][2]}
      BY <2>1 DEF BackHop
    <2> QED
      BY <2>1, <2>2
  <1>2. ASSUME NEW k \in Q PROVE k + 1 \in Q
    <2>0. k \in Nat
      BY <1>2
    <2>1. ASSUME a + 1 + (k + 1) <= n - 1 PROVE f[a + 1 + (k + 1)][1] \subseteq f[a][1] \ {f[a][2]}
      <3>1. a + 1 + (k + 1) \in 1 .. n - 1 /\ a + 1 + (k + 1) - 1 = a + 1 + k /\ a + 1 + k <= n - 1
        BY <2>0, <2>1
      <3>2. f[a + 1 + (k + 1)][1] = f[a + 1 + (k + 1) - 1][1] \ {f[a + 1 + (k + 1) - 1][2]}
        <4>1. \A x \in 1 .. n - 1 : f[x][1] = f[x - 1][1] \ {f[x - 1][2]}
          BY DEF BackHop
        <4> QED
          BY <3>1, <4>1
      <3>3. f[a + 1 + (k + 1)][1] \subseteq f[a + 1 + k][1]
        BY <3>1, <3>2
      <3> QED
        BY <1>2, <3>1, <3>3
    <2> QED
      BY <2>0, <2>1
  <1>3. Q \in SUBSET Nat
    OBVIOUS
  <1> HIDE DEF Q
  <1>4. Q = Nat
    BY <1>1, <1>2, <1>3, NatInduct
  <1>5. b - a - 1 \in Nat /\ a + 1 + (b - a - 1) = b /\ b <= n - 1
    OBVIOUS
  <1> QED
    BY <1>4, <1>5 DEF Q

\* A tour of 1 .. n from 1.
Tour(q, n) == q \in [1 .. n -> 1 .. n] /\ q[1] = 1 /\ \A i, k \in 1 .. n : q[i] = q[k] => i = k

\* The walk back, reversed, is a tour.
LEMMA BackTour ==
    ASSUME NEW n \in Nat \ {0}, NEW f, NEW dp, NEW cost,
           \A k \in 0 .. n - 1 : BackAt(f, n, dp, k), \A k \in 1 .. n - 1 : BackHop(f, dp, cost, k),
           NEW q, q = [k \in 1 .. n |-> f[n - k][2]]
    PROVE  Tour(q, n)
  <1>1. ASSUME NEW k \in 0 .. n - 1
        PROVE  f[k][2] \in 1 .. n /\ f[k][2] \in f[k][1] /\ 1 \in f[k][1] /\ f[k][1] \in SUBSET (1 .. n) /\ Cardinality(f[k][1]) = n - k
    <2>1. BackAt(f, n, dp, k)
      OBVIOUS
    <2>2. HkReach(f[k][1], n, f[k][2]) /\ Cardinality(f[k][1]) = n - k
      BY <2>1 DEF BackAt, HkGood
    <2> QED
      BY <2>2 DEF HkReach
  <1>2. ASSUME NEW k \in 1 .. n PROVE q[k] = f[n - k][2] /\ n - k \in 0 .. n - 1
    OBVIOUS
  <1>3. q \in [1 .. n -> 1 .. n]
    <2>1. ASSUME NEW k \in 1 .. n PROVE f[n - k][2] \in 1 .. n
      BY <1>1, <1>2
    <2> QED
      BY <2>1
  <1>4. q[1] = 1
    <2>1. 1 \in 1 .. n /\ n - 1 \in 0 .. n - 1
      OBVIOUS
    <2>2. f[n - 1][2] \in f[n - 1][1] /\ 1 \in f[n - 1][1] /\ f[n - 1][1] \in SUBSET (1 .. n) /\ Cardinality(f[n - 1][1]) = n - (n - 1)
      BY <1>1, <2>1
    <2>3. Cardinality(f[n - 1][1]) = 1
      BY <2>2
    <2>4. IsFiniteSet(f[n - 1][1])
      BY <2>2, RangeSet
    <2>5. PICK x : f[n - 1][1] = {x}
      BY <2>3, <2>4, FS_Singleton
    <2>6. f[n - 1][2] = 1
      BY <2>2, <2>5
    <2> QED
      BY <1>2, <2>1, <2>6
  <1>5. ASSUME NEW i \in 1 .. n, NEW k \in 1 .. n, i < k PROVE q[i] # q[k]
    <2>1. n - k \in 0 .. n - 1 /\ n - i \in 0 .. n - 1 /\ n - k < n - i
      BY <1>5
    <2>2. f[n - i][1] \subseteq f[n - k][1] \ {f[n - k][2]}
      BY <2>1, BackNested
    <2>3. f[n - i][2] \in f[n - i][1]
      BY <1>1, <2>1
    <2> QED
      BY <1>2, <2>2, <2>3
  <1>6. ASSUME NEW i \in 1 .. n, NEW k \in 1 .. n, q[i] = q[k] PROVE i = k
    <2>1. i < k \/ k < i \/ i = k
      OBVIOUS
    <2> QED
      BY <1>5, <1>6, <2>1
  <1> QED
    BY <1>3, <1>4, <1>6 DEF Tour

HkEnd(dp, n) == Min({j \in 1 .. n : \A k \in 1 .. n : dp[<<1 .. n, j>>] <= dp[<<1 .. n, k>>]})

\* The cheapest end is no dearer than any, and a path leads there.
LEMMA HkEndGood ==
    ASSUME NEW n \in Nat, n >= 2, NEW cost, Priced(n, cost), NEW dp, HkFacts(dp, n, cost),
           NEW c \in Nat, \A i, k \in 1 .. n : cost[<<i, k>>] <= c, n * c < Inf
    PROVE  /\ HkGood(dp, n, 1 .. n, HkEnd(dp, n))
           /\ \A k \in 1 .. n : dp[<<1 .. n, HkEnd(dp, n)>>] <= dp[<<1 .. n, k>>]
  <1> DEFINE V == {dp[<<1 .. n, j>>] : j \in 1 .. n}
             E == {j \in 1 .. n : \A k \in 1 .. n : dp[<<1 .. n, j>>] <= dp[<<1 .. n, k>>]}
             e == HkEnd(dp, n)
  <1>1. ASSUME NEW j \in 1 .. n PROVE dp[<<1 .. n, j>>] \in Nat
    <2>1. <<1 .. n, j>> \in Cells(n)
      BY DEF Cells
    <2> QED
      BY <2>1 DEF HkFacts
  <1>2. V \in SUBSET Nat /\ V # {}
    <2>1. 1 \in 1 .. n
      OBVIOUS
    <2> QED
      BY <1>1, <2>1
  <1>3. Min(V) \in V /\ \A y \in V : Min(V) <= y
    BY <1>2, LeastNat
  <1>4. E \in SUBSET Nat /\ E # {}
    <2>1. PICK j \in 1 .. n : dp[<<1 .. n, j>>] = Min(V)
      BY <1>3
    <2>2. ASSUME NEW k \in 1 .. n PROVE dp[<<1 .. n, j>>] <= dp[<<1 .. n, k>>]
      <3>1. dp[<<1 .. n, k>>] \in V
        OBVIOUS
      <3> QED
        BY <1>3, <2>1, <3>1
    <2>3. j \in E
      BY <2>2
    <2> QED
      BY <2>3
  <1>5. e \in E
    BY <1>4, LeastNat DEF HkEnd
  <1> HIDE DEF e, V
  <1>6. e \in 1 .. n /\ \A k \in 1 .. n : dp[<<1 .. n, e>>] <= dp[<<1 .. n, k>>]
    BY <1>5
  <1>7. 2 \in 1 .. n /\ 1 \in 1 .. n /\ 1 .. n # {1} /\ 1 .. n \in SUBSET (1 .. n)
    <2>1. 2 \in 1 .. n /\ 1 \in 1 .. n
      OBVIOUS
    <2> QED
      BY <2>1
  <1>8. HkReach(1 .. n, n, 2)
    BY <1>7 DEF HkReach
  <1>9. dp[<<1 .. n, 2>>] <= (Cardinality(1 .. n) - 1) * c
    BY <1>8, HkBound
  <1>10. Cardinality(1 .. n) = n
    BY FS_Interval
  <1>11. (n - 1) * c = n * c - c /\ n * c \in Nat
    OBVIOUS
  <1>12. dp[<<1 .. n, 2>>] < Inf
    BY <1>1, <1>7, <1>9, <1>10, <1>11, InfIsNat
  <1>13. dp[<<1 .. n, e>>] < Inf
    BY <1>1, <1>6, <1>7, <1>12, InfIsNat
  <1>14. e # 1
    <2>1. dp[<<1 .. n, 1>>] = HkCell(dp, cost, 1 .. n, 1)
      BY <1>7 DEF HkFacts
    <2>2. HkCell(dp, cost, 1 .. n, 1) = Inf
      BY <1>7 DEF HkCell
    <2> QED
      BY <1>13, <2>1, <2>2, InfIsNat
  <1>15. HkReach(1 .. n, n, e)
    BY <1>6, <1>7, <1>14 DEF HkReach
  <1> QED
    BY <1>6, <1>13, <1>15 DEF HkGood, e

\* The costs between the nodes of start.
CostsOf(start, links) == [e \in (1 .. Len(start)) \X (1 .. Len(start)) |-> edgeCost(links, start[e[1]], start[e[2]])]
Bounded(start, links, c) ==
    \A i, k \in 1 .. Len(start) : edgeCost(links, start[i], start[k]) \in Nat /\ edgeCost(links, start[i], start[k]) <= c

\* The path back of the cheapest end.
HeldKarpBack(start, links, f) ==
    LET n == Len(start)
        cost == CostsOf(start, links)
        dp == hkTable(n, cost)
    IN  /\ HkFacts(dp, n, cost) /\ Priced(n, cost)
        /\ heldKarpPath(start, links) = [k \in 1 .. n |-> start[f[n - k][2]]]
        /\ \A k \in 0 .. n - 1 : BackAt(f, n, dp, k)
        /\ \A k \in 1 .. n - 1 : BackHop(f, dp, cost, k)
        /\ f[0][1] = 1 .. n
        /\ \A k \in 1 .. n : dp[f[0]] <= dp[<<1 .. n, k>>]

\* heldKarpPath follows a tour back from the cheapest end.
LEMMA HeldKarpHolds ==
    ASSUME NEW start, Len(start) \in Nat, Len(start) >= 2, NEW links, NEW c \in Nat, Bounded(start, links, c), Len(start) * c < Inf
    PROVE  \E f : HeldKarpBack(start, links, f)
  <1>0. PICK n, cost, dp : n = Len(start) /\ cost = CostsOf(start, links) /\ dp = hkTable(n, cost)
    OBVIOUS
  <1>1. n \in Nat /\ n >= 2 /\ n * c < Inf /\ n - 1 \in Nat /\ n \in Nat \ {0}
    BY <1>0
  <1>2. ASSUME NEW i \in 1 .. n, NEW k \in 1 .. n PROVE cost[<<i, k>>] \in Nat /\ cost[<<i, k>>] <= c
    BY <1>0 DEF CostsOf, Bounded
  <1>3. Priced(n, cost) /\ \A i, k \in 1 .. n : cost[<<i, k>>] <= c
    BY <1>2 DEF Priced
  <1>4. HkFacts(dp, n, cost)
    BY <1>0, <1>1, <1>3, HkTable
  <1>5. HkGood(dp, n, 1 .. n, HkEnd(dp, n)) /\ \A k \in 1 .. n : dp[<<1 .. n, HkEnd(dp, n)>>] <= dp[<<1 .. n, k>>]
    BY <1>1, <1>3, <1>4, HkEndGood
  <1>6. PICK last : last = HkEnd(dp, n)
    OBVIOUS
  <1> DEFINE Eq(f) == Back(f, n - 1, 1 .. n, last, dp, cost)
             g == CHOOSE f : Eq(f)
  <1>7. \E f : Eq(f)
    BY <1>1, BackExists
  <1>8. hkPath(start, dp, cost, last) = [k \in 1 .. n |-> start[g[n - k][2]]]
    BY <1>0 DEF hkPath, Back
  <1>9. heldKarpPath(start, links) = hkPath(start, dp, cost, last)
    BY <1>0, <1>1, <1>6 DEF heldKarpPath, CostsOf, HkEnd
  <1> HIDE DEF Eq
  <1>10. Eq(g)
    BY <1>7
  <1> HIDE DEF g
  <1>11. Back(g, n - 1, 1 .. n, last, dp, cost)
    BY <1>10 DEF Eq
  <1>12. /\ g[0] = <<1 .. n, last>>
         /\ \A k \in 0 .. n - 1 : BackAt(g, n, dp, k)
         /\ \A k \in 1 .. n - 1 : BackHop(g, dp, cost, k)
    BY <1>1, <1>3, <1>4, <1>5, <1>6, <1>11, BackHolds
  <1>13. g[0][1] = 1 .. n /\ \A k \in 1 .. n : dp[g[0]] <= dp[<<1 .. n, k>>]
    BY <1>5, <1>6, <1>12
  <1>14. HeldKarpBack(start, links, g)
    BY <1>0, <1>3, <1>4, <1>8, <1>9, <1>12, <1>13 DEF HeldKarpBack
  <1> QED
    BY <1>14

(***************************************************************************)
(* Routes                                                                  *)
(***************************************************************************)

-----------------------------------------------------------------------------
(***************************************************************************)
(* The heuristic order.                                                    *)
(***************************************************************************)
Least(L, c) == {k \in L : \A l \in L : c[k] <= c[l]}

\* A finite set has an element whose key is least, the lowest of them is Min.
LEMMA ArgMin ==
    ASSUME NEW L \in SUBSET Nat, IsFiniteSet(L), L # {}, NEW c, \A l \in L : c[l] \in Int
    PROVE  Min(Least(L, c)) \in Least(L, c)
  <1> DEFINE P == {s \in SUBSET L : s = {} \/ \E k \in s : \A l \in s : c[k] <= c[l]}
  <1>1. {} \in P
    OBVIOUS
  <1>2. ASSUME NEW s \in SUBSET L, NEW x \in L, s \in P, x \notin s PROVE s \cup {x} \in P
    <2>1. CASE s = {}
      <3>1. s \cup {x} = {x} /\ c[x] <= c[x]
        BY <2>1
      <3> QED
        BY <3>1
    <2>2. CASE s # {}
      <3>1. PICK k \in s : \A l \in s : c[k] <= c[l]
        BY <1>2, <2>2
      <3>2. CASE c[k] <= c[x]
        <4>1. k \in s \cup {x} /\ \A l \in s \cup {x} : c[k] <= c[l]
          BY <3>1, <3>2
        <4> QED
          BY <4>1
      <3>3. CASE ~(c[k] <= c[x])
        <4>1. x \in s \cup {x} /\ \A l \in s \cup {x} : c[x] <= c[l]
          BY <3>1, <3>3
        <4> QED
          BY <4>1
      <3> QED
        BY <3>2, <3>3
    <2> QED
      BY <2>1, <2>2
  <1> HIDE DEF P
  <1>3. L \in P
    BY <1>1, <1>2, SetInduct
  <1>4. \E k \in L : \A l \in L : c[k] <= c[l]
    BY <1>3 DEF P
  <1>5. Least(L, c) \in SUBSET Nat /\ Least(L, c) # {}
    BY <1>4 DEF Least
  <1> QED
    BY <1>5, LeastNat

\* The first l nodes of a route from host through N: no node twice.
RouteOf(r, l, host, N) ==
    r \in [1 .. l -> N] /\ r[1] = host /\ \A i, k \in 1 .. l : r[i] = r[k] => i = k

EdgesIn(links, N) == \A a, b \in N : edgeCost(links, a, b) \in Nat

\* Some node is left while the route is shorter than start.
LEMMA RouteOpen ==
    ASSUME NEW n \in Nat, NEW l \in Nat, l < n, NEW N, NEW host, NEW start, RouteOf(start, n, host, N),
           NEW r, RouteOf(r, l, host, N)
    PROVE  \E k \in 1 .. n : start[k] \notin ToSet(r)
  <1> SUFFICES ASSUME \A k \in 1 .. n : start[k] \in ToSet(r) PROVE FALSE
    OBVIOUS
  <1>0. DOMAIN r = 1 .. l /\ \A i, k \in 1 .. n : start[i] = start[k] => i = k
    BY DEF RouteOf
  <1>1. ASSUME NEW k \in 1 .. n PROVE \E i \in 1 .. l : r[i] = start[k]
    BY <1>0 DEF ToSet
  <1> DEFINE g == [k \in 1 .. n |-> CHOOSE i \in 1 .. l : r[i] = start[k]]
  <1>2. ASSUME NEW k \in 1 .. n PROVE g[k] \in 1 .. l /\ r[g[k]] = start[k]
    <2>1. g[k] = CHOOSE i \in 1 .. l : r[i] = start[k]
      OBVIOUS
    <2> QED
      BY <1>1, <2>1
  <1>3. g \in [1 .. n -> 1 .. l]
    BY <1>2
  <1> HIDE DEF g
  <1>4. /\ IsFiniteSet(1 .. n) /\ IsFiniteSet(1 .. l) /\ Cardinality(1 .. l) = l /\ Cardinality(1 .. n) = n
    BY FS_Interval
  <1>5. Cardinality(1 .. l) < Cardinality(1 .. n)
    BY <1>4
  <1>6. PICK x, y \in 1 .. n : x # y /\ g[x] = g[y]
    BY <1>3, <1>4, <1>5, FS_PigeonHole
  <1> QED
    BY <1>0, <1>2, <1>6

\* nearestNext is not on the route yet.
LEMMA NearestIsLeft ==
    ASSUME NEW n \in Nat, NEW l \in Nat \ {0}, l < n, NEW N, NEW links, EdgesIn(links, N), NEW host,
           NEW start, RouteOf(start, n, host, N), Len(start) = n, NEW r, RouteOf(r, l, host, N), Len(r) = l
    PROVE  nearestNext(start, links, r) \in N /\ \A i \in 1 .. l : r[i] # nearestNext(start, links, r)
  <1> DEFINE L == {k \in 1 .. Len(start) : start[k] \notin ToSet(r)}
             c == [k \in L |-> edgeCost(links, r[Len(r)], start[k])]
  <1>0. L \in SUBSET Nat /\ L # {}
    BY RouteOpen
  <1>1. IsFiniteSet(L)
    <2>1. IsFiniteSet(1 .. n) /\ L \in SUBSET (1 .. n)
      BY FS_Interval
    <2> QED
      BY <2>1, FS_Subset
  <1>2. ASSUME NEW k \in L PROVE c[k] = edgeCost(links, r[Len(r)], start[k]) /\ c[k] \in Int
    <2>1. r[l] \in N /\ start[k] \in N
      BY DEF RouteOf
    <2> QED
      BY <2>1 DEF EdgesIn
  <1>3. Least(L, c) = {k \in L : \A m \in L : edgeCost(links, r[Len(r)], start[k]) <= edgeCost(links, r[Len(r)], start[m])}
    BY <1>2 DEF Least
  <1>4. nearestNext(start, links, r) = start[Min(Least(L, c))]
    BY <1>3 DEF nearestNext
  <1> HIDE DEF c
  <1>5. Min(Least(L, c)) \in Least(L, c)
    BY <1>0, <1>1, <1>2, ArgMin
  <1>6. Min(Least(L, c)) \in L
    BY <1>5 DEF Least
  <1>7. PICK k : k = Min(Least(L, c))
    OBVIOUS
  <1>8. k \in 1 .. n /\ start[k] \notin ToSet(r) /\ nearestNext(start, links, r) = start[k]
    BY <1>4, <1>6, <1>7
  <1>9. start[k] \in N
    BY <1>8 DEF RouteOf
  <1>10. ASSUME NEW i \in 1 .. l PROVE r[i] \in ToSet(r)
    BY DEF RouteOf, ToSet
  <1> QED
    BY <1>8, <1>9, <1>10

LEMMA SeqIsFunction == ASSUME NEW N, NEW s \in Seq(N) PROVE s \in [1 .. Len(s) -> N] /\ Len(s) \in Nat
  OBVIOUS

\* A route grows by a node it has not visited.
LEMMA RouteGrows ==
    ASSUME NEW l \in Nat \ {0}, NEW N, NEW host, NEW r, RouteOf(r, l, host, N), NEW x \in N, \A i \in 1 .. l : r[i] # x
    PROVE  RouteOf(Append(r, x), l + 1, host, N) /\ Len(Append(r, x)) = l + 1
  <1>1. r \in Seq(N) /\ Len(r) = l
    BY DEF RouteOf
  <1>2. Append(r, x) \in Seq(N) /\ Len(Append(r, x)) = l + 1 /\ Append(r, x)[l + 1] = x
    BY <1>1
  <1>3. \A i \in 1 .. l : Append(r, x)[i] = r[i]
    BY <1>1
  <1>4. Append(r, x) \in [1 .. l + 1 -> N]
    BY <1>2, SeqIsFunction
  <1>5. Append(r, x)[1] = host
    BY <1>3 DEF RouteOf
  <1>6. ASSUME NEW i \in 1 .. l + 1, NEW k \in 1 .. l + 1, Append(r, x)[i] = Append(r, x)[k] PROVE i = k
    <2>1. (i \in 1 .. l \/ i = l + 1) /\ (k \in 1 .. l \/ k = l + 1)
      OBVIOUS
    <2> QED
      BY <1>2, <1>3, <1>6, <2>1 DEF RouteOf
  <1> QED
    BY <1>2, <1>4, <1>5, <1>6 DEF RouteOf

(***************************************************************************)
(* The greedy path and 2-opt                                               *)
(***************************************************************************)

Grown(f, N, start, links) == f = [m \in 0 .. N |-> IF m = 0 THEN <<start[1]>> ELSE Append(f[m - 1], nearestNext(start, links, f[m - 1]))]

\* The recursion of nearestNeighborOrder has a solution.
LEMMA GrownExists ==
    ASSUME NEW N \in Nat, NEW start, NEW links
    PROVE  \E f : Grown(f, N, start, links)
  <1> DEFINE Q == {n \in Nat : \E f : Grown(f, n, start, links)}
  <1>1. 0 \in Q
    <2> DEFINE f == [m \in 0 .. 0 |-> <<start[1]>>]
    <2>1. Grown(f, 0, start, links)
      BY DEF Grown
    <2> QED
      BY <2>1
  <1>2. ASSUME NEW n \in Q PROVE n + 1 \in Q
    <2>1. PICK f : Grown(f, n, start, links)
      BY <1>2
    <2> DEFINE h == [m \in 0 .. n + 1 |-> IF m = 0 THEN <<start[1]>> ELSE Append(f[m - 1], nearestNext(start, links, f[m - 1]))]
    <2>2. n \in Nat
      BY <1>2
    <2>3. ASSUME NEW m \in 0 .. n PROVE h[m] = f[m]
      <3>1. f[m] = IF m = 0 THEN <<start[1]>> ELSE Append(f[m - 1], nearestNext(start, links, f[m - 1]))
        BY <2>1 DEF Grown
      <3>2. h[m] = IF m = 0 THEN <<start[1]>> ELSE Append(f[m - 1], nearestNext(start, links, f[m - 1]))
        BY <2>2
      <3> HIDE DEF h
      <3> QED
        BY <3>1, <3>2
    <2>4. ASSUME NEW m \in 0 .. n + 1 PROVE h[m] = IF m = 0 THEN <<start[1]>> ELSE Append(h[m - 1], nearestNext(start, links, h[m - 1]))
      <3>1. CASE m = 0
        BY <2>2, <3>1
      <3>2. CASE m # 0
        <4>1. m - 1 \in 0 .. n
          BY <2>2, <3>2
        <4>2. h[m - 1] = f[m - 1]
          BY <2>3, <4>1
        <4>3. h[m] = Append(f[m - 1], nearestNext(start, links, f[m - 1]))
          BY <3>2
        <4> HIDE DEF h
        <4> QED
          BY <3>2, <4>2, <4>3
      <3> QED
        BY <3>1, <3>2
    <2>5. h = [m \in 0 .. n + 1 |-> h[m]]
      OBVIOUS
    <2>6. Grown(h, n + 1, start, links)
      <3> HIDE DEF h
      <3> QED
        BY <2>4, <2>5 DEF Grown
    <2> HIDE DEF h
    <2> QED
      BY <2>2, <2>6
  <1>3. Q \in SUBSET Nat
    OBVIOUS
  <1> HIDE DEF Q
  <1>4. Q = Nat
    BY <1>1, <1>2, <1>3, NatInduct
  <1> QED
    BY <1>4 DEF Q

LEMMA GrownSteps ==
    ASSUME NEW N \in Nat, NEW start, NEW links, NEW f, Grown(f, N, start, links)
    PROVE  f[0] = <<start[1]>> /\ \A m \in 1 .. N : f[m] = Append(f[m - 1], nearestNext(start, links, f[m - 1]))
  <1>1. ASSUME NEW m \in 0 .. N PROVE f[m] = IF m = 0 THEN <<start[1]>> ELSE Append(f[m - 1], nearestNext(start, links, f[m - 1]))
    BY DEF Grown
  <1>2. f[0] = <<start[1]>>
    <2>1. 0 \in 0 .. N
      OBVIOUS
    <2> QED
      BY <1>1, <2>1
  <1>3. ASSUME NEW m \in 1 .. N PROVE f[m] = Append(f[m - 1], nearestNext(start, links, f[m - 1]))
    <2>1. m \in 0 .. N /\ m # 0
      OBVIOUS
    <2> QED
      BY <1>1, <2>1
  <1> QED
    BY <1>2, <1>3

\* nearestNeighborOrder visits every node once, the host first.
LEMMA NearestHolds ==
    ASSUME NEW n \in Nat \ {0}, NEW N, NEW links, EdgesIn(links, N), NEW host,
           NEW start, RouteOf(start, n, host, N), Len(start) = n
    PROVE  RouteOf(nearestNeighborOrder(start, links), n, host, N)
  <1> DEFINE Eq(f) == Grown(f, n - 1, start, links)
             g == CHOOSE f : Eq(f)
  <1>0. n - 1 \in Nat
    OBVIOUS
  <1>1. \E f : Eq(f)
    BY <1>0, GrownExists
  <1>2. nearestNeighborOrder(start, links) = g[n - 1]
    BY DEF nearestNeighborOrder, Grown
  <1> HIDE DEF Eq
  <1>3. Eq(g)
    BY <1>1
  <1> HIDE DEF g
  <1>4. g[0] = <<start[1]>> /\ \A m \in 1 .. n - 1 : g[m] = Append(g[m - 1], nearestNext(start, links, g[m - 1]))
    BY <1>0, <1>3, GrownSteps DEF Eq
  <1> DEFINE Q == {k \in Nat : k <= n - 1 => RouteOf(g[k], k + 1, host, N) /\ Len(g[k]) = k + 1}
  <1>5. 0 \in Q
    <2>1. 1 \in 1 .. n /\ start[1] \in N /\ start[1] = host
      BY DEF RouteOf
    <2>2. RouteOf(<<start[1]>>, 0 + 1, host, N) /\ Len(<<start[1]>>) = 0 + 1
      BY <2>1 DEF RouteOf
    <2> QED
      BY <1>4, <2>2
  <1>6. ASSUME NEW k \in Q PROVE k + 1 \in Q
    <2>0. k \in Nat /\ k + 1 \in Nat \ {0}
      BY <1>6
    <2>1. ASSUME k + 1 <= n - 1 PROVE RouteOf(g[k + 1], (k + 1) + 1, host, N) /\ Len(g[k + 1]) = (k + 1) + 1
      <3>1. RouteOf(g[k], k + 1, host, N) /\ Len(g[k]) = k + 1 /\ k + 1 < n
        BY <1>6, <2>0, <2>1
      <3>2. PICK x : x = nearestNext(start, links, g[k])
        OBVIOUS
      <3>3. x \in N /\ \A i \in 1 .. k + 1 : g[k][i] # x
        BY <2>0, <3>1, <3>2, NearestIsLeft
      <3>4. k + 1 \in 1 .. n - 1 /\ (k + 1) - 1 = k
        BY <2>0, <2>1
      <3>5. g[k + 1] = Append(g[k], x)
        BY <1>4, <3>2, <3>4
      <3> QED
        BY <2>0, <3>1, <3>3, <3>5, RouteGrows
    <2> QED
      BY <2>0, <2>1
  <1>7. Q \in SUBSET Nat
    OBVIOUS
  <1> HIDE DEF Q
  <1>8. n - 1 \in Q
    BY <1>0, <1>5, <1>6, <1>7, NatInduct
  <1>9. RouteOf(g[n - 1], (n - 1) + 1, host, N) /\ (n - 1) + 1 = n
    BY <1>0, <1>8 DEF Q
  <1> QED
    BY <1>2, <1>9

\* The cost of a route is a natural.
LEMMA OrderCostNat ==
    ASSUME NEW n \in Nat, NEW N, NEW links, EdgesIn(links, N), NEW r \in [1 .. n -> N]
    PROVE  orderCost(r, links) \in Nat
  <1>0. Len(r) = n
    OBVIOUS
  <1> DEFINE g == [i \in 1 .. n - 1 |-> edgeCost(links, r[i], r[i + 1])]
  <1>1. orderCost(r, links) = SumOf(g)
    BY <1>0 DEF orderCost, SumOf
  <1>2. ASSUME NEW i \in 1 .. n - 1 PROVE g[i] \in Nat
    <2>1. r[i] \in N /\ r[i + 1] \in N
      OBVIOUS
    <2> QED
      BY <2>1 DEF EdgesIn
  <1>3. Part(g, 1 .. n - 1) = g
    BY DEF Part
  <1> HIDE DEF g
  <1>4. Nats(g, 1 .. n - 1)
    BY <1>2 DEF Nats
  <1>5. IsFiniteSet(1 .. n - 1)
    BY FS_Interval
  <1>6. SumAt(g, 1 .. n - 1) \in Nat
    BY <1>4, <1>5, SumAtNat
  <1> QED
    BY <1>1, <1>3, <1>6 DEF SumAt

\* Reversing a segment after the host leaves a route.
LEMMA ReversedHolds ==
    ASSUME NEW n \in Nat, NEW N, NEW host, NEW r, RouteOf(r, n, host, N), NEW i \in Nat, NEW k \in Nat, 2 <= i, i < k, k <= n
    PROVE  RouteOf(reversed(r, i, k), n, host, N)
  <1>0. r \in [1 .. n -> N] /\ Len(r) = n
    BY DEF RouteOf
  <1> DEFINE s == reversed(r, i, k)
             at(x) == IF x \in i .. k THEN i + k - x ELSE x
  <1>1. s = [x \in 1 .. n |-> r[at(x)]]
    BY <1>0 DEF reversed
  <1>2. ASSUME NEW x \in 1 .. n PROVE at(x) \in 1 .. n
    OBVIOUS
  <1>3. s \in [1 .. n -> N]
    BY <1>0, <1>1, <1>2
  <1>4. s[1] = r[1] /\ 1 \in 1 .. n
    BY <1>1
  <1>5. ASSUME NEW x \in 1 .. n, NEW y \in 1 .. n, s[x] = s[y] PROVE x = y
    <2>1. r[at(x)] = r[at(y)]
      BY <1>1, <1>5
    <2>2. at(x) = at(y)
      BY <1>2, <2>1 DEF RouteOf
    <2> QED
      BY <2>2
  <1> QED
    BY <1>3, <1>4, <1>5 DEF RouteOf

\* A route that is no dearer than b.
Within(r, n, host, N, links, b) == RouteOf(r, n, host, N) /\ orderCost(r, links) <= b

\* One attempt of 2-opt keeps a route within its bound.
LEMMA TryHolds ==
    ASSUME NEW n \in Nat, NEW N, NEW links, EdgesIn(links, N), NEW host, NEW b \in Nat, NEW r, Within(r, n, host, N, links, b),
           NEW i \in Nat, NEW k \in Nat, k <= n
    PROVE  Within(twoOptTry(links, r, i, k), n, host, N, links, b)
  <1>1. CASE 2 <= i /\ i < k /\ orderCost(reversed(r, i, k), links) < orderCost(r, links)
    <2>1. RouteOf(reversed(r, i, k), n, host, N) /\ RouteOf(r, n, host, N)
      BY <1>1, ReversedHolds DEF Within
    <2>2. orderCost(reversed(r, i, k), links) \in Nat /\ orderCost(r, links) \in Nat
      BY <2>1, OrderCostNat DEF RouteOf
    <2>3. orderCost(reversed(r, i, k), links) <= b
      BY <1>1, <2>2 DEF Within
    <2>4. twoOptTry(links, r, i, k) = reversed(r, i, k)
      BY <1>1 DEF twoOptTry
    <2> QED
      BY <2>1, <2>3, <2>4 DEF Within
  <1>2. CASE ~(2 <= i /\ i < k /\ orderCost(reversed(r, i, k), links) < orderCost(r, links))
    BY <1>2 DEF twoOptTry
  <1> QED
    BY <1>1, <1>2

Swept(f, N, r, links, d) == f = [m \in 0 .. N |-> IF m = 0 THEN r ELSE twoOptTry(links, f[m - 1], m \div d, m % d)]

LEMMA SweptExists ==
    ASSUME NEW N \in Nat, NEW r, NEW links, NEW d
    PROVE  \E f : Swept(f, N, r, links, d)
  <1> DEFINE Q == {n \in Nat : \E f : Swept(f, n, r, links, d)}
  <1>1. 0 \in Q
    <2> DEFINE f == [m \in 0 .. 0 |-> r]
    <2>1. Swept(f, 0, r, links, d)
      BY DEF Swept
    <2> QED
      BY <2>1
  <1>2. ASSUME NEW n \in Q PROVE n + 1 \in Q
    <2>1. PICK f : Swept(f, n, r, links, d)
      BY <1>2
    <2> DEFINE h == [m \in 0 .. n + 1 |-> IF m = 0 THEN r ELSE twoOptTry(links, f[m - 1], m \div d, m % d)]
    <2>2. n \in Nat
      BY <1>2
    <2>3. ASSUME NEW m \in 0 .. n PROVE h[m] = f[m]
      <3>1. f[m] = IF m = 0 THEN r ELSE twoOptTry(links, f[m - 1], m \div d, m % d)
        BY <2>1 DEF Swept
      <3>2. h[m] = IF m = 0 THEN r ELSE twoOptTry(links, f[m - 1], m \div d, m % d)
        BY <2>2
      <3> HIDE DEF h
      <3> QED
        BY <3>1, <3>2
    <2>4. ASSUME NEW m \in 0 .. n + 1 PROVE h[m] = IF m = 0 THEN r ELSE twoOptTry(links, h[m - 1], m \div d, m % d)
      <3>1. CASE m = 0
        BY <2>2, <3>1
      <3>2. CASE m # 0
        <4>1. m - 1 \in 0 .. n
          BY <2>2, <3>2
        <4>2. h[m - 1] = f[m - 1]
          BY <2>3, <4>1
        <4>3. h[m] = twoOptTry(links, f[m - 1], m \div d, m % d)
          BY <3>2
        <4> HIDE DEF h
        <4> QED
          BY <3>2, <4>2, <4>3
      <3> QED
        BY <3>1, <3>2
    <2>5. h = [m \in 0 .. n + 1 |-> h[m]]
      OBVIOUS
    <2>6. Swept(h, n + 1, r, links, d)
      <3> HIDE DEF h
      <3> QED
        BY <2>4, <2>5 DEF Swept
    <2> HIDE DEF h
    <2> QED
      BY <2>2, <2>6
  <1>3. Q \in SUBSET Nat
    OBVIOUS
  <1> HIDE DEF Q
  <1>4. Q = Nat
    BY <1>1, <1>2, <1>3, NatInduct
  <1> QED
    BY <1>4 DEF Q

LEMMA SweptSteps ==
    ASSUME NEW N \in Nat, NEW r, NEW links, NEW d, NEW f, Swept(f, N, r, links, d)
    PROVE  f[0] = r /\ \A m \in 1 .. N : f[m] = twoOptTry(links, f[m - 1], m \div d, m % d)
  <1>1. ASSUME NEW m \in 0 .. N PROVE f[m] = IF m = 0 THEN r ELSE twoOptTry(links, f[m - 1], m \div d, m % d)
    BY DEF Swept
  <1>2. f[0] = r
    <2>1. 0 \in 0 .. N
      OBVIOUS
    <2> QED
      BY <1>1, <2>1
  <1>3. ASSUME NEW m \in 1 .. N PROVE f[m] = twoOptTry(links, f[m - 1], m \div d, m % d)
    <2>1. m \in 0 .. N /\ m # 0
      OBVIOUS
    <2> QED
      BY <1>1, <2>1
  <1> QED
    BY <1>2, <1>3

\* One sweep keeps a route within its bound.
LEMMA SweepHolds ==
    ASSUME NEW n \in Nat, NEW N, NEW links, EdgesIn(links, N), NEW host, NEW b \in Nat, NEW r, Within(r, n, host, N, links, b)
    PROVE  Within(twoOptSweep(links, r), n, host, N, links, b)
  <1>0. PICK M, d : M = n * (n + 1) + n /\ d = n + 1
    OBVIOUS
  <1>a. M \in Nat /\ d \in Nat \ {0} /\ Len(r) = n
    BY <1>0 DEF Within, RouteOf
  <1> DEFINE Eq(f) == Swept(f, M, r, links, d)
             g == CHOOSE f : Eq(f)
  <1>1. \E f : Eq(f)
    BY <1>a, SweptExists
  <1>2. twoOptSweep(links, r) = g[M]
    BY <1>0, <1>a DEF twoOptSweep, Swept
  <1> HIDE DEF Eq
  <1>3. Eq(g)
    BY <1>1
  <1> HIDE DEF g
  <1>4. g[0] = r /\ \A m \in 1 .. M : g[m] = twoOptTry(links, g[m - 1], m \div d, m % d)
    BY <1>a, <1>3, SweptSteps DEF Eq
  <1> DEFINE Q == {k \in Nat : k <= M => Within(g[k], n, host, N, links, b)}
  <1>5. 0 \in Q
    BY <1>4
  <1>6. ASSUME NEW k \in Q PROVE k + 1 \in Q
    <2>0. k \in Nat
      BY <1>6
    <2>1. ASSUME k + 1 <= M PROVE Within(g[k + 1], n, host, N, links, b)
      <3>1. k + 1 \in 1 .. M /\ (k + 1) - 1 = k
        BY <1>a, <2>0, <2>1
      <3>2. Within(g[k], n, host, N, links, b)
        BY <1>a, <1>6, <2>0, <2>1
      <3>3. (k + 1) \div d \in Nat /\ (k + 1) % d \in Nat /\ (k + 1) % d <= n
        BY <1>0, <1>a, <2>0
      <3>4. g[k + 1] = twoOptTry(links, g[k], (k + 1) \div d, (k + 1) % d)
        BY <1>4, <3>1
      <3> QED
        BY <3>2, <3>3, <3>4, TryHolds
    <2> QED
      BY <2>0, <2>1
  <1>7. Q \in SUBSET Nat
    OBVIOUS
  <1> HIDE DEF Q
  <1>8. M \in Q
    BY <1>a, <1>5, <1>6, <1>7, NatInduct
  <1>9. Within(g[M], n, host, N, links, b)
    BY <1>a, <1>8 DEF Q
  <1> QED
    BY <1>2, <1>9

Passes(f, N, r, links) == f = [m \in 0 .. N |-> IF m = 0 THEN r ELSE twoOptSweep(links, f[m - 1])]

LEMMA PassesExists ==
    ASSUME NEW N \in Nat, NEW r, NEW links
    PROVE  \E f : Passes(f, N, r, links)
  <1> DEFINE Q == {n \in Nat : \E f : Passes(f, n, r, links)}
  <1>1. 0 \in Q
    <2> DEFINE f == [m \in 0 .. 0 |-> r]
    <2>1. Passes(f, 0, r, links)
      BY DEF Passes
    <2> QED
      BY <2>1
  <1>2. ASSUME NEW n \in Q PROVE n + 1 \in Q
    <2>1. PICK f : Passes(f, n, r, links)
      BY <1>2
    <2> DEFINE h == [m \in 0 .. n + 1 |-> IF m = 0 THEN r ELSE twoOptSweep(links, f[m - 1])]
    <2>2. n \in Nat
      BY <1>2
    <2>3. ASSUME NEW m \in 0 .. n PROVE h[m] = f[m]
      <3>1. f[m] = IF m = 0 THEN r ELSE twoOptSweep(links, f[m - 1])
        BY <2>1 DEF Passes
      <3>2. h[m] = IF m = 0 THEN r ELSE twoOptSweep(links, f[m - 1])
        BY <2>2
      <3> HIDE DEF h
      <3> QED
        BY <3>1, <3>2
    <2>4. ASSUME NEW m \in 0 .. n + 1 PROVE h[m] = IF m = 0 THEN r ELSE twoOptSweep(links, h[m - 1])
      <3>1. CASE m = 0
        BY <2>2, <3>1
      <3>2. CASE m # 0
        <4>1. m - 1 \in 0 .. n
          BY <2>2, <3>2
        <4>2. h[m - 1] = f[m - 1]
          BY <2>3, <4>1
        <4>3. h[m] = twoOptSweep(links, f[m - 1])
          BY <3>2
        <4> HIDE DEF h
        <4> QED
          BY <3>2, <4>2, <4>3
      <3> QED
        BY <3>1, <3>2
    <2>5. h = [m \in 0 .. n + 1 |-> h[m]]
      OBVIOUS
    <2>6. Passes(h, n + 1, r, links)
      <3> HIDE DEF h
      <3> QED
        BY <2>4, <2>5 DEF Passes
    <2> HIDE DEF h
    <2> QED
      BY <2>2, <2>6
  <1>3. Q \in SUBSET Nat
    OBVIOUS
  <1> HIDE DEF Q
  <1>4. Q = Nat
    BY <1>1, <1>2, <1>3, NatInduct
  <1> QED
    BY <1>4 DEF Q

LEMMA PassesSteps ==
    ASSUME NEW N \in Nat, NEW r, NEW links, NEW f, Passes(f, N, r, links)
    PROVE  f[0] = r /\ \A m \in 1 .. N : f[m] = twoOptSweep(links, f[m - 1])
  <1>1. ASSUME NEW m \in 0 .. N PROVE f[m] = IF m = 0 THEN r ELSE twoOptSweep(links, f[m - 1])
    BY DEF Passes
  <1>2. f[0] = r
    <2>1. 0 \in 0 .. N
      OBVIOUS
    <2> QED
      BY <1>1, <2>1
  <1>3. ASSUME NEW m \in 1 .. N PROVE f[m] = twoOptSweep(links, f[m - 1])
    <2>1. m \in 0 .. N /\ m # 0
      OBVIOUS
    <2> QED
      BY <1>1, <2>1
  <1> QED
    BY <1>2, <1>3

\* 2-opt keeps the nodes and the host, and never ends dearer.
LEMMA ImproveHolds ==
    ASSUME NEW n \in Nat, NEW N, NEW links, EdgesIn(links, N), NEW host, NEW r, RouteOf(r, n, host, N)
    PROVE  Within(twoOptImprove(r, links), n, host, N, links, orderCost(r, links))
  <1>0. PICK M, b : M = TwoOptMaxPasses /\ b = orderCost(r, links)
    OBVIOUS
  <1>a. M \in Nat /\ b \in Nat
    BY <1>0, PartitionAssumption, OrderCostNat DEF RouteOf
  <1>b. Within(r, n, host, N, links, b)
    BY <1>0, <1>a DEF Within
  <1> DEFINE Eq(f) == Passes(f, M, r, links)
             g == CHOOSE f : Eq(f)
  <1>1. \E f : Eq(f)
    BY <1>a, PassesExists
  <1>2. twoOptImprove(r, links) = IF Len(r) < 4 THEN r ELSE g[M]
    BY <1>0 DEF twoOptImprove, Passes
  <1> HIDE DEF Eq
  <1>3. Eq(g)
    BY <1>1
  <1> HIDE DEF g
  <1>4. g[0] = r /\ \A m \in 1 .. M : g[m] = twoOptSweep(links, g[m - 1])
    BY <1>a, <1>3, PassesSteps DEF Eq
  <1> DEFINE Q == {k \in Nat : k <= M => Within(g[k], n, host, N, links, b)}
  <1>5. 0 \in Q
    BY <1>b, <1>4
  <1>6. ASSUME NEW k \in Q PROVE k + 1 \in Q
    <2>0. k \in Nat
      BY <1>6
    <2>1. ASSUME k + 1 <= M PROVE Within(g[k + 1], n, host, N, links, b)
      <3>1. k + 1 \in 1 .. M /\ (k + 1) - 1 = k
        BY <1>a, <2>0, <2>1
      <3>2. Within(g[k], n, host, N, links, b)
        BY <1>a, <1>6, <2>0, <2>1
      <3>4. g[k + 1] = twoOptSweep(links, g[k])
        BY <1>4, <3>1
      <3> QED
        BY <1>a, <3>2, <3>4, SweepHolds
    <2> QED
      BY <2>0, <2>1
  <1>7. Q \in SUBSET Nat
    OBVIOUS
  <1> HIDE DEF Q
  <1>8. M \in Q
    BY <1>a, <1>5, <1>6, <1>7, NatInduct
  <1>9. Within(g[M], n, host, N, links, b)
    BY <1>a, <1>8 DEF Q
  <1> QED
    BY <1>0, <1>b, <1>2, <1>9

(***************************************************************************)
(* orderNodes                                                              *)
(***************************************************************************)

-----------------------------------------------------------------------------
(***************************************************************************)
(* The order of the nodes.                                                 *)
(***************************************************************************)
LEMMA DivBelow == ASSUME NEW n \in Nat \ {0}, NEW K \in Nat PROVE n * (K \div n) <= K /\ K \div n \in Nat
  OBVIOUS

LEMMA DivLargest == ASSUME NEW n \in Nat \ {0}, NEW K \in Nat, NEW e \in Nat, n * e <= K PROVE e <= K \div n
  <1>1. PICK q \in Nat : q = K \div n
    OBVIOUS
  <1>2. K < n * q + n
    BY <1>1
  <1>3. SUFFICES ASSUME e > q PROVE FALSE
    BY <1>1
  <1>4. e >= q + 1
    BY <1>3
  <1>5. n * e >= n * (q + 1)
    BY <1>4
  <1>6. n * (q + 1) = n * q + n
    OBVIOUS
  <1> QED
    BY <1>2, <1>5, <1>6

\* A path of D hops costs less than Inf.
Cheap(N, links, D) == \A a, b \in N : edgeCost(links, a, b) \in Nat /\ D * edgeCost(links, a, b) < Inf
Ranked(N, hw) == \A x \in N : usefulCapacity(hw[x]) \in Nat

\* chooseHost is one of the nodes.
LEMMA HostIn ==
    ASSUME NEW N \in SUBSET Nat, IsFiniteSet(N), N # {}, NEW hw, Ranked(N, hw), NEW forceHost
    PROVE  chooseHost(N, hw, forceHost) \in N
  <1>1. CASE forceHost \in N
    BY <1>1 DEF chooseHost
  <1>2. CASE forceHost \notin N
    <2> DEFINE key == [x \in N |-> usefulCapacity(hw[x])]
    <2>1. Keyed(N, key)
      BY DEF Keyed, Ranked
    <2>2. PICK s : s = rankByCapacity(N, hw)
      OBVIOUS
    <2>3. s = sortedBy(N, key)
      BY <2>2 DEF rankByCapacity
    <2> HIDE DEF key
    <2>4. s \in [1 .. Cardinality(N) -> N] /\ Cardinality(N) \in Nat
      BY <2>1, <2>3, SortedHolds
    <2>5. Cardinality(N) # 0
      BY FS_EmptySet
    <2>6. s[1] \in N /\ Head(s) = s[1]
      BY <2>4, <2>5
    <2> QED
      BY <1>2, <2>2, <2>6 DEF chooseHost
  <1> QED
    BY <1>1, <1>2

\* The host swapped to the front.
Distinct(s, n) == \A i, k \in 1 .. n : s[i] = s[k] => i = k
Swapped(s, at, host) == [s EXCEPT ![1] = host, ![at] = s[1]]

\* Swapping the host to the front keeps the nodes distinct.
LEMMA SwapHolds ==
    ASSUME NEW n \in Nat \ {0}, NEW N, NEW s \in [1 .. n -> N], Distinct(s, n),
           NEW at \in 1 .. n, NEW host, s[at] = host, NEW t, t = Swapped(s, at, host)
    PROVE  RouteOf(t, n, host, N) /\ Len(t) = n
  <1>0. 1 \in 1 .. n /\ host \in N
    OBVIOUS
  <1>1. t \in [1 .. n -> N]
    BY <1>0 DEF Swapped
  <1>2. ASSUME NEW x \in 1 .. n PROVE t[x] = s[IF x = at THEN 1 ELSE IF x = 1 THEN at ELSE x]
    BY <1>0 DEF Swapped
  <1>3. t[1] = host
    BY <1>0, <1>2
  <1>4. ASSUME NEW x \in 1 .. n, NEW y \in 1 .. n, t[x] = t[y] PROVE x = y
    <2>1. (IF x = at THEN 1 ELSE IF x = 1 THEN at ELSE x) \in 1 .. n /\ (IF y = at THEN 1 ELSE IF y = 1 THEN at ELSE y) \in 1 .. n
      BY <1>0
    <2>2. (IF x = at THEN 1 ELSE IF x = 1 THEN at ELSE x) = (IF y = at THEN 1 ELSE IF y = 1 THEN at ELSE y)
      BY <1>2, <1>4, <2>1 DEF Distinct
    <2> QED
      BY <2>2
  <1> QED
    BY <1>1, <1>3, <1>4 DEF RouteOf

LEMMA CheapBounded ==
    ASSUME NEW D \in Nat \ {0}, NEW n \in Nat, n <= D, NEW N, NEW links, Cheap(N, links, D), NEW start \in [1 .. n -> N]
    PROVE  \E c \in Nat : Bounded(start, links, c) /\ n * c < Inf
  <1>0. Inf - 1 \in Nat /\ Inf \in Nat
    BY InfIsNat
  <1>1. PICK c \in Nat : c = (Inf - 1) \div D
    BY <1>0, DivBelow
  <1>2. D * c <= Inf - 1
    BY <1>0, <1>1, DivBelow
  <1>3. n * c <= D * c
    OBVIOUS
  <1>4. n * c < Inf
    BY <1>0, <1>2, <1>3
  <1>5. ASSUME NEW a \in N, NEW b \in N PROVE edgeCost(links, a, b) \in Nat /\ edgeCost(links, a, b) <= c
    <2>1. edgeCost(links, a, b) \in Nat /\ D * edgeCost(links, a, b) < Inf
      BY DEF Cheap
    <2>2. D * edgeCost(links, a, b) <= Inf - 1
      BY <1>0, <2>1
    <2>3. edgeCost(links, a, b) <= (Inf - 1) \div D
      BY <1>0, <2>1, <2>2, DivLargest
    <2> QED
      BY <1>1, <2>1, <2>3
  <1>6. Len(start) = n /\ \A i \in 1 .. n : start[i] \in N
    OBVIOUS
  <1>7. Bounded(start, links, c)
    BY <1>5, <1>6 DEF Bounded
  <1> QED
    BY <1>4, <1>7

\* The nodes in the order of a tour.
LEMMA TourHolds ==
    ASSUME NEW n \in Nat \ {0}, NEW N, NEW host, NEW start, RouteOf(start, n, host, N), NEW q, Tour(q, n)
    PROVE  RouteOf([k \in 1 .. n |-> start[q[k]]], n, host, N)
  BY DEF RouteOf, Tour

\* heldKarpPath visits every node once, the host first.
LEMMA HeldKarpRoute ==
    ASSUME NEW D \in Nat \ {0}, NEW n \in Nat \ {0}, n <= D, NEW N, NEW links, Cheap(N, links, D), NEW host,
           NEW start, RouteOf(start, n, host, N), Len(start) = n
    PROVE  RouteOf(heldKarpPath(start, links), n, host, N)
  <1>1. CASE n = 1
    BY <1>1 DEF heldKarpPath
  <1>2. CASE n # 1
    <2>0. start \in [1 .. n -> N] /\ n >= 2
      BY <1>2 DEF RouteOf
    <2>1. PICK c \in Nat : Bounded(start, links, c) /\ n * c < Inf
      BY <2>0, CheapBounded
    <2>2. PICK f : HeldKarpBack(start, links, f)
      BY <2>0, <2>1, HeldKarpHolds
    <2>3. PICK cost, dp : cost = CostsOf(start, links) /\ dp = hkTable(n, cost)
      OBVIOUS
    <2>4. /\ heldKarpPath(start, links) = [k \in 1 .. n |-> start[f[n - k][2]]]
          /\ \A k \in 0 .. n - 1 : BackAt(f, n, dp, k)
          /\ \A k \in 1 .. n - 1 : BackHop(f, dp, cost, k)
      BY <2>2, <2>3 DEF HeldKarpBack
    <2>5. PICK q : q = [k \in 1 .. n |-> f[n - k][2]]
      OBVIOUS
    <2>6. Tour(q, n)
      BY <2>4, <2>5, BackTour
    <2>7. heldKarpPath(start, links) = [k \in 1 .. n |-> start[q[k]]]
      BY <2>4, <2>5
    <2> QED
      BY <2>6, <2>7, TourHolds
  <1> QED
    BY <1>1, <1>2

\* orderNodes visits every node once, the host first, whichever search it uses.
LEMMA OrderHolds ==
    ASSUME NEW N \in SUBSET Nat, IsFiniteSet(N), N # {}, NEW n, n = Cardinality(N), NEW D \in Nat, n <= D,
           NEW hw, Ranked(N, hw), NEW links, Cheap(N, links, D), NEW forceHost, NEW host, host = chooseHost(N, hw, forceHost)
    PROVE  RouteOf(orderNodes(N, hw, links, forceHost), n, host, N)
  <1> DEFINE key == [x \in N |-> 0]
  <1>0. n \in Nat \ {0} /\ D \in Nat \ {0}
    <2>1. n \in Nat /\ n # 0
      BY FS_EmptySet, FS_CardinalityType
    <2> QED
      BY <2>1
  <1>1. Keyed(N, key)
    BY DEF Keyed
  <1>2. PICK s : s = sortedBy(N, key)
    OBVIOUS
  <1>3. s \in [1 .. n -> N] /\ (\A i, k \in 1 .. n : s[i] = s[k] => i = k) /\ (\A x \in N : \E i \in 1 .. n : s[i] = x)
    <2> HIDE DEF key
    <2> QED
      BY <1>1, <1>2, SortedHolds
  <1>4. Len(s) = n
    BY <1>0, <1>3
  <1>5. host \in N
    BY HostIn
  <1>6. PICK at : at = CHOOSE i \in 1 .. Len(s) : s[i] = host
    OBVIOUS
  <1>7. at \in 1 .. n /\ s[at] = host
    BY <1>3, <1>4, <1>5, <1>6
  <1>8. PICK t : t = Swapped(s, at, host)
    OBVIOUS
  <1>a. Distinct(s, n)
    BY <1>3 DEF Distinct
  <1>b. s \in [1 .. n -> N]
    BY <1>3
  <1>9. RouteOf(t, n, host, N) /\ Len(t) = n
    <2>1. ASSUME NEW a \in 1 .. n, NEW h, s[a] = h PROVE RouteOf(Swapped(s, a, h), n, h, N) /\ Len(Swapped(s, a, h)) = n
      BY <1>0, <1>a, <1>b, <2>1, SwapHolds
    <2> QED
      BY <1>7, <1>8, <2>1
  <1>10. orderNodes(N, hw, links, forceHost) =
            IF Len(s) <= HKThreshold THEN heldKarpPath(t, links) ELSE twoOptImprove(nearestNeighborOrder(t, links), links)
    BY <1>2, <1>6, <1>8 DEF orderNodes, Swapped
  <1>11. EdgesIn(links, N)
    BY DEF Cheap, EdgesIn
  <1>12. RouteOf(heldKarpPath(t, links), n, host, N)
    BY <1>0, <1>9, HeldKarpRoute
  <1>13. RouteOf(twoOptImprove(nearestNeighborOrder(t, links), links), n, host, N)
    <2>1. RouteOf(nearestNeighborOrder(t, links), n, host, N)
      BY <1>0, <1>9, <1>11, NearestHolds
    <2> QED
      BY <1>0, <1>11, <2>1, ImproveHolds DEF Within
  <1> QED
    BY <1>10, <1>12, <1>13

(***************************************************************************)
(* reconstructCuts and applyPinnedRanges                                   *)
(***************************************************************************)

-----------------------------------------------------------------------------
(***************************************************************************)
(* The shards of a plan.                                                   *)
(***************************************************************************)
Shard(a, N) ==
    /\ a = [node |-> a.node, host |-> a.host, start |-> a.start, end |-> a.end, draft |-> a.draft]
    /\ a.node \in N /\ a.start \in Nat /\ a.end \in Nat
Shards(sh, L, N) == sh = [m \in 1 .. L |-> sh[m]] /\ \A m \in 1 .. L : Shard(sh[m], N)
\* The shards cover the layers in order and without gaps.
Covers(sh, L) ==
    /\ sh[1].start = 0 /\ sh[L].end = Layers - 1
    /\ \A m \in 1 .. L : sh[m].start <= sh[m].end /\ (m < L => sh[m + 1].start = sh[m].end + 1)
ShardsOn(sh, L, N) ==
    L \in Nat \ {0} /\ Shards(sh, L, N) /\ Covers(sh, L) /\ \A m \in 1 .. L : sh[m].draft = FALSE

\* reconstructCuts: one shard per used node, without gaps.
LEMMA CutsHold ==
    ASSUME NEW n \in Nat, NEW N, NEW order \in [1 .. n -> N], NEW used \in 1 .. n, NEW e, NEW time, NEW b, EndsOf(e, used, time, b)
    PROVE  ShardsOn(reconstructCuts(e, order), used, N)
  <1> Layers \in Nat
    BY PartitionAssumption
  <1>0. e \in [1 .. used -> 1 .. Layers] /\ e[used] = Layers /\ Len(e) = used /\ \A m \in 1 .. used - 1 : e[m] < e[m + 1]
    BY DEF EndsOf
  <1> DEFINE sh == reconstructCuts(e, order)
  <1>1. sh = [m \in 1 .. used |-> [node |-> order[m], host |-> m = 1, start |-> IF m = 1 THEN 0 ELSE e[m - 1],
                                   end |-> e[m] - 1, draft |-> FALSE]]
    BY <1>0 DEF reconstructCuts
  <1>2. ASSUME NEW m \in 1 .. used
        PROVE  /\ order[m] \in N /\ (IF m = 1 THEN 0 ELSE e[m - 1]) \in Nat /\ e[m] - 1 \in Nat
               /\ (IF m = 1 THEN 0 ELSE e[m - 1]) <= e[m] - 1
    <2>1. e[m] \in 1 .. Layers /\ order[m] \in N
      BY <1>0
    <2>2. m # 1 => m - 1 \in 1 .. used - 1 /\ (m - 1) + 1 = m
      OBVIOUS
    <2>3. m # 1 => e[m - 1] \in 1 .. Layers /\ e[m - 1] < e[m]
      BY <1>0, <2>2
    <2> QED
      BY <2>1, <2>3
  <1>a. sh = [m \in 1 .. used |-> sh[m]]
    BY <1>1
  <1>4. ASSUME NEW m \in 1 .. used
        PROVE  /\ sh[m].start = (IF m = 1 THEN 0 ELSE e[m - 1]) /\ sh[m].end = e[m] - 1 /\ sh[m].draft = FALSE
               /\ Shard(sh[m], N)
    <2>1. PICK a : a = sh[m]
      OBVIOUS
    <2>2. PICK h : h = (m = 1)
      OBVIOUS
    <2>3. a = [node |-> order[m], host |-> h, start |-> IF m = 1 THEN 0 ELSE e[m - 1], end |-> e[m] - 1, draft |-> FALSE]
      BY <1>1, <2>1, <2>2
    <2> HIDE DEF sh
    <2>4. a.node = order[m] /\ a.start = (IF m = 1 THEN 0 ELSE e[m - 1]) /\ a.end = e[m] - 1 /\ a.draft = FALSE /\ a.host = h
      BY <2>3
    <2>5. Shard(a, N)
      BY <1>2, <2>3, <2>4 DEF Shard
    <2> QED
      BY <2>1, <2>4, <2>5
  <1> HIDE DEF sh
  <1>5. ASSUME NEW m \in 1 .. used, m < used PROVE sh[m + 1].start = sh[m].end + 1
    <2>1. m + 1 \in 1 .. used /\ m + 1 # 1 /\ (m + 1) - 1 = m /\ e[m] \in 1 .. Layers
      BY <1>0, <1>5
    <2>2. sh[m + 1].start = (IF m + 1 = 1 THEN 0 ELSE e[(m + 1) - 1])
      BY <1>4, <2>1
    <2>3. sh[m].end = e[m] - 1
      BY <1>4
    <2> QED
      BY <2>1, <2>2, <2>3
  <1>6. sh[1].start = 0 /\ sh[used].end = Layers - 1
    <2>1. 1 \in 1 .. used /\ used \in 1 .. used
      OBVIOUS
    <2> QED
      BY <1>0, <1>4, <2>1
  <1>7. Covers(sh, used)
    BY <1>2, <1>4, <1>5, <1>6 DEF Covers
  <1>b. Shards(sh, used, N)
    BY <1>a, <1>4 DEF Shards
  <1>c. used \in Nat \ {0}
    OBVIOUS
  <1>d. \A m \in 1 .. used : sh[m].draft = FALSE
    BY <1>4
  <1>8. ShardsOn(sh, used, N)
    BY <1>b, <1>c, <1>d, <1>7 DEF ShardsOn
  <1> QED
    BY <1>8 DEF sh

LEMMA ShardsLen == ASSUME NEW L \in Nat, NEW N, NEW sh, Shards(sh, L, N) PROVE Len(sh) = L /\ DOMAIN sh = 1 .. L
  BY DEF Shards

\* A pin moves one shard to another node of the order.
LEMMA PinHolds ==
    ASSUME NEW N, NEW order, ToSet(order) \subseteq N, NEW sh, NEW L, ShardsOn(sh, L, N), NEW p
    PROVE  ShardsOn(applyPin(sh, order, p), L, N)
  <1> DEFINE H == {i \in 1 .. Len(sh) : sh[i].start <= p.start /\ p.end <= sh[i].end}
  <1>0. Shards(sh, L, N) /\ L \in Nat \ {0}
    BY DEF ShardsOn
  <1>a. Len(sh) = L /\ DOMAIN sh = 1 .. L
    BY <1>0, ShardsLen
  <1>1. CASE p.node \notin ToSet(order) \/ H = {}
    BY <1>1 DEF applyPin
  <1>2. CASE ~(p.node \notin ToSet(order) \/ H = {})
    <2>1. H \in SUBSET Nat /\ H # {}
      BY <1>0, <1>a, <1>2
    <2>a. p.node \in N
      BY <1>2
    <2>2. PICK h : h = Min(H)
      OBVIOUS
    <2>3. h \in 1 .. L
      BY <1>a, <2>1, <2>2, LeastNat
    <2>4. applyPin(sh, order, p) = [sh EXCEPT ![h].node = p.node]
      BY <1>2, <2>2 DEF applyPin
    <2> HIDE DEF H
    <2>5. PICK t : t = [sh EXCEPT ![h].node = p.node]
      OBVIOUS
    <2>6. t = [m \in 1 .. L |-> t[m]]
      BY <1>a, <2>5
    <2>7. ASSUME NEW m \in 1 .. L
          PROVE  t[m].start = sh[m].start /\ t[m].end = sh[m].end /\ t[m].draft = sh[m].draft /\ Shard(t[m], N)
      <3>1. CASE m # h
        <4>1. t[m] = sh[m]
          BY <1>a, <2>5, <3>1
        <4> QED
          BY <1>0, <4>1 DEF Shards
      <3>2. CASE m = h
        <4>1. PICK a, x : a = sh[m] /\ x = p.node
          OBVIOUS
        <4>2. t[m] = [a EXCEPT !.node = x]
          BY <1>a, <2>5, <3>2, <4>1
        <4>3. Shard(a, N)
          BY <1>0, <4>1 DEF Shards
        <4>4. [a EXCEPT !.node = x] = [node |-> x, host |-> a.host, start |-> a.start, end |-> a.end, draft |-> a.draft]
          BY <4>3 DEF Shard
        <4>5. t[m] = [node |-> x, host |-> a.host, start |-> a.start, end |-> a.end, draft |-> a.draft]
          BY <4>2, <4>4
        <4>6. t[m].node = x /\ t[m].host = a.host /\ t[m].start = a.start /\ t[m].end = a.end /\ t[m].draft = a.draft
          BY <4>5
        <4>7. Shard(t[m], N)
          BY <2>a, <4>1, <4>3, <4>5, <4>6 DEF Shard
        <4> QED
          BY <4>1, <4>6, <4>7
      <3> QED
        BY <3>1, <3>2
    <2>8. 1 \in 1 .. L /\ L \in 1 .. L /\ \A m \in 1 .. L : m < L => m + 1 \in 1 .. L
      BY <1>0
    <2>9. Covers(t, L) /\ \A m \in 1 .. L : t[m].draft = FALSE
      BY <2>7, <2>8 DEF ShardsOn, Covers
    <2>10. Shards(t, L, N)
      BY <2>6, <2>7 DEF Shards
    <2> QED
      BY <1>0, <2>4, <2>5, <2>9, <2>10 DEF ShardsOn
  <1> QED
    BY <1>1, <1>2

Pinned(f, N, sh, order, pins) == f = [m \in 0 .. N |-> IF m = 0 THEN sh ELSE applyPin(f[m - 1], order, pins[m])]

LEMMA PinnedExists ==
    ASSUME NEW N \in Nat, NEW sh, NEW order, NEW pins
    PROVE  \E f : Pinned(f, N, sh, order, pins)
  <1> DEFINE Q == {n \in Nat : \E f : Pinned(f, n, sh, order, pins)}
  <1>1. 0 \in Q
    <2> DEFINE f == [m \in 0 .. 0 |-> sh]
    <2>1. Pinned(f, 0, sh, order, pins)
      BY DEF Pinned
    <2> QED
      BY <2>1
  <1>2. ASSUME NEW n \in Q PROVE n + 1 \in Q
    <2>1. PICK f : Pinned(f, n, sh, order, pins)
      BY <1>2
    <2> DEFINE h == [m \in 0 .. n + 1 |-> IF m = 0 THEN sh ELSE applyPin(f[m - 1], order, pins[m])]
    <2>2. n \in Nat
      BY <1>2
    <2>3. ASSUME NEW m \in 0 .. n PROVE h[m] = f[m]
      <3>1. f[m] = IF m = 0 THEN sh ELSE applyPin(f[m - 1], order, pins[m])
        BY <2>1 DEF Pinned
      <3>2. h[m] = IF m = 0 THEN sh ELSE applyPin(f[m - 1], order, pins[m])
        BY <2>2
      <3> HIDE DEF h
      <3> QED
        BY <3>1, <3>2
    <2>4. ASSUME NEW m \in 0 .. n + 1 PROVE h[m] = IF m = 0 THEN sh ELSE applyPin(h[m - 1], order, pins[m])
      <3>1. CASE m = 0
        BY <2>2, <3>1
      <3>2. CASE m # 0
        <4>1. m - 1 \in 0 .. n
          BY <2>2, <3>2
        <4>2. h[m - 1] = f[m - 1]
          BY <2>3, <4>1
        <4>3. h[m] = applyPin(f[m - 1], order, pins[m])
          BY <3>2
        <4> HIDE DEF h
        <4> QED
          BY <3>2, <4>2, <4>3
      <3> QED
        BY <3>1, <3>2
    <2>5. h = [m \in 0 .. n + 1 |-> h[m]]
      OBVIOUS
    <2>6. Pinned(h, n + 1, sh, order, pins)
      <3> HIDE DEF h
      <3> QED
        BY <2>4, <2>5 DEF Pinned
    <2> HIDE DEF h
    <2> QED
      BY <2>2, <2>6
  <1>3. Q \in SUBSET Nat
    OBVIOUS
  <1> HIDE DEF Q
  <1>4. Q = Nat
    BY <1>1, <1>2, <1>3, NatInduct
  <1> QED
    BY <1>4 DEF Q

LEMMA PinnedSteps ==
    ASSUME NEW N \in Nat, NEW sh, NEW order, NEW pins, NEW f, Pinned(f, N, sh, order, pins)
    PROVE  f[0] = sh /\ \A m \in 1 .. N : f[m] = applyPin(f[m - 1], order, pins[m])
  <1>1. ASSUME NEW m \in 0 .. N PROVE f[m] = IF m = 0 THEN sh ELSE applyPin(f[m - 1], order, pins[m])
    BY DEF Pinned
  <1>2. f[0] = sh
    <2>1. 0 \in 0 .. N
      OBVIOUS
    <2> QED
      BY <1>1, <2>1
  <1>3. ASSUME NEW m \in 1 .. N PROVE f[m] = applyPin(f[m - 1], order, pins[m])
    <2>1. m \in 0 .. N /\ m # 0
      OBVIOUS
    <2> QED
      BY <1>1, <2>1
  <1> QED
    BY <1>2, <1>3

\* applyPinnedRanges leaves the ranges alone.
LEMMA PinsHold ==
    ASSUME NEW N, NEW order, ToSet(order) \subseteq N, NEW sh, NEW L, ShardsOn(sh, L, N), NEW pins, Len(pins) \in Nat
    PROVE  ShardsOn(applyPinnedRanges(sh, order, pins), L, N)
  <1>0. PICK M : M = Len(pins) /\ M \in Nat
    OBVIOUS
  <1> DEFINE Eq(f) == Pinned(f, M, sh, order, pins)
             g == CHOOSE f : Eq(f)
  <1>1. \E f : Eq(f)
    BY <1>0, PinnedExists
  <1>2. applyPinnedRanges(sh, order, pins) = g[M]
    BY <1>0 DEF applyPinnedRanges, Pinned
  <1> HIDE DEF Eq
  <1>3. Eq(g)
    BY <1>1
  <1> HIDE DEF g
  <1>4. g[0] = sh /\ \A m \in 1 .. M : g[m] = applyPin(g[m - 1], order, pins[m])
    <2>1. M \in Nat /\ Pinned(g, M, sh, order, pins)
      BY <1>0, <1>3 DEF Eq
    <2> QED
      BY <2>1, PinnedSteps
  <1> DEFINE Q == {k \in Nat : k <= M => ShardsOn(g[k], L, N)}
  <1>5. 0 \in Q
    BY <1>4
  <1>6. ASSUME NEW k \in Q PROVE k + 1 \in Q
    <2>0. k \in Nat
      BY <1>6
    <2>1. ASSUME k + 1 <= M PROVE ShardsOn(g[k + 1], L, N)
      <3>1. k + 1 \in 1 .. M /\ (k + 1) - 1 = k
        BY <1>0, <2>0, <2>1
      <3>2. ShardsOn(g[k], L, N)
        BY <1>0, <1>6, <2>0, <2>1
      <3>3. g[k + 1] = applyPin(g[k], order, pins[k + 1])
        BY <1>4, <3>1
      <3> QED
        BY <3>2, <3>3, PinHolds
    <2> QED
      BY <2>0, <2>1
  <1>7. Q \in SUBSET Nat
    OBVIOUS
  <1> HIDE DEF Q
  <1>8. M \in Q
    BY <1>0, <1>5, <1>6, <1>7, NatInduct
  <1> QED
    BY <1>0, <1>2, <1>8 DEF Q

(***************************************************************************)
(* multiNodePlan                                                           *)
(***************************************************************************)

-----------------------------------------------------------------------------
(***************************************************************************)
(* What a job brings.                                                      *)
(***************************************************************************)
MachinesOn(N, hw) == \A x \in N : Machine(hw[x])
LinksOn(N, links) == \A a, b \in N : links[a][b] \in Nat
FleetSize(j) == Cardinality(DOMAIN j.hw)

\* What JobsAssumption says of any part of the fleet.
LEMMA JobNodes ==
    ASSUME NEW j \in Jobs, NEW N, N \subseteq DOMAIN j.hw
    PROVE  /\ N \in SUBSET Nat /\ IsFiniteSet(N) /\ Cardinality(N) \in Nat /\ FleetSize(j) \in Nat /\ Cardinality(N) <= FleetSize(j)
           /\ MachinesOn(N, j.hw) /\ LinksOn(N, j.links) /\ Ranked(N, j.hw) /\ Cheap(N, j.links, FleetSize(j))
  <1>0. PICK D : D = DOMAIN j.hw
    OBVIOUS
  <1>1. IsFiniteSet(D) /\ D \subseteq Nat \ {0}
    BY <1>0, JobsAssumption
  <1>2. \A n \in D : Machine(j.hw[n])
    BY <1>0, JobsAssumption
  <1>3. ASSUME NEW a \in D, NEW b \in D PROVE j.links[a][b] \in Nat /\ Cardinality(D) * edgeCost(j.links, a, b) < Inf
    BY <1>0, JobsAssumption
  <1>4. N \in SUBSET D
    BY <1>0
  <1>5. IsFiniteSet(N) /\ Cardinality(N) <= Cardinality(D)
    BY <1>1, <1>4, FS_Subset
  <1>6. Cardinality(N) \in Nat /\ Cardinality(D) \in Nat
    BY <1>1, <1>5, FS_CardinalityType
  <1>7. MachinesOn(N, j.hw) /\ LinksOn(N, j.links)
    BY <1>2, <1>3, <1>4 DEF MachinesOn, LinksOn
  <1>8. ASSUME NEW x \in N PROVE usefulCapacity(j.hw[x]) \in Nat
    <2>1. PICK h : h = j.hw[x]
      OBVIOUS
    <2>2. Machine(h)
      BY <1>2, <1>4, <2>1
    <2>3. usefulMemory(h) \in Nat /\ normalizeBandwidth(h.bw) \in Nat
      BY <2>2 DEF Machine, usefulMemory, normalizeBandwidth, RefBw
    <2> QED
      BY <2>1, <2>3 DEF usefulCapacity
  <1>9. ASSUME NEW a \in N, NEW b \in N PROVE edgeCost(j.links, a, b) \in Nat
    <2>1. j.links[a][b] \in Nat
      BY <1>3, <1>4
    <2> QED
      BY <2>1, PartitionAssumption DEF edgeCost
  <1>10. Ranked(N, j.hw)
    BY <1>8 DEF Ranked
  <1>11. Cheap(N, j.links, Cardinality(D))
    BY <1>3, <1>4, <1>9 DEF Cheap
  <1> QED
    BY <1>0, <1>1, <1>4, <1>5, <1>6, <1>7, <1>10, <1>11 DEF FleetSize

LEMMA SumNat == ASSUME NEW S, IsFiniteSet(S), NEW g \in [S -> Nat] PROVE FoldFunction(+, 0, g) \in Nat
  <1>1. Part(g, S) = g
    BY DEF Part
  <1>2. Nats(g, S)
    BY DEF Nats
  <1>3. SumAt(g, S) \in Nat
    BY <1>2, SumAtNat
  <1> QED
    BY <1>1, <1>3 DEF SumAt, SumOf

LEMMA VarianceInt == ASSUME NEW L \in Nat, NEW xs \in [1 .. L -> Nat] PROVE variance(xs) \in Int
  <1>0. Len(xs) = L /\ IsFiniteSet(1 .. L)
    BY FS_Interval
  <1>1. PICK sum : sum = FoldFunction(+, 0, xs)
    OBVIOUS
  <1>2. PICK squares : squares = FoldFunction(+, 0, [i \in 1 .. L |-> xs[i] * xs[i]])
    OBVIOUS
  <1>3. sum \in Nat
    BY <1>0, <1>1, SumNat
  <1>4. [i \in 1 .. L |-> xs[i] * xs[i]] \in [1 .. L -> Nat]
    OBVIOUS
  <1>5. squares \in Nat
    BY <1>0, <1>2, <1>4, SumNat
  <1>6. variance(xs) = IF L < 2 THEN 0 ELSE (144 \div (L * L)) * (L * squares - sum * sum)
    BY <1>0, <1>1, <1>2 DEF variance
  <1>7. CASE L < 2
    BY <1>6, <1>7
  <1>8. CASE ~(L < 2)
    <2>1. L * L \in Nat \ {0}
      BY <1>8
    <2>2. 144 \div (L * L) \in Int
      BY <2>1
    <2>3. L * squares - sum * sum \in Int
      BY <1>3, <1>5
    <2> QED
      BY <1>6, <1>8, <2>2, <2>3
  <1> QED
    BY <1>7, <1>8

LEMMA CostInt ==
    ASSUME NEW N, NEW j, MachinesOn(N, j.hw), LinksOn(N, j.links), NEW weight \in Nat, NEW L, NEW sh, ShardsOn(sh, L, N),
           NEW times, times = stageTimesForPlan(sh, j, weight)
    PROVE  costFunction(sh, times, j) \in Int
  <1>0. L \in Nat \ {0} /\ Shards(sh, L, N)
    BY DEF ShardsOn
  <1>1. Len(sh) = L
    BY <1>0, ShardsLen
  <1>2. ASSUME NEW m \in 1 .. L PROVE sh[m].node \in N /\ sh[m].end - sh[m].start + 1 \in Nat
    <2>1. Shard(sh[m], N)
      BY <1>0 DEF Shards
    <2>2. sh[m].start <= sh[m].end
      BY DEF ShardsOn, Covers
    <2> QED
      BY <2>1, <2>2 DEF Shard
  <1>3. ASSUME NEW m \in 1 .. L
        PROVE  computeTime(j.hw[sh[m].node], weight, sh[m].end - sh[m].start + 1)
                  + (IF m = 1 THEN 0 ELSE commTime(j.links, sh[m - 1].node, sh[m].node)) \in Nat
    <2>1. Machine(j.hw[sh[m].node])
      BY <1>2 DEF MachinesOn
    <2>2. computeTime(j.hw[sh[m].node], weight, sh[m].end - sh[m].start + 1) \in Nat
      BY <1>2, <2>1, ComputeTimeNat
    <2>3. m # 1 => m - 1 \in 1 .. L
      BY <1>0
    <2>4. m # 1 => commTime(j.links, sh[m - 1].node, sh[m].node) \in Nat
      BY <1>2, <2>3 DEF commTime, LinksOn
    <2> QED
      BY <2>2, <2>4
  <1>4. times \in [1 .. L -> Nat]
    BY <1>1, <1>3 DEF stageTimesForPlan
  <1>5. variance(times) \in Int
    BY <1>0, <1>4, VarianceInt
  <1>6. PICK hops : hops = FoldFunction(+, 0, [m \in 1 .. L - 1 |-> commTime(j.links, sh[m].node, sh[m + 1].node)])
    OBVIOUS
  <1>7. ASSUME NEW m \in 1 .. L - 1 PROVE commTime(j.links, sh[m].node, sh[m + 1].node) \in Nat
    <2>1. m \in 1 .. L /\ m + 1 \in 1 .. L
      BY <1>0
    <2> QED
      BY <1>2, <2>1 DEF commTime, LinksOn
  <1>8. hops \in Nat
    <2>1. [m \in 1 .. L - 1 |-> commTime(j.links, sh[m].node, sh[m + 1].node)] \in [1 .. L - 1 -> Nat]
      BY <1>7
    <2>2. IsFiniteSet(1 .. L - 1)
      BY <1>0, FS_Interval
    <2> QED
      BY <1>6, <2>1, <2>2, SumNat
  <1>9. costFunction(sh, times, j) = 144 * (10 * (L - 1) + hops) + 5 * variance(times)
    BY <1>1, <1>6 DEF costFunction
  <1> QED
    BY <1>0, <1>5, <1>8, <1>9

\* A plan of quantization q on nodes of N, before the draft is placed.
PlanOn(p, N, q) ==
    /\ p = [ok |-> TRUE, quant |-> q, as |-> p.as, cost |-> p.cost]
    /\ p.cost \in Int /\ ShardsOn(p.as, Len(p.as), N)

\* multiNodePlan: no plan, or one whose shards cover the layers on nodes of the subset.
LEMMA MultiHolds ==
    ASSUME NEW j \in Jobs, NEW subset, NEW N, N = ToSet(subset), N # {}, N \subseteq DOMAIN j.hw, NEW q \in DOMAIN j.quants,
           NEW p, p = multiNodePlan(subset, j, q)
    PROVE  p = NoPlan \/ PlanOn(p, N, q)
  <1>0. /\ N \in SUBSET Nat /\ IsFiniteSet(N) /\ Cardinality(N) \in Nat /\ FleetSize(j) \in Nat /\ Cardinality(N) <= FleetSize(j)
        /\ MachinesOn(N, j.hw) /\ LinksOn(N, j.links) /\ Ranked(N, j.hw) /\ Cheap(N, j.links, FleetSize(j))
    BY JobNodes
  <1>1. PICK n, weight, hw, links, kv : n = Cardinality(N) /\ weight = j.quants[q] /\ hw = j.hw /\ links = j.links /\ kv = j.kv
    OBVIOUS
  <1>2. weight \in Nat /\ Len(j.pins) \in Nat
    BY <1>1, JobsAssumption
  <1>3. PICK order : order = orderNodes(N, hw, links, j.host)
    OBVIOUS
  <1>4. RouteOf(order, n, chooseHost(N, hw, j.host), N)
    BY <1>0, <1>1, <1>3, OrderHolds
  <1>5. order \in [1 .. n -> N] /\ n \in Nat
    BY <1>0, <1>1, <1>4 DEF RouteOf
  <1>6. Len(order) = n /\ ToSet(order) \subseteq N
    BY <1>5 DEF ToSet
  <1>7. PICK part, time : part = dpPartition(order, hw, links, weight, kv) /\ time = stageTimes(order, hw, links, weight, kv)
    OBVIOUS
  <1>8. Times(Len(order), time)
    <2>1. \A k \in 1 .. Len(order) : Machine(hw[order[k]])
      BY <1>0, <1>1, <1>5, <1>6 DEF MachinesOn
    <2>2. Linked(order, links)
      <3>1. ASSUME NEW k \in 2 .. Len(order) PROVE links[order[k - 1]][order[k]] \in Nat
        <4>1. k - 1 \in 1 .. n /\ k \in 1 .. n
          BY <1>5, <1>6
        <4>2. order[k - 1] \in N /\ order[k] \in N
          BY <1>5, <4>1
        <4> QED
          BY <1>0, <1>1, <4>2 DEF LinksOn
      <3> QED
        BY <3>1 DEF Linked
    <2>3. Len(order) \in Nat
      BY <1>5, <1>6
    <2> QED
      BY <1>2, <1>7, <2>1, <2>2, <2>3, StageTimesNat
  <1>9. /\ part.bottleneck \in Nat /\ part.bottleneck <= Inf
        /\ part.bottleneck < Inf => \E used \in 1 .. Len(order) : EndsOf(part.cuts, used, time, part.bottleneck)
    BY <1>5, <1>6, <1>7, <1>8, PartitionHolds
  <1>10. PICK sh : sh = applyPinnedRanges(reconstructCuts(part.cuts, order), order, j.pins)
    OBVIOUS
  <1>11. p = IF part.bottleneck = Inf THEN NoPlan
             ELSE [ok |-> TRUE, quant |-> q, as |-> sh, cost |-> costFunction(sh, stageTimesForPlan(sh, j, weight), j)]
    BY <1>1, <1>3, <1>7, <1>10 DEF multiNodePlan
  <1>12. ASSUME part.bottleneck # Inf PROVE PlanOn(p, N, q)
    <2>1. PICK used \in 1 .. n : EndsOf(part.cuts, used, time, part.bottleneck)
      BY <1>6, <1>9, <1>12, InfIsNat
    <2>2. ShardsOn(reconstructCuts(part.cuts, order), used, N)
      BY <1>5, <2>1, CutsHold
    <2>3. ShardsOn(sh, used, N)
      BY <1>2, <1>6, <1>10, <2>2, PinsHold
    <2>4. PICK c : c = costFunction(sh, stageTimesForPlan(sh, j, weight), j)
      OBVIOUS
    <2>5. c \in Int
      BY <1>0, <1>2, <2>3, <2>4, CostInt
    <2>6. p = [ok |-> TRUE, quant |-> q, as |-> sh, cost |-> c]
      BY <1>11, <1>12, <2>4
    <2>7. Len(sh) = used
      <3>1. used \in Nat /\ Shards(sh, used, N)
        BY <2>3 DEF ShardsOn
      <3> QED
        BY <3>1, ShardsLen
    <2>8. p.as = sh /\ p.cost = c
      BY <2>6
    <2> QED
      BY <2>3, <2>5, <2>6, <2>7, <2>8 DEF PlanOn
  <1> QED
    BY <1>11, <1>12

(***************************************************************************)
(* candidateSubsets and selectCandidate                                    *)
(***************************************************************************)

-----------------------------------------------------------------------------
(***************************************************************************)
(* The choice among the candidates.                                        *)
(***************************************************************************)
PrefixOn(s, N) == s \in Seq(N) /\ Len(s) >= 1
SubsetsOn(ss, N) == \E d \in Nat \ {0} : DOMAIN ss = 1 .. d /\ \A i \in 1 .. d : PrefixOn(ss[i], N)

LEMMA PrefixHolds ==
    ASSUME NEW n \in Nat, NEW N, NEW s \in [1 .. n -> N], NEW k \in 1 .. n
    PROVE  PrefixOn(SubSeq(s, 1, k), N)
  <1>1. s \in Seq(N) /\ Len(s) = n
    OBVIOUS
  <1>2. SubSeq(s, 1, k) \in Seq(N) /\ Len(SubSeq(s, 1, k)) = k
    BY <1>1
  <1> QED
    BY <1>2 DEF PrefixOn

\* candidateSubsets: non-empty prefixes of the ranking.
LEMMA CandidatesHold ==
    ASSUME NEW N \in SUBSET Nat, IsFiniteSet(N), N # {}, NEW hw, Ranked(N, hw), NEW weight, NEW kv, NEW force \in Nat,
           NEW ss, ss = candidateSubsets(N, hw, weight, kv, force), ss # <<>>
    PROVE  SubsetsOn(ss, N)
  <1> DEFINE key == [x \in N |-> usefulCapacity(hw[x])]
  <1>0. PICK s, n : s = rankByCapacity(N, hw) /\ n = Cardinality(N)
    OBVIOUS
  <1>1. Keyed(N, key)
    BY DEF Keyed, Ranked
  <1>2. s = sortedBy(N, key)
    BY <1>0 DEF rankByCapacity
  <1> HIDE DEF key
  <1>3. s \in [1 .. n -> N] /\ n \in Nat
    BY <1>0, <1>1, <1>2, SortedHolds
  <1>4. n # 0
    BY <1>0, FS_EmptySet
  <1>5. Len(s) = n
    BY <1>3
  <1> DEFINE fits == {k \in 1 .. n : aggregateFit(s, hw, k) >= weight + kv + Overhead * k}
             kMin == Min(fits)
             top == Min({kMin + PlanDelta, n})
  <1>6. ss = IF force > 0 THEN <<SubSeq(s, 1, IF force > n THEN n ELSE force)>>
             ELSE IF fits = {} THEN <<>>
             ELSE [i \in 1 .. top - kMin + 1 |-> SubSeq(s, 1, kMin + i - 1)]
    BY <1>0, <1>5 DEF candidateSubsets
  <1>7. CASE force > 0
    <2>1. PICK k : k = IF force > n THEN n ELSE force
      OBVIOUS
    <2>2. k \in 1 .. n
      BY <1>3, <1>4, <1>7, <2>1
    <2>3. PICK t : t = SubSeq(s, 1, k)
      OBVIOUS
    <2>4. PrefixOn(t, N)
      BY <1>3, <2>2, <2>3, PrefixHolds
    <2>5. ss = <<t>>
      BY <1>6, <1>7, <2>1, <2>3
    <2>6. DOMAIN ss = 1 .. 1 /\ \A i \in 1 .. 1 : ss[i] = t
      BY <2>5
    <2> QED
      BY <2>4, <2>6 DEF SubsetsOn
  <1>8. CASE ~(force > 0)
    <2>1. fits # {} /\ ss = [i \in 1 .. top - kMin + 1 |-> SubSeq(s, 1, kMin + i - 1)]
      BY <1>6, <1>8
    <2>2. kMin \in 1 .. n
      <3>1. fits \in SUBSET Nat
        BY <1>3
      <3> QED
        BY <2>1, <3>1, LeastNat
    <2> HIDE DEF kMin, fits
    <2>3. top \in Nat /\ kMin <= top /\ top <= n
      <3>1. kMin + PlanDelta \in Nat /\ kMin <= kMin + PlanDelta
        BY <1>3, <2>2, PartitionAssumption
      <3>2. {kMin + PlanDelta, n} \in SUBSET Nat /\ {kMin + PlanDelta, n} # {}
        BY <1>3, <3>1
      <3>3. top \in {kMin + PlanDelta, n} /\ \A y \in {kMin + PlanDelta, n} : top <= y
        BY <3>2, LeastNat
      <3> HIDE DEF top
      <3> QED
        BY <1>3, <2>2, <3>1, <3>3
    <2> HIDE DEF top
    <2>4. PICK d : d = top - kMin + 1
      OBVIOUS
    <2>5. d \in Nat \ {0} /\ DOMAIN ss = 1 .. d
      BY <1>3, <2>1, <2>2, <2>3, <2>4
    <2>6. ASSUME NEW i \in 1 .. d PROVE PrefixOn(ss[i], N)
      <3>1. kMin + i - 1 \in 1 .. n /\ ss[i] = SubSeq(s, 1, kMin + i - 1)
        BY <1>3, <2>1, <2>2, <2>3, <2>4, <2>5
      <3> QED
        BY <1>3, <3>1, PrefixHolds
    <2> QED
      BY <2>5, <2>6 DEF SubsetsOn
  <1> QED
    BY <1>7, <1>8

LEMMA ShardsWider ==
    ASSUME NEW M, NEW N, M \subseteq N, NEW sh, NEW L, ShardsOn(sh, L, M)
    PROVE  ShardsOn(sh, L, N)
  BY DEF ShardsOn, Shards, Shard

LEMMA SingleHolds ==
    ASSUME NEW N, NEW n \in N, NEW q
    PROVE  PlanOn(singleNodePlan(n, q), N, q)
  <1> Layers \in Nat \ {0}
    BY PartitionAssumption
  <1>1. PICK r : r = [node |-> n, host |-> TRUE, start |-> 0, end |-> Layers - 1, draft |-> FALSE]
    OBVIOUS
  <1>2. r.node = n /\ r.host = TRUE /\ r.start = 0 /\ r.end = Layers - 1 /\ r.draft = FALSE /\ Layers - 1 \in Nat
    BY <1>1
  <1>3. Shard(r, N)
    BY <1>1, <1>2 DEF Shard
  <1>4. PICK sh : sh = <<r>>
    OBVIOUS
  <1>5. sh = [m \in 1 .. 1 |-> sh[m]] /\ sh[1] = r /\ Len(sh) = 1
    BY <1>4
  <1>6. \A m \in 1 .. 1 : m = 1
    OBVIOUS
  <1>7. Shards(sh, 1, N)
    BY <1>3, <1>5, <1>6 DEF Shards
  <1>8. Covers(sh, 1)
    BY <1>2, <1>5, <1>6 DEF Covers
  <1>9. \A m \in 1 .. 1 : sh[m].draft = FALSE
    BY <1>2, <1>5, <1>6
  <1>10. ShardsOn(sh, 1, N)
    BY <1>7, <1>8, <1>9 DEF ShardsOn
  <1>11. singleNodePlan(n, q) = [ok |-> TRUE, quant |-> q, as |-> sh, cost |-> 0]
    BY <1>1, <1>4 DEF singleNodePlan
  <1>12. PICK p : p = singleNodePlan(n, q)
    OBVIOUS
  <1>13. p.as = sh /\ p.cost = 0 /\ p = [ok |-> TRUE, quant |-> q, as |-> sh, cost |-> 0]
    BY <1>11, <1>12
  <1>14. PlanOn(p, N, q)
    BY <1>5, <1>10, <1>13 DEF PlanOn
  <1> QED
    BY <1>12, <1>14

\* selectCandidate: no plan, or one on nodes that may be used.
LEMMA SelectHolds ==
    ASSUME NEW j \in Jobs, NEW N, N \subseteq DOMAIN j.hw, NEW ss, SubsetsOn(ss, N), NEW q \in DOMAIN j.quants,
           NEW p, p = selectCandidate(ss, j, q)
    PROVE  p = NoPlan \/ PlanOn(p, N, q)
  <1>0. PICK d \in Nat \ {0} : DOMAIN ss = 1 .. d /\ \A i \in 1 .. d : PrefixOn(ss[i], N)
    BY DEF SubsetsOn
  <1>1. CASE Len(ss[1]) = 1
    <2>1. PrefixOn(ss[1], N)
      BY <1>0
    <2>2. ss[1][1] \in N
      BY <2>1 DEF PrefixOn
    <2>3. p = singleNodePlan(ss[1][1], q)
      BY <1>1 DEF selectCandidate
    <2> QED
      BY <2>2, <2>3, SingleHolds
  <1>2. CASE Len(ss[1]) # 1
    <2> DEFINE cands == [i \in DOMAIN ss |-> IF Len(ss[i]) < 2 THEN NoPlan ELSE multiNodePlan(ss[i], j, q)]
               ok == {i \in DOMAIN cands : cands[i].ok}
               best == Min({i \in ok : \A k \in ok : cands[i].cost <= cands[k].cost})
    <2>1. p = IF ok = {} THEN NoPlan ELSE cands[best]
      BY <1>2 DEF selectCandidate
    <2>0. DOMAIN cands = 1 .. d
      BY <1>0
    <2>2. ASSUME NEW i \in 1 .. d PROVE cands[i] = NoPlan \/ PlanOn(cands[i], N, q)
      <3>1. CASE Len(ss[i]) < 2
        BY <1>0, <3>1
      <3>2. CASE ~(Len(ss[i]) < 2)
        <4>1. PICK s, M : s = ss[i] /\ M = ToSet(s)
          OBVIOUS
        <4>2. s \in Seq(N) /\ Len(s) >= 1
          BY <1>0, <4>1 DEF PrefixOn
        <4>3. M \subseteq N /\ M # {}
          <5>1. \A k \in 1 .. Len(s) : s[k] \in N
            BY <4>2
          <5>2. 1 \in 1 .. Len(s) /\ DOMAIN s = 1 .. Len(s)
            BY <4>2
          <5> QED
            BY <4>1, <5>1, <5>2 DEF ToSet
        <4>4. PICK c : c = multiNodePlan(s, j, q)
          OBVIOUS
        <4>5. c = NoPlan \/ PlanOn(c, M, q)
          BY <4>1, <4>3, <4>4, MultiHolds
        <4>6. PlanOn(c, M, q) => PlanOn(c, N, q)
          BY <4>3, ShardsWider DEF PlanOn
        <4>7. cands[i] = c
          BY <1>0, <3>2, <4>1, <4>4
        <4> QED
          BY <4>5, <4>6, <4>7
      <3> QED
        BY <3>1, <3>2
    <2> HIDE DEF cands
    <2>3. ASSUME NEW i \in ok PROVE PlanOn(cands[i], N, q)
      <3>1. cands[i] # NoPlan
        BY DEF NoPlan
      <3> QED
        BY <2>0, <2>2, <3>1
    <2>4. CASE ok = {}
      BY <2>1, <2>4
    <2>5. CASE ok # {}
      <3>1. ok \in SUBSET Nat /\ IsFiniteSet(ok)
        <4>1. IsFiniteSet(1 .. d) /\ ok \in SUBSET (1 .. d)
          BY <2>0, FS_Interval
        <4> QED
          BY <4>1, FS_Subset
      <3> HIDE DEF ok
      <3> DEFINE c == [i \in ok |-> cands[i].cost]
      <3>2. ASSUME NEW i \in ok PROVE c[i] = cands[i].cost /\ c[i] \in Int
        BY <2>3 DEF PlanOn
      <3>3. Least(ok, c) = {i \in ok : \A k \in ok : cands[i].cost <= cands[k].cost}
        BY <3>2 DEF Least
      <3> HIDE DEF c
      <3>4. Min(Least(ok, c)) \in Least(ok, c)
        BY <2>5, <3>1, <3>2, ArgMin
      <3>5. best = Min(Least(ok, c))
        BY <3>3
      <3>6. best \in ok
        BY <3>4, <3>5 DEF Least
      <3> HIDE DEF best
      <3> QED
        BY <2>1, <2>3, <2>5, <3>6
    <2> QED
      BY <2>4, <2>5
  <1> QED
    BY <1>1, <1>2

(***************************************************************************)
(* validatePlanMemory and the tail of a plan                               *)
(***************************************************************************)

-----------------------------------------------------------------------------
(***************************************************************************)
(* The plan that is returned.                                              *)
(***************************************************************************)
LEMMA FitNat == ASSUME NEW h, Machine(h) PROVE usefulMemoryForFit(h) \in Nat
  <1>1. usefulMemory(h) \in Nat
    BY DEF Machine, usefulMemory
  <1>2. PICK base, cap, half : base = usefulMemory(h) /\ cap = (IF h.vram > 0 THEN h.vram ELSE h.ram) /\ half = h.disk \div 2
    OBVIOUS
  <1>3. base \in Nat /\ cap \in Nat /\ half \in Nat
    BY <1>1, <1>2 DEF Machine
  <1>4. PICK ssd : ssd = IF half < 2 * cap - base THEN half ELSE 2 * cap - base
    OBVIOUS
  <1>5. ssd \in Int
    BY <1>3, <1>4
  <1>6. usefulMemoryForFit(h) = IF h.disk > 0 /\ ssd > 0 THEN base + ssd ELSE base
    BY <1>2, <1>4 DEF usefulMemoryForFit
  <1> QED
    BY <1>3, <1>5, <1>6

LEMMA LayersNat ==
    ASSUME NEW N, NEW sh, NEW L, ShardsOn(sh, L, N), NEW p, p.as = sh, NEW n
    PROVE  layersOn(p, n) \in Nat
  <1>0. L \in Nat \ {0} /\ Shards(sh, L, N)
    BY DEF ShardsOn
  <1>1. DOMAIN sh = 1 .. L
    BY <1>0, ShardsLen
  <1>2. PICK D : D = {m \in DOMAIN p.as : p.as[m].node = n}
    OBVIOUS
  <1>3. D \in SUBSET (1 .. L) /\ IsFiniteSet(1 .. L)
    BY <1>0, <1>1, <1>2, FS_Interval
  <1>4. IsFiniteSet(D)
    BY <1>3, FS_Subset
  <1>5. ASSUME NEW m \in D PROVE p.as[m].end - p.as[m].start + 1 \in Nat
    <2>1. m \in 1 .. L
      BY <1>3
    <2>2. Shard(sh[m], N) /\ sh[m].start <= sh[m].end
      BY <1>0, <2>1 DEF Shards, ShardsOn, Covers
    <2> QED
      BY <2>2 DEF Shard
  <1>6. [m \in D |-> p.as[m].end - p.as[m].start + 1] \in [D -> Nat]
    BY <1>5
  <1>7. FoldFunction(+, 0, [m \in D |-> p.as[m].end - p.as[m].start + 1]) \in Nat
    BY <1>4, <1>6, SumNat
  <1> QED
    BY <1>2, <1>7 DEF layersOn

\* What Deployable asks of the memory.
Holds(p, j, n) ==
    (j.quants[p.quant] + j.kv) * layersOn(p, n) + Overhead * Layers <= usefulMemoryForFit(j.hw[n]) * Layers

\* validatePlanMemory: no node gets more than its memory, with or without headroom.
LEMMA MemoryHolds ==
    ASSUME NEW j \in Jobs, NEW N, N \subseteq DOMAIN j.hw, NEW q \in DOMAIN j.quants, NEW p, PlanOn(p, N, q),
           validatePlanMemory(p, j), NEW n \in nodesOf(p)
    PROVE  Holds(p, j, n)
  <1>0. PICK sh, L : sh = p.as /\ L = Len(p.as)
    OBVIOUS
  <1>1. ShardsOn(sh, L, N) /\ p.quant = q
    BY <1>0 DEF PlanOn
  <1>2. L \in Nat \ {0} /\ Shards(sh, L, N)
    BY <1>1 DEF ShardsOn
  <1>3. DOMAIN sh = 1 .. L
    BY <1>2, ShardsLen
  <1>4. n \in N
    BY <1>0, <1>2, <1>3 DEF nodesOf, Shards, Shard
  <1>5. MachinesOn(N, j.hw)
    BY JobNodes
  <1>6. PICK u, l, w : u = usefulMemoryForFit(j.hw[n]) /\ l = layersOn(p, n) /\ w = j.quants[p.quant] + j.kv
    OBVIOUS
  <1>7. u \in Nat
    BY <1>4, <1>5, <1>6, FitNat DEF MachinesOn
  <1>8. l \in Nat
    BY <1>0, <1>1, <1>6, LayersNat
  <1>9. w \in Nat
    <2>1. j.quants \in Seq(Nat) /\ j.kv \in Nat
      BY JobsAssumption
    <2>2. j.quants[q] \in Nat
      BY <2>1
    <2> QED
      BY <1>1, <1>6, <2>1, <2>2
  <1>10. Layers \in Nat /\ Overhead \in Nat
    BY PartitionAssumption
  <1>11. PICK need, room : need = w * l + Overhead * Layers /\ room = u * Layers
    OBVIOUS
  <1>12. need \in Nat /\ room \in Nat
    BY <1>7, <1>8, <1>9, <1>10, <1>11
  <1>13. stageMemNeed(j.quants[p.quant], j.kv, layersOn(p, n)) = need
    BY <1>6, <1>11 DEF stageMemNeed
  <1>14. 10 * need <= 9 * u * Layers \/ need <= room
    <2>1. IF Cardinality(nodesOf(p)) > 1 THEN stageFits(j.hw[n], j.quants[p.quant], j.kv, layersOn(p, n))
          ELSE stageMemNeed(j.quants[p.quant], j.kv, layersOn(p, n)) <= usefulMemoryForFit(j.hw[n]) * Layers
      BY DEF validatePlanMemory
    <2>2. CASE Cardinality(nodesOf(p)) > 1
      BY <1>6, <1>13, <2>1, <2>2 DEF stageFits
    <2>3. CASE ~(Cardinality(nodesOf(p)) > 1)
      BY <1>6, <1>11, <1>13, <2>1, <2>3
    <2> QED
      BY <2>2, <2>3
  <1>15. 9 * u * Layers = 9 * room
    BY <1>7, <1>10, <1>11
  <1>16. need <= room
    BY <1>12, <1>14, <1>15
  <1> QED
    BY <1>6, <1>11, <1>16 DEF Holds

\* The last shard ends last.
LEMMA EndsGrow ==
    ASSUME NEW N, NEW sh, NEW L, ShardsOn(sh, L, N), NEW m \in 1 .. L
    PROVE  sh[m].end \in Nat /\ sh[m].end <= sh[L].end /\ (m < L => sh[m].end < sh[L].end)
  <1>0. L \in Nat \ {0} /\ Shards(sh, L, N) /\ Covers(sh, L)
    BY DEF ShardsOn
  <1>1. ASSUME NEW k \in 1 .. L PROVE sh[k].start \in Nat /\ sh[k].end \in Nat /\ sh[k].start <= sh[k].end
    BY <1>0 DEF Shards, Shard, Covers
  <1>2. ASSUME NEW k \in 1 .. L, k < L PROVE sh[k].end < sh[k + 1].end
    <2>1. k + 1 \in 1 .. L /\ sh[k + 1].start = sh[k].end + 1
      BY <1>0, <1>2 DEF Covers
    <2>2. sh[k + 1].start \in Nat /\ sh[k + 1].end \in Nat /\ sh[k + 1].start <= sh[k + 1].end /\ sh[k].end \in Nat
      BY <1>1, <2>1
    <2> QED
      BY <2>1, <2>2
  <1> DEFINE Q == {d \in Nat : m + d <= L => sh[m].end + d <= sh[m + d].end}
  <1>3. 0 \in Q
    <2>1. m + 0 = m /\ sh[m].end \in Nat
      BY <1>1
    <2> QED
      BY <2>1
  <1>4. ASSUME NEW d \in Q PROVE d + 1 \in Q
    <2>0. d \in Nat
      BY <1>4
    <2>1. ASSUME m + (d + 1) <= L PROVE sh[m].end + (d + 1) <= sh[m + (d + 1)].end
      <3>1. m + d \in 1 .. L /\ m + d < L /\ (m + d) + 1 = m + (d + 1) /\ m + (d + 1) \in 1 .. L
        BY <1>0, <2>0, <2>1
      <3>2. sh[m + d].end < sh[(m + d) + 1].end
        BY <1>2, <3>1
      <3>3. sh[m].end + d <= sh[m + d].end
        BY <1>4, <3>1
      <3>4. sh[m].end \in Nat /\ sh[m + d].end \in Nat /\ sh[m + (d + 1)].end \in Nat
        BY <1>1, <3>1
      <3> QED
        BY <2>0, <3>1, <3>2, <3>3, <3>4
    <2> QED
      BY <2>0, <2>1
  <1>5. Q \in SUBSET Nat
    OBVIOUS
  <1> HIDE DEF Q
  <1>6. L - m \in Q
    <2>1. L - m \in Nat
      BY <1>0
    <2> QED
      BY <1>3, <1>4, <1>5, <2>1, NatInduct
  <1>7. sh[m].end + (L - m) <= sh[m + (L - m)].end /\ m + (L - m) = L
    BY <1>0, <1>6 DEF Q
  <1>8. sh[m].end \in Nat /\ sh[L].end \in Nat
    BY <1>0, <1>1
  <1> QED
    BY <1>0, <1>7, <1>8

\* The shard with the largest end is the last one.
LEMMA TailIsLast ==
    ASSUME NEW N, NEW sh, NEW L, ShardsOn(sh, L, N)
    PROVE  Min({m \in DOMAIN sh : \A k \in DOMAIN sh : sh[k].end <= sh[m].end}) = L
  <1>0. L \in Nat \ {0} /\ Shards(sh, L, N)
    BY DEF ShardsOn
  <1>1. DOMAIN sh = 1 .. L /\ L \in 1 .. L
    BY <1>0, ShardsLen
  <1>2. PICK T : T = {m \in DOMAIN sh : \A k \in DOMAIN sh : sh[k].end <= sh[m].end}
    OBVIOUS
  <1>3. L \in T
    BY <1>1, <1>2, EndsGrow
  <1>4. ASSUME NEW m \in T PROVE m = L
    <2>1. m \in 1 .. L /\ sh[L].end <= sh[m].end
      BY <1>1, <1>2, <1>4
    <2>2. sh[m].end \in Nat /\ (m < L => sh[m].end < sh[L].end) /\ sh[L].end \in Nat
      BY <1>1, <2>1, EndsGrow
    <2> QED
      BY <1>0, <2>1, <2>2
  <1>5. T = {L}
    BY <1>3, <1>4
  <1>6. T \in SUBSET Nat /\ T # {}
    BY <1>0, <1>5
  <1>7. Min(T) \in T
    BY <1>6, LeastNat
  <1> QED
    BY <1>2, <1>5, <1>7

(***************************************************************************)
(* placeDraft and planInternal                                             *)
(***************************************************************************)

\* t has the nodes and ranges of sh.
SameShards(t, sh, L) ==
    /\ t = [m \in 1 .. L |-> t[m]]
    /\ \A m \in 1 .. L : t[m].node = sh[m].node /\ t[m].start = sh[m].start /\ t[m].end = sh[m].end

\* The draft is on the last shard, when the job asks for one.
DraftOn(t, j, L) == \A m \in 1 .. L : t[m].draft = (j.draft /\ m = L)

\* r is p with its draft placed.
Drafted(r, p, j, q) ==
    /\ r.quant = q /\ r.ok = TRUE
    /\ SameShards(r.as, p.as, Len(p.as)) /\ DraftOn(r.as, j, Len(p.as))

\* placeDraft changes nothing but the draft, which goes on the last shard.
LEMMA DraftHolds ==
    ASSUME NEW j, j.draft \in BOOLEAN, NEW N, NEW q, NEW p, PlanOn(p, N, q)
    PROVE  Drafted(placeDraft(p, j), p, j, q)
  <1>0. PICK sh, c, L, r : sh = p.as /\ c = p.cost /\ L = Len(p.as) /\ r = placeDraft(p, j)
    OBVIOUS
  <1>1. ShardsOn(sh, L, N) /\ p = [ok |-> TRUE, quant |-> q, as |-> sh, cost |-> c]
    BY <1>0 DEF PlanOn
  <1>2. L \in Nat \ {0} /\ Shards(sh, L, N)
    BY <1>1 DEF ShardsOn
  <1>3. DOMAIN sh = 1 .. L
    BY <1>2, ShardsLen
  <1>4. ASSUME NEW m \in 1 .. L PROVE Shard(sh[m], N) /\ sh[m].draft = FALSE
    BY <1>1, <1>2 DEF ShardsOn, Shards
  <1>5. CASE j.draft = FALSE
    <2>1. r = p
      BY <1>0, <1>5 DEF placeDraft
    <2>2. r.quant = q /\ r.ok = TRUE /\ r.as = sh
      BY <1>1, <2>1
    <2>3. sh = [m \in 1 .. L |-> sh[m]]
      BY <1>2 DEF Shards
    <2>4. DraftOn(r.as, j, L)
      BY <1>4, <1>5, <2>2 DEF DraftOn
    <2> QED
      BY <1>0, <2>2, <2>3, <2>4 DEF SameShards, Drafted
  <1>6. CASE j.draft = TRUE
    <2>1. Min({m \in DOMAIN sh : \A k \in DOMAIN sh : sh[k].end <= sh[m].end}) = L
      BY <1>1, TailIsLast
    <2>2. PICK t : t = [m \in DOMAIN sh |-> [sh[m] EXCEPT !.draft = (m = L)]]
      OBVIOUS
    <2>3. r = [p EXCEPT !.as = t]
      <3>1. PICK tail : tail = Min({m \in DOMAIN p.as : \A k \in DOMAIN p.as : p.as[k].end <= p.as[m].end})
        OBVIOUS
      <3>2. r = [p EXCEPT !.as = [m \in DOMAIN p.as |-> [p.as[m] EXCEPT !.draft = (m = tail)]]]
        BY <1>0, <1>6, <3>1 DEF placeDraft
      <3>3. tail = L
        BY <1>0, <2>1, <3>1
      <3> QED
        BY <1>0, <2>2, <3>2, <3>3
    <2>4. r.quant = q /\ r.ok = TRUE /\ r.as = t
      BY <1>1, <2>3
    <2>5. ASSUME NEW m \in 1 .. L
          PROVE  t[m].node = sh[m].node /\ t[m].start = sh[m].start /\ t[m].end = sh[m].end /\ t[m].draft = (m = L)
      <3>1. PICK a, b : a = sh[m] /\ b = (m = L)
        OBVIOUS
      <3>2. t[m] = [a EXCEPT !.draft = b]
        BY <1>3, <2>2, <3>1
      <3>3. a = [node |-> a.node, host |-> a.host, start |-> a.start, end |-> a.end, draft |-> a.draft]
        BY <1>4, <3>1 DEF Shard
      <3>4. t[m].node = a.node /\ t[m].start = a.start /\ t[m].end = a.end /\ t[m].draft = b
        BY <3>2, <3>3
      <3> QED
        BY <3>1, <3>4
    <2>6. t = [m \in 1 .. L |-> t[m]]
      BY <1>3, <2>2
    <2>7. SameShards(t, sh, L)
      BY <2>5, <2>6 DEF SameShards
    <2>8. DraftOn(t, j, L)
      BY <1>6, <2>5 DEF DraftOn
    <2> QED
      BY <1>0, <2>4, <2>7, <2>8 DEF Drafted
  <1> QED
    BY <1>5, <1>6

LEMMA SameHolds ==
    ASSUME NEW r, NEW p, NEW L \in Nat, SameShards(r.as, p.as, L), DOMAIN p.as = 1 .. L, NEW n
    PROVE  nodesOf(r) = nodesOf(p) /\ layersOn(r, n) = layersOn(p, n)
  <1>0. PICK t, sh : t = r.as /\ sh = p.as
    OBVIOUS
  <1>1. DOMAIN t = 1 .. L /\ DOMAIN sh = 1 .. L
    BY <1>0 DEF SameShards
  <1>2. \A m \in 1 .. L : t[m].node = sh[m].node /\ t[m].start = sh[m].start /\ t[m].end = sh[m].end
    BY <1>0 DEF SameShards
  <1>3. nodesOf(r) = nodesOf(p)
    BY <1>0, <1>1, <1>2 DEF nodesOf
  <1>4. PICK D : D = {m \in 1 .. L : sh[m].node = n}
    OBVIOUS
  <1>5. {m \in DOMAIN r.as : r.as[m].node = n} = D /\ {m \in DOMAIN p.as : p.as[m].node = n} = D
    BY <1>0, <1>1, <1>2, <1>4
  <1>6. [m \in D |-> r.as[m].end - r.as[m].start + 1] = [m \in D |-> p.as[m].end - p.as[m].start + 1]
    BY <1>0, <1>2, <1>4
  <1>7. layersOn(r, n) = FoldFunction(+, 0, [m \in D |-> r.as[m].end - r.as[m].start + 1])
    BY <1>5 DEF layersOn
  <1>8. layersOn(p, n) = FoldFunction(+, 0, [m \in D |-> p.as[m].end - p.as[m].start + 1])
    BY <1>5 DEF layersOn
  <1> QED
    BY <1>3, <1>6, <1>7, <1>8

\* A validated plan on the nodes that may be used is deployable with its draft.
LEMMA ValidHolds ==
    ASSUME NEW j \in Jobs, NEW fleet, NEW N, N = allowedNodes(applyNodeFilter(fleet, j), j), N \subseteq DOMAIN j.hw,
           NEW q \in DOMAIN j.quants, NEW p, PlanOn(p, N, q), validatePlanMemory(p, j), NEW r, r = placeDraft(p, j)
    PROVE  Deployable(r, fleet, j) /\ r.ok = TRUE
  <1>0. PICK sh, L, t : sh = p.as /\ L = Len(p.as) /\ t = r.as
    OBVIOUS
  <1>1. ShardsOn(sh, L, N) /\ p.quant = q
    BY <1>0 DEF PlanOn
  <1>2. L \in Nat \ {0} /\ Shards(sh, L, N) /\ Covers(sh, L)
    BY <1>1 DEF ShardsOn
  <1>3. DOMAIN sh = 1 .. L
    BY <1>2, ShardsLen
  <1>4. j.draft \in BOOLEAN
    BY JobsAssumption
  <1>5. r.quant = q /\ r.ok = TRUE /\ SameShards(t, sh, L) /\ DraftOn(t, j, L)
    <2>1. Drafted(placeDraft(p, j), p, j, q)
      BY <1>4, DraftHolds
    <2> QED
      BY <1>0, <2>1 DEF Drafted
  <1>6. nodesOf(r) = nodesOf(p) /\ \A n : layersOn(r, n) = layersOn(p, n)
    <2>1. SameShards(r.as, p.as, L) /\ DOMAIN p.as = 1 .. L /\ L \in Nat
      BY <1>0, <1>2, <1>3, <1>5
    <2> QED
      BY <2>1, SameHolds
  <1>7. nodesOf(r) \subseteq N
    <2>1. \A m \in 1 .. L : sh[m].node \in N
      BY <1>2 DEF Shards, Shard
    <2> QED
      BY <1>0, <1>3, <1>6, <2>1 DEF nodesOf
  <1>8. Len(t) = L
    BY <1>2, <1>5 DEF SameShards
  <1>9. /\ t[1].start = 0 /\ t[L].end = Layers - 1
        /\ \A m \in 1 .. L : t[m].start <= t[m].end /\ (m < L => t[m + 1].start = t[m].end + 1)
    <2>1. 1 \in 1 .. L /\ L \in 1 .. L /\ \A m \in 1 .. L : m < L => m + 1 \in 1 .. L
      BY <1>2
    <2> QED
      BY <1>2, <1>5, <2>1 DEF Covers, SameShards
  <1>10. /\ N \subseteq fleet \ j.exclude
         /\ j.include # {} => N \subseteq j.include
         /\ j.allowed # {} => N \subseteq j.allowed
    BY DEF allowedNodes, applyNodeFilter
  <1>11. ASSUME NEW n \in nodesOf(r)
         PROVE  (j.quants[r.quant] + j.kv) * layersOn(r, n) + Overhead * Layers <= usefulMemoryForFit(j.hw[n]) * Layers
    <2>1. n \in nodesOf(p)
      BY <1>6
    <2>2. Holds(p, j, n)
      BY <2>1, MemoryHolds
    <2> QED
      BY <1>1, <1>5, <1>6, <2>2 DEF Holds
  <1>12. \A m \in 1 .. L : t[m].draft = (j.draft /\ m = L)
    BY <1>5 DEF DraftOn
  <1>13. nodesOf(r) \subseteq fleet \ j.exclude /\ (j.include # {} => nodesOf(r) \subseteq j.include)
         /\ (j.allowed # {} => nodesOf(r) \subseteq j.allowed)
    BY <1>7, <1>10
  <1>14. Deployable(r, fleet, j)
    BY <1>0, <1>8, <1>9, <1>11, <1>12, <1>13 DEF Deployable
  <1> QED
    BY <1>5, <1>14

\* selectQuantization: an error or a quantization of the model.
LEMMA QuantIn ==
    ASSUME NEW j \in Jobs, NEW N, NEW kv, NEW q, q = selectQuantization(N, j, kv), q # 0
    PROVE  q \in DOMAIN j.quants
  <1> DEFINE fits(k) == sumRam(N, j) >= j.quants[k] + kv + Overhead * Cardinality(N)
             all == {k \in DOMAIN j.quants : fits(k)}
  <1>1. q = IF j.quant # 0 THEN (IF j.quant \in DOMAIN j.quants /\ fits(j.quant) THEN j.quant ELSE 0)
            ELSE IF all = {} THEN 0 ELSE Min(all)
    BY DEF selectQuantization
  <1>2. CASE j.quant # 0
    BY <1>1, <1>2
  <1>3. CASE j.quant = 0
    <2>1. all # {} /\ q = Min(all)
      BY <1>1, <1>3
    <2>2. j.quants \in Seq(Nat)
      BY JobsAssumption
    <2>3. DOMAIN j.quants \in SUBSET Nat
      BY <2>2
    <2>4. all \in SUBSET Nat /\ all \subseteq DOMAIN j.quants
      BY <2>3
    <2> HIDE DEF all
    <2>5. Min(all) \in all
      BY <2>1, <2>4, LeastNat
    <2> QED
      BY <2>1, <2>4, <2>5
  <1> QED
    BY <1>2, <1>3

\* Every plan planInternal returns is deployable.
LEMMA PlanInternalHolds ==
    ASSUME NEW j \in Jobs, NEW fleet, fleet \subseteq DOMAIN j.hw, NEW p, p = planInternal(fleet, j)
    PROVE  p = NoPlan \/ (Deployable(p, fleet, j) /\ p.ok = TRUE)
  <1>0. PICK N, kv : N = allowedNodes(applyNodeFilter(fleet, j), j) /\ kv = kvCacheInMemory(j.kv, minPCF(N, j))
    OBVIOUS
  <1>1. PICK q : q = selectQuantization(N, j, kv)
    OBVIOUS
  <1>2. PICK ss : ss = candidateSubsets(N, j.hw, j.quants[q], kv, j.force)
    OBVIOUS
  <1>3. PICK c : c = selectCandidate(ss, j, q)
    OBVIOUS
  <1>4. p = IF N = {} \/ (j.allowed # {} /\ j.host # 0 /\ j.host \notin j.allowed) THEN NoPlan
            ELSE IF q = 0 THEN NoPlan ELSE IF ss = <<>> THEN NoPlan
            ELSE IF ~c.ok \/ ~validatePlanMemory(c, j) THEN NoPlan ELSE placeDraft(c, j)
    BY <1>0, <1>1, <1>2, <1>3 DEF planInternal
  <1>5. SUFFICES ASSUME N # {}, q # 0, ss # <<>>, c.ok, validatePlanMemory(c, j), p = placeDraft(c, j)
                 PROVE  Deployable(p, fleet, j) /\ p.ok = TRUE
    BY <1>4
  <1>6. N \subseteq DOMAIN j.hw
    BY <1>0 DEF allowedNodes, applyNodeFilter
  <1>7. N \in SUBSET Nat /\ IsFiniteSet(N) /\ Ranked(N, j.hw) /\ j.force \in Nat
    BY <1>6, JobNodes, JobsAssumption
  <1>8. SubsetsOn(ss, N)
    BY <1>2, <1>5, <1>7, CandidatesHold
  <1>9. q \in DOMAIN j.quants
    BY <1>1, <1>5, QuantIn
  <1>10. c = NoPlan \/ PlanOn(c, N, q)
    BY <1>3, <1>6, <1>8, <1>9, SelectHolds
  <1>11. PlanOn(c, N, q)
    BY <1>5, <1>10 DEF NoPlan
  <1> QED
    BY <1>0, <1>5, <1>6, <1>9, <1>11, ValidHolds

(***************************************************************************)
(* Replica groups                                                          *)
(***************************************************************************)

\* The arithmetic of equal groups: they are numbered 1 .. r, the k-th ends at k * size.
LEMMA GroupEnds ==
    ASSUME NEW n \in Nat, NEW r \in Nat \ {0}, NEW size, size = n \div r
    PROVE  /\ size \in Nat
           /\ \A i \in 0 .. r : i * size \in Nat /\ i * size <= n
           /\ \A i, k \in 0 .. r : i <= k => i * size <= k * size
  <1>1. size \in Nat /\ r * size <= n
    OBVIOUS
  <1>2. ASSUME NEW a \in Nat, NEW b \in Nat, a <= b PROVE a * size \in Nat /\ a * size <= b * size
    <2>1. PICK d \in Nat : b = a + d
      BY <1>2
    <2>2. d * size \in Nat /\ a * size \in Nat
      BY <1>1
    <2>3. (a + d) * size = a * size + d * size
      BY <1>1
    <2> QED
      BY <2>1, <2>2, <2>3
  <1>3. ASSUME NEW i \in 0 .. r PROVE i * size \in Nat /\ i * size <= n
    <2>1. i * size \in Nat /\ i * size <= r * size /\ r * size \in Nat
      BY <1>2
    <2> QED
      BY <1>1, <2>1
  <1>4. ASSUME NEW i \in 0 .. r, NEW k \in 0 .. r, i <= k PROVE i * size <= k * size
    BY <1>2, <1>4
  <1> QED
    BY <1>1, <1>3, <1>4

LEMMA FitKeyed ==
    ASSUME NEW j \in Jobs
    PROVE  /\ loadFleet(j) \in SUBSET Nat /\ IsFiniteSet(loadFleet(j)) /\ loadFleet(j) \subseteq DOMAIN j.hw
           /\ Keyed(loadFleet(j), [n \in loadFleet(j) |-> usefulMemoryForFit(j.hw[n])])
  <1>1. loadFleet(j) \subseteq DOMAIN j.hw
    BY DEF loadFleet
  <1>2. loadFleet(j) \in SUBSET Nat /\ IsFiniteSet(loadFleet(j)) /\ MachinesOn(loadFleet(j), j.hw)
    BY <1>1, JobNodes
  <1> QED
    BY <1>1, <1>2, FitNat DEF Keyed, MachinesOn

\* The nodes of a group stand at its places of the ranking.
GroupAt(j, i, s, a, b) ==
    \A x \in replicaGroup(j, i) : \E y \in a .. b : x = s[y]

LEMMA GroupHolds ==
    ASSUME NEW j \in Jobs, NEW S, S = loadFleet(j), NEW s, s = rankForFit(S, j), NEW n, n = Cardinality(S),
           NEW size, size = n \div j.replicas, NEW i \in 1 .. j.replicas
    PROVE  GroupAt(j, i, s, (i - 1) * size + 1, IF i = j.replicas THEN n ELSE i * size)
  <1>1. s \in [1 .. n -> S] /\ n \in Nat
    BY FitKeyed, SortedHolds DEF rankForFit
  <1>2. Len(s) = n
    BY <1>1
  <1>3. j.replicas \in Nat \ {0}
    BY JobsAssumption
  <1>4. PICK a, b : a = (i - 1) * size + 1 /\ b = IF i = j.replicas THEN n ELSE i * size
    OBVIOUS
  <1>5. a \in Nat /\ a >= 1 /\ b \in Nat
    <2>1. i - 1 \in 0 .. j.replicas /\ i \in 0 .. j.replicas
      BY <1>3
    <2>2. (i - 1) * size \in Nat /\ i * size \in Nat
      BY <1>1, <1>3, <2>1, GroupEnds
    <2> QED
      BY <1>1, <1>4, <2>2
  <1>6. replicaGroup(j, i) = ToSet(SubSeq(s, a, b))
    BY <1>2, <1>4 DEF replicaGroup
  <1>7. ASSUME NEW x \in ToSet(SubSeq(s, a, b)) PROVE \E y \in a .. b : x = s[y]
    <2>1. SubSeq(s, a, b) = [m \in 1 .. (1 + b - a) |-> s[a + m - 1]]
      BY <1>1, <1>5
    <2>2. PICK m \in DOMAIN SubSeq(s, a, b) : x = SubSeq(s, a, b)[m]
      BY DEF ToSet
    <2>3. m \in 1 .. (1 + b - a) /\ x = s[a + m - 1]
      BY <2>1, <2>2
    <2>4. a + m - 1 \in a .. b
      BY <1>5, <2>3
    <2> QED
      BY <2>3, <2>4
  <1>8. GroupAt(j, i, s, a, b)
    BY <1>6, <1>7 DEF GroupAt
  <1> QED
    BY <1>4, <1>8

\* PlanReplicaSet: a group is a part of the fleet, and two groups share no node.
LEMMA GroupsHold ==
    ASSUME NEW j \in Jobs
    PROVE  /\ \A i \in 1 .. j.replicas : replicaGroup(j, i) \subseteq loadFleet(j)
           /\ \A i, k \in 1 .. j.replicas : i # k => replicaGroup(j, i) \cap replicaGroup(j, k) = {}
  <1>0. PICK S, s, n, r : S = loadFleet(j) /\ s = rankForFit(S, j) /\ n = Cardinality(S) /\ r = j.replicas
    OBVIOUS
  <1>1. PICK size : size = n \div r
    OBVIOUS
  <1>2. s \in [1 .. n -> S] /\ n \in Nat /\ (\A x, y \in 1 .. n : s[x] = s[y] => x = y)
    <2>1. PICK key : key = [m \in S |-> usefulMemoryForFit(j.hw[m])]
      OBVIOUS
    <2>2. s = sortedBy(S, key)
      BY <1>0, <2>1 DEF rankForFit
    <2>3. S \in SUBSET Nat /\ IsFiniteSet(S) /\ Keyed(S, key)
      BY <1>0, <2>1, FitKeyed
    <2> QED
      BY <1>0, <2>2, <2>3, SortedHolds
  <1>3. r \in Nat \ {0}
    BY <1>0, JobsAssumption
  <1>4. size \in Nat /\ (\A i \in 0 .. r : i * size \in Nat /\ i * size <= n) /\ (\A i, k \in 0 .. r : i <= k => i * size <= k * size)
    BY <1>1, <1>2, <1>3, GroupEnds
  <1>5. ASSUME NEW i \in 1 .. r PROVE GroupAt(j, i, s, (i - 1) * size + 1, IF i = r THEN n ELSE i * size)
    BY <1>0, <1>1, GroupHolds
  <1>6. ASSUME NEW i \in 1 .. r, NEW x \in replicaGroup(j, i)
        PROVE  \E y \in 1 .. n : x = s[y] /\ (i - 1) * size + 1 <= y /\ (i < r => y <= i * size)
    <2>1. PICK y \in (i - 1) * size + 1 .. IF i = r THEN n ELSE i * size : x = s[y]
      BY <1>5, <1>6 DEF GroupAt
    <2>2. i \in 0 .. r /\ i - 1 \in 0 .. r
      BY <1>3
    <2>3. (i - 1) * size \in Nat /\ i * size \in Nat /\ i * size <= n
      BY <1>4, <2>2
    <2>4. PICK u, v : u = (i - 1) * size /\ v = i * size
      OBVIOUS
    <2>5. y \in 1 .. n /\ u + 1 <= y /\ (i < r => y <= v)
      <3>1. y \in u + 1 .. IF i = r THEN n ELSE v
        BY <2>4
      <3>2. u \in Nat /\ v \in Nat /\ v <= n
        BY <2>3, <2>4
      <3> QED
        BY <1>2, <1>3, <3>1, <3>2
    <2> QED
      BY <2>1, <2>4, <2>5
  <1>7. ASSUME NEW i \in 1 .. r PROVE replicaGroup(j, i) \subseteq S
    BY <1>2, <1>6
  <1>8. ASSUME NEW i \in 1 .. r, NEW k \in 1 .. r, i < k, NEW x \in replicaGroup(j, i), x \in replicaGroup(j, k) PROVE FALSE
    <2>1. PICK y \in 1 .. n : x = s[y] /\ (i < r => y <= i * size)
      BY <1>6
    <2>2. PICK z \in 1 .. n : x = s[z] /\ (k - 1) * size + 1 <= z
      BY <1>6, <1>8
    <2>3. y = z
      BY <1>2, <2>1, <2>2
    <2>4. i \in 0 .. r /\ k - 1 \in 0 .. r /\ i <= k - 1 /\ i < r
      BY <1>3, <1>8
    <2>5. i * size <= (k - 1) * size /\ i * size \in Nat /\ (k - 1) * size \in Nat
      BY <1>4, <2>4
    <2>6. PICK u, v : u = i * size /\ v = (k - 1) * size
      OBVIOUS
    <2>7. y <= u /\ v + 1 <= y /\ u <= v /\ u \in Nat /\ v \in Nat
      BY <2>1, <2>2, <2>3, <2>4, <2>5, <2>6
    <2> QED
      BY <1>2, <2>7
  <1>9. ASSUME NEW i \in 1 .. r, NEW k \in 1 .. r, i # k PROVE replicaGroup(j, i) \cap replicaGroup(j, k) = {}
    <2>1. i < k \/ k < i
      BY <1>3, <1>9
    <2> QED
      BY <1>8, <2>1
  <1> QED
    BY <1>0, <1>7, <1>9

\* What is deployable on a part of a fleet is deployable on the fleet.
LEMMA DeployableMonotone ==
    ASSUME NEW p, NEW fleet, NEW whole, fleet \subseteq whole, NEW j, Deployable(p, fleet, j)
    PROVE  Deployable(p, whole, j)
  BY DEF Deployable

LEMMA DeployableNodes ==
    ASSUME NEW p, NEW fleet, NEW j, Deployable(p, fleet, j)
    PROVE  nodesOf(p) \subseteq fleet
  BY DEF Deployable

(***************************************************************************)
(* The planner's invariant                                                 *)
(***************************************************************************)

\* The primary plan is none or deployable.
PlanSettled == plan = NoPlan \/ (Deployable(plan, loadFleet(job), job) /\ plan.ok = TRUE)

\* Nothing has been planned or started.
PlanIdle == stage = "idle" => plan = NoPlan /\ running = {} /\ collected = <<>>

\* Every node of the plan has a goroutine that runs or has sent its alternative.
FailoverKept ==
    plan # NoPlan =>
        /\ job.replicas = 1 /\ running \cup DOMAIN collected = nodesOf(plan)
        /\ \A n \in DOMAIN collected :
              collected[n] = NoPlan \/ Deployable(collected[n], loadFleet(job) \ {n}, job)

\* Every group runs or has sent its plan, which is on the nodes of the group.
ReplicasKept ==
    /\ stage = "failover" => plan # NoPlan
    /\ stage = "replicas" => job.replicas # 1
    /\ job.replicas = 1 => (plan = NoPlan => collected = <<>>)
    /\ job.replicas # 1 =>
          /\ \A i \in DOMAIN collected :
                i \in 1 .. job.replicas /\ (collected[i] = NoPlan \/ Deployable(collected[i], replicaGroup(job, i), job))
          /\ (collected # <<>> \/ stage = "replicas") => running \cup DOMAIN collected = 1 .. job.replicas

\* The inductive invariant.
PlannerInv ==
    /\ job \in Jobs /\ (stage = "done" => running = {})
    /\ PlanSettled /\ PlanIdle /\ FailoverKept /\ ReplicasKept

LEMMA PlannerInvInit ==
    PlannerInit => PlannerInv
  BY DEF PlannerInit, PlannerInv, PlanSettled, PlanIdle, FailoverKept, ReplicasKept

LEMMA NoPlanFacts ==
    NoPlan.ok = FALSE /\ nodesOf(NoPlan) = {}
  BY DEF NoPlan, nodesOf

\* c is what has been collected when k sends p.
Collected(c, k, p) ==
    /\ DOMAIN c = DOMAIN collected \cup {k} /\ c[k] = p /\ c # <<>>
    /\ \A x \in DOMAIN collected : x # k => c[x] = collected[x]

LEMMA CollectFacts ==
    ASSUME NEW k, NEW p, NEW c, c = Collect(k, p)
    PROVE  Collected(c, k, p)
  <1>1. DOMAIN c = DOMAIN collected \cup {k} /\ c[k] = p /\ \A x \in DOMAIN collected : x # k => c[x] = collected[x]
    BY DEF Collect
  <1>2. DOMAIN <<>> = {}
    OBVIOUS
  <1> QED
    BY <1>1, <1>2 DEF Collected

\* Every step of the planner keeps it.
LEMMA PlannerInvNext ==
    PlannerInv /\ [PlannerNext]_planVars => PlannerInv'
  <1> SUFFICES ASSUME PlannerInv, [PlannerNext]_planVars PROVE PlannerInv'
    OBVIOUS
  <1>0. job \in Jobs /\ loadFleet(job) \subseteq DOMAIN job.hw
    BY FitKeyed DEF PlannerInv
  <1>1. CASE PlanPrimary
    <2>1. plan' = NoPlan \/ (Deployable(plan', loadFleet(job), job) /\ plan'.ok = TRUE)
      BY <1>0, <1>1, PlanInternalHolds DEF PlanPrimary
    <2>2. collected = <<>> /\ DOMAIN collected = {} /\ job.replicas = 1
      BY <1>1 DEF PlanPrimary, PlannerInv, PlanIdle
    <2>3. /\ job' = job /\ collected' = collected /\ running' = nodesOf(plan')
          /\ stage' = IF plan'.ok THEN "failover" ELSE "done"
      BY <1>1 DEF PlanPrimary
    <2>4. CASE plan' = NoPlan
      <3>1. stage' = "done" /\ running' = {}
        BY <2>3, <2>4, NoPlanFacts
      <3> QED
        BY <1>0, <2>2, <2>3, <2>4, <3>1 DEF PlannerInv, PlanSettled, PlanIdle, FailoverKept, ReplicasKept
    <2>5. CASE plan' # NoPlan
      <3>1. stage' = "failover" /\ Deployable(plan', loadFleet(job), job) /\ plan'.ok = TRUE
        BY <2>1, <2>3, <2>5
      <3>2. PlanSettled'
        BY <2>3, <3>1 DEF PlanSettled, loadFleet
      <3> QED
        BY <1>0, <2>2, <2>3, <2>5, <3>1, <3>2 DEF PlannerInv, PlanIdle, FailoverKept, ReplicasKept
    <2> QED
      BY <2>4, <2>5
  <1>2. CASE PlanReplicaSet
    <2>1. job' = job /\ plan' = plan /\ collected' = collected /\ stage = "idle" /\ job.replicas > 1
      BY <1>2 DEF PlanReplicaSet
    <2>2. plan = NoPlan /\ collected = <<>> /\ running = {} /\ DOMAIN collected = {}
      BY <2>1 DEF PlannerInv, PlanIdle
    <2>3. (stage' = "done" /\ running' = {}) \/ (stage' = "replicas" /\ running' = 1 .. job.replicas)
      BY <1>2, <2>2 DEF PlanReplicaSet
    <2>4. job.replicas # 1
      BY <2>1
    <2> QED
      BY <1>0, <2>1, <2>2, <2>3, <2>4 DEF PlannerInv, PlanSettled, PlanIdle, FailoverKept, ReplicasKept
  <1>3. CASE CancelPlan
    BY <1>3 DEF CancelPlan, PlannerInv, PlanSettled, PlanIdle, FailoverKept, ReplicasKept, loadFleet, replicaGroup
  <1>4. CASE UNCHANGED planVars
    BY <1>4 DEF planVars, PlannerInv, PlanSettled, PlanIdle, FailoverKept, ReplicasKept, loadFleet, replicaGroup
  <1>5. ASSUME NEW d \in running, computeFailoverPlans(d) PROVE PlannerInv'
    <2>1. PICK F, c, p : /\ F = nodesExcluding(allowedNodes(applyNodeFilter(loadFleet(job), job), job), d)
                         /\ p = (IF cancelled THEN NoPlan ELSE planInternal(F, job)) /\ c = Collect(d, p)
      OBVIOUS
    <2>2. /\ collected' = c /\ running' = running \ {d} /\ job' = job /\ plan' = plan
          /\ stage' = (IF running' = {} THEN "done" ELSE stage) /\ stage = "failover"
      BY <1>5, <2>1 DEF computeFailoverPlans
    <2>3. F \subseteq loadFleet(job) \ {d}
      BY <2>1 DEF nodesExcluding, allowedNodes, applyNodeFilter
    <2>4. p = NoPlan \/ Deployable(p, F, job)
      BY <1>0, <2>1, <2>3, PlanInternalHolds
    <2>5. p = NoPlan \/ Deployable(p, loadFleet(job) \ {d}, job)
      BY <2>3, <2>4, DeployableMonotone
    <2>6. DOMAIN c = DOMAIN collected \cup {d} /\ c[d] = p /\ \A x \in DOMAIN collected : x # d => c[x] = collected[x]
      <3>1. c = Collect(d, p)
        BY <2>1
      <3>2. Collected(c, d, p)
        BY <3>1, CollectFacts
      <3> QED
        BY <3>2 DEF Collected
    <2>7. plan # NoPlan /\ job.replicas = 1 /\ running \cup DOMAIN collected = nodesOf(plan)
      BY <2>2 DEF PlannerInv, ReplicasKept, FailoverKept
    <2>8. ASSUME NEW n \in DOMAIN c PROVE c[n] = NoPlan \/ Deployable(c[n], loadFleet(job) \ {n}, job)
      BY <2>5, <2>6, <2>7 DEF PlannerInv, FailoverKept
    <2>9. running' \cup DOMAIN c = nodesOf(plan)
      BY <2>2, <2>6, <2>7
    <2>10. FailoverKept'
      BY <2>2, <2>7, <2>8, <2>9 DEF FailoverKept
    <2>11. PlanSettled'
      BY <2>2 DEF PlannerInv, PlanSettled
    <2> QED
      BY <1>0, <2>2, <2>7, <2>10, <2>11 DEF PlannerInv, PlanIdle, ReplicasKept
  <1>6. ASSUME NEW i \in running, PlanGroup(i) PROVE PlannerInv'
    <2>1. PICK F, c, p : F = replicaGroup(job, i) /\ p = (IF cancelled THEN NoPlan ELSE planInternal(F, job)) /\ c = Collect(i, p)
      OBVIOUS
    <2>2. /\ collected' = c /\ running' = running \ {i} /\ job' = job /\ plan' = plan
          /\ stage' = (IF running' = {} THEN "done" ELSE stage) /\ stage = "replicas"
      BY <1>6, <2>1 DEF PlanGroup
    <2>3. job.replicas # 1 /\ plan = NoPlan /\ running \cup DOMAIN collected = 1 .. job.replicas
      BY <2>2 DEF PlannerInv, ReplicasKept, FailoverKept
    <2>4. i \in 1 .. job.replicas
      BY <2>3
    <2>5. F \subseteq DOMAIN job.hw
      BY <1>0, <2>1, <2>4, GroupsHold
    <2>6. p = NoPlan \/ Deployable(p, F, job)
      BY <1>0, <2>1, <2>5, PlanInternalHolds
    <2>7. DOMAIN c = DOMAIN collected \cup {i} /\ c[i] = p /\ c # <<>> /\ \A x \in DOMAIN collected : x # i => c[x] = collected[x]
      <3>1. c = Collect(i, p)
        BY <2>1
      <3>2. Collected(c, i, p)
        BY <3>1, CollectFacts
      <3> QED
        BY <3>2 DEF Collected
    <2>8. ASSUME NEW n \in DOMAIN c PROVE n \in 1 .. job.replicas /\ (c[n] = NoPlan \/ Deployable(c[n], replicaGroup(job, n), job))
      BY <2>1, <2>3, <2>4, <2>6, <2>7 DEF PlannerInv, ReplicasKept
    <2>9. running' \cup DOMAIN c = 1 .. job.replicas
      BY <2>2, <2>3, <2>7
    <2>10. ReplicasKept'
      BY <2>2, <2>3, <2>8, <2>9 DEF ReplicasKept
    <2> QED
      BY <1>0, <2>2, <2>3, <2>10 DEF PlannerInv, PlanIdle, PlanSettled, FailoverKept
  <1> QED
    BY <1>1, <1>2, <1>3, <1>4, <1>5, <1>6 DEF PlannerNext

LEMMA PlannerInvSound ==
    PlannerInv => PlanSound /\ FailoverSound /\ ReplicasDisjoint
  <1> SUFFICES ASSUME PlannerInv PROVE PlanSound /\ FailoverSound /\ ReplicasDisjoint
    OBVIOUS
  <1>1. PlanSound
    BY NoPlanFacts DEF PlannerInv, PlanSettled, PlanSound
  <1>2. FailoverSound
    <2> SUFFICES ASSUME plan.ok PROVE /\ \A n \in DOMAIN collected : collected[n].ok => Deployable(collected[n], loadFleet(job) \ {n}, job)
                                      /\ stage = "done" => DOMAIN collected = nodesOf(plan)
      BY DEF FailoverSound
    <2>1. plan # NoPlan
      BY NoPlanFacts
    <2> QED
      BY <2>1, NoPlanFacts DEF PlannerInv, FailoverKept
  <1>3. ReplicasDisjoint
    <2> SUFFICES ASSUME ReplicaSetReturned
                 PROVE  /\ DOMAIN collected = 1 .. job.replicas
                        /\ \A i \in DOMAIN collected : Deployable(collected[i], loadFleet(job), job)
                        /\ \A i, k \in DOMAIN collected : i # k => nodesOf(collected[i]) \cap nodesOf(collected[k]) = {}
      BY DEF ReplicasDisjoint
    <2>1. job.replicas > 1 /\ stage = "done" /\ collected # <<>> /\ \A i \in DOMAIN collected : collected[i].ok
      BY DEF ReplicaSetReturned
    <2>2. job.replicas # 1
      BY <2>1
    <2>3. DOMAIN collected = 1 .. job.replicas
      BY <2>1, <2>2 DEF PlannerInv, ReplicasKept
    <2>4. ASSUME NEW i \in DOMAIN collected PROVE Deployable(collected[i], replicaGroup(job, i), job)
      BY <2>1, <2>2, NoPlanFacts DEF PlannerInv, ReplicasKept
    <2>5. job \in Jobs
      BY DEF PlannerInv
    <2>6. ASSUME NEW i \in DOMAIN collected PROVE replicaGroup(job, i) \subseteq loadFleet(job)
      BY <2>3, <2>5, GroupsHold
    <2>7. ASSUME NEW i \in DOMAIN collected PROVE Deployable(collected[i], loadFleet(job), job)
      BY <2>4, <2>6, DeployableMonotone
    <2>8. ASSUME NEW i \in DOMAIN collected, NEW k \in DOMAIN collected, i # k
          PROVE  nodesOf(collected[i]) \cap nodesOf(collected[k]) = {}
      <3>1. nodesOf(collected[i]) \subseteq replicaGroup(job, i) /\ nodesOf(collected[k]) \subseteq replicaGroup(job, k)
        BY <2>4, DeployableNodes
      <3>2. replicaGroup(job, i) \cap replicaGroup(job, k) = {}
        BY <2>3, <2>5, <2>8, GroupsHold
      <3> QED
        BY <3>1, <3>2
    <2> QED
      BY <2>3, <2>7, <2>8
  <1> QED
    BY <1>1, <1>2, <1>3

\* The planner: every plan that reaches a caller is deployable, every failover alternative is
\* deployable without its node, and the replicas of a set share no node.
THEOREM PlannerSound ==
    PlannerSpec => [](PlanSound /\ FailoverSound /\ ReplicasDisjoint)
  BY PlannerInvInit, PlannerInvNext, PlannerInvSound, PTL DEF PlannerSpec

(***************************************************************************)
(* Optimality of the partition                                             *)
(***************************************************************************)

\* Max of a set with a greatest element.
LEMMA GreatestIsMax ==
    ASSUME NEW S \in SUBSET Nat, IsFiniteSet(S), S # {}
    PROVE  Max(S) \in S /\ \A y \in S : y <= Max(S)
  <1>1. PICK x \in S : \A y \in S : y <= x
    BY GreatestNat
  <1>2. \E z \in S : \A y \in S : z >= y
    BY <1>1
  <1>3. Max(S) \in S /\ \A y \in S : Max(S) >= y
    BY <1>2 DEF Max
  <1> QED
    BY <1>3

\* Where a shard of the split c begins.
From(c, m) == IF m = 1 THEN 0 ELSE c[m - 1]

\* c splits the layers over the first m nodes.
SplitOf(c, m) ==
    /\ c \in [1 .. m -> 1 .. Layers] /\ c[m] = Layers
    /\ \A i \in 1 .. m - 1 : c[i] < c[i + 1]

\* Every stage of c takes t at most.
SplitWithin(c, m, time, t) == \A k \in 1 .. m : time[<<k, From(c, k), c[k]>>] <= t

\* Where a stage of a split begins.
LEMMA SplitFrom ==
    ASSUME NEW m \in Nat, NEW c, SplitOf(c, m), NEW k \in 1 .. m
    PROVE  c[k] \in 1 .. Layers /\ From(c, k) \in 0 .. c[k] - 1
  <1> Layers \in Nat
    BY PartitionAssumption
  <1>1. c[k] \in 1 .. Layers
    BY DEF SplitOf
  <1>2. CASE k = 1
    BY <1>1, <1>2 DEF From
  <1>3. CASE k # 1
    <2>1. k - 1 \in 1 .. m - 1 /\ (k - 1) + 1 = k /\ k - 1 \in 1 .. m
      BY <1>3
    <2>2. c[k - 1] < c[k] /\ c[k - 1] \in 1 .. Layers
      BY <2>1 DEF SplitOf
    <2> QED
      BY <1>1, <1>3, <2>2 DEF From
  <1> QED
    BY <1>2, <1>3

\* No split is faster than the table says.
LEMMA SplitBound ==
    ASSUME NEW n \in Nat, NEW time, Times(n, time), NEW dp, DpFacts(dp, n, time), NEW m \in 1 .. n,
           NEW c, SplitOf(c, m), NEW t \in Nat, SplitWithin(c, m, time, t)
    PROVE  dp[m][Layers] <= t
  <1> Layers \in Nat
    BY PartitionAssumption
  <1>0. m \in Nat
    OBVIOUS
  <1>1. ASSUME NEW k \in 1 .. m, k = 1 \/ dp[k - 1][c[k - 1]] <= t PROVE dp[k][c[k]] <= t
    <2>1. PICK i, j : i = From(c, k) /\ j = c[k]
      OBVIOUS
    <2>2. j \in 1 .. Layers /\ i \in 0 .. j - 1
      BY <1>0, <2>1, SplitFrom
    <2>3. k \in 1 .. n /\ j \in 0 .. Layers
      BY <2>2
    <2>4. dp[k][j] \in Nat /\ dp[k - 1][i] \in Nat /\ dp[k][j] <= larger(dp[k - 1][i], time[<<k, i, j>>])
      BY <2>2, <2>3, DpCell
    <2>5. time[<<k, i, j>>] \in Nat /\ time[<<k, i, j>>] <= t
      BY <2>1, <2>2, <2>3 DEF Times, SplitWithin
    <2>6. dp[k - 1][i] <= t
      <3>1. CASE k = 1
        <4>1. i = 0 /\ dp[0] = Firsts /\ 0 \in 0 .. Layers
          BY <2>1, <3>1 DEF From, DpFacts
        <4> QED
          BY <3>1, <4>1 DEF Firsts
      <3>2. CASE k # 1
        BY <1>1, <2>1, <3>2 DEF From
      <3> QED
        BY <3>1, <3>2
    <2> QED
      BY <2>1, <2>4, <2>5, <2>6 DEF larger
  <1> DEFINE Q == {x \in Nat : x + 1 <= m => dp[x + 1][c[x + 1]] <= t}
  <1>2. 0 \in Q
    <2>1. 1 \in 1 .. m
      OBVIOUS
    <2> QED
      BY <1>1, <2>1
  <1>3. ASSUME NEW x \in Q PROVE x + 1 \in Q
    <2>1. ASSUME (x + 1) + 1 <= m PROVE dp[(x + 1) + 1][c[(x + 1) + 1]] <= t
      <3>1. x \in Nat /\ (x + 1) + 1 \in 1 .. m /\ ((x + 1) + 1) - 1 = x + 1 /\ x + 1 <= m
        BY <1>3, <2>1
      <3>2. dp[x + 1][c[x + 1]] <= t
        BY <1>3, <3>1
      <3> QED
        BY <1>1, <3>1, <3>2
    <2> QED
      BY <1>3, <2>1
  <1>4. Q \in SUBSET Nat
    OBVIOUS
  <1> HIDE DEF Q
  <1>5. Q = Nat
    BY <1>2, <1>3, <1>4, NatInduct
  <1>6. m - 1 \in Q /\ (m - 1) + 1 = m
    BY <1>5
  <1>7. dp[m][c[m]] <= t
    BY <1>6 DEF Q
  <1> QED
    BY <1>7 DEF SplitOf

\* SplitTime is the slowest stage of the split.
LEMMA SplitTimeHolds ==
    ASSUME NEW order, Len(order) \in Nat, NEW hw, NEW links, NEW weight, NEW kv,
           NEW time, time = stageTimes(order, hw, links, weight, kv), Times(Len(order), time),
           NEW m \in 1 .. Len(order), NEW c, SplitOf(c, m), NEW t, t = SplitTime(order, hw, links, weight, kv, c)
    PROVE  /\ t \in Nat /\ SplitWithin(c, m, time, t)
           /\ \A b \in Nat : SplitWithin(c, m, time, b) => t <= b
  <1> Layers \in Nat
    BY PartitionAssumption
  <1>0. m \in Nat /\ Len(c) = m
    BY DEF SplitOf
  <1> DEFINE g == [k \in 1 .. m |-> time[<<k, From(c, k), c[k]>>]]
             S == {g[k] : k \in 1 .. m}
  <1>1. ASSUME NEW k \in 1 .. m PROVE time[<<k, From(c, k), c[k]>>] = stageTime(order, hw, links, weight, kv, k, From(c, k), c[k])
    <2>1. k \in 1 .. Len(order) /\ From(c, k) \in 0 .. Layers /\ c[k] \in 0 .. Layers
      BY <1>0, SplitFrom
    <2> QED
      BY <2>1 DEF stageTimes
  <1>2. ASSUME NEW k \in 1 .. m PROVE g[k] \in Nat
    <2>1. k \in 1 .. Len(order) /\ c[k] \in 0 .. Layers /\ From(c, k) \in 0 .. c[k] - 1
      BY <1>0, SplitFrom
    <2> QED
      BY <2>1 DEF Times
  <1>3. t = Max(S)
    <2>1. ASSUME NEW k \in 1 .. m
          PROVE  g[k] = stageTime(order, hw, links, weight, kv, k, IF k = 1 THEN 0 ELSE c[k - 1], c[k])
      BY <1>1 DEF From
    <2> HIDE DEF g
    <2>2. {stageTime(order, hw, links, weight, kv, k, IF k = 1 THEN 0 ELSE c[k - 1], c[k]) : k \in 1 .. Len(c)} = S
      BY <1>0, <2>1
    <2> QED
      BY <2>2 DEF SplitTime
  <1>4. S \in SUBSET Nat /\ S # {}
    <2> HIDE DEF g
    <2>1. S \in SUBSET Nat
      BY <1>2
    <2>2. 1 \in 1 .. m
      OBVIOUS
    <2> QED
      BY <2>1, <2>2
  <1>5. IsFiniteSet(S)
    <2>1. IsFiniteSet(1 .. m)
      BY FS_Interval
    <2>2. g \in [1 .. m -> S]
      OBVIOUS
    <2> HIDE DEF g
    <2>3. g \in Surjection(1 .. m, S)
      BY <2>2 DEF Surjection
    <2> QED
      BY <2>1, <2>3, FS_Surjection
  <1> HIDE DEF S
  <1>6. Max(S) \in S /\ \A y \in S : y <= Max(S)
    BY <1>4, <1>5, GreatestIsMax
  <1>7. t \in Nat
    BY <1>3, <1>4, <1>6
  <1>8. SplitWithin(c, m, time, t)
    BY <1>3, <1>6 DEF S, SplitWithin
  <1>9. ASSUME NEW b \in Nat, SplitWithin(c, m, time, b) PROVE t <= b
    <2>1. PICK k \in 1 .. m : t = g[k]
      BY <1>3, <1>6 DEF S
    <2> QED
      BY <1>9, <2>1 DEF SplitWithin
  <1> QED
    BY <1>7, <1>8, <1>9

\* Splits, by their number of shards.
LEMMA SplitsAre ==
    ASSUME NEW order, NEW c
    PROVE  c \in Splits(order) <=> \E m \in 1 .. Len(order) : SplitOf(c, m)
  <1>1. ASSUME NEW m \in 1 .. Len(order)
        PROVE  c \in {x \in [1 .. m -> 1 .. Layers] : x[m] = Layers /\ \A i \in 1 .. m - 1 : x[i] < x[i + 1]} <=> SplitOf(c, m)
    BY DEF SplitOf
  <1>2. c \in Splits(order) <=> \E m \in 1 .. Len(order) :
            c \in {x \in [1 .. m -> 1 .. Layers] : x[m] = Layers /\ \A i \in 1 .. m - 1 : x[i] < x[i + 1]}
    BY Zenon DEF Splits
  <1> QED
    BY <1>1, <1>2

\* What DPOptimal asks of a partition: the least time of all splits, which its cuts attain.
IsBest(p, order, hw, links, weight, kv) ==
    LET times == [c \in Splits(order) |-> SplitTime(order, hw, links, weight, kv, c)]
    IN  /\ p.bottleneck = Min({Inf} \cup {times[c] : c \in DOMAIN times})
        /\ p.bottleneck < Inf => times[p.cuts] = p.bottleneck

\* dpPartition attains the least bottleneck of all splits, with the cuts it returns.
LEMMA PartitionBest ==
    ASSUME NEW order, Len(order) \in Nat, NEW hw, NEW links, NEW weight, NEW kv,
           Times(Len(order), stageTimes(order, hw, links, weight, kv))
    PROVE  IsBest(dpPartition(order, hw, links, weight, kv), order, hw, links, weight, kv)
  <1>0. PICK n, time, p : n = Len(order) /\ time = stageTimes(order, hw, links, weight, kv) /\ p = dpPartition(order, hw, links, weight, kv)
    OBVIOUS
  <1>a. PICK dp, b : dp = dpTable(n, time) /\ b = p.bottleneck
    OBVIOUS
  <1>b. n \in Nat /\ Times(n, time)
    BY <1>0
  <1>1. DpFacts(dp, n, time)
    BY <1>a, <1>b, DpTable
  <1>2. /\ b \in Nat /\ b <= Inf
        /\ \A m \in 1 .. n : b <= dp[m][Layers]
        /\ b < Inf => \E used \in 1 .. n : dp[used][Layers] = b /\ EndsOf(p.cuts, used, time, b)
    BY <1>0, <1>a, <1>b, PartitionHolds
  <1> DEFINE t(c) == SplitTime(order, hw, links, weight, kv, c)
             T == {t(c) : c \in Splits(order)}
  <1>3. ASSUME NEW m \in 1 .. n, NEW c, SplitOf(c, m)
        PROVE  t(c) \in Nat /\ b <= t(c) /\ \A x \in Nat : SplitWithin(c, m, time, x) => t(c) <= x
    <2>1. PICK v : v = t(c)
      OBVIOUS
    <2>2. v \in Nat /\ SplitWithin(c, m, time, v) /\ \A x \in Nat : SplitWithin(c, m, time, x) => v <= x
      BY <1>0, <1>3, <2>1, SplitTimeHolds
    <2>3. dp[m][Layers] <= v
      BY <1>b, <1>1, <1>3, <2>2, SplitBound
    <2>4. dp[m][Layers] \in Nat
      <3>1. m \in 0 .. n /\ Layers \in 0 .. Layers
        BY PartitionAssumption
      <3> QED
        BY <1>b, <1>1, <3>1, DpNat
    <2>5. b <= v
      BY <1>2, <2>2, <2>3, <2>4
    <2> QED
      BY <2>1, <2>2, <2>5
  <1> HIDE DEF t
  <1>4. ASSUME NEW c \in Splits(order) PROVE t(c) \in Nat /\ b <= t(c)
    <2>1. PICK m \in 1 .. n : SplitOf(c, m)
      BY <1>0, SplitsAre
    <2> QED
      BY <1>3, <2>1
  <1>5. b < Inf => p.cuts \in Splits(order) /\ t(p.cuts) = b
    <2> SUFFICES ASSUME b < Inf PROVE p.cuts \in Splits(order) /\ t(p.cuts) = b
      OBVIOUS
    <2>1. PICK used \in 1 .. n : EndsOf(p.cuts, used, time, b)
      BY <1>2
    <2>2. PICK c : c = p.cuts
      OBVIOUS
    <2>3. SplitOf(c, used) /\ SplitWithin(c, used, time, b)
      BY <2>1, <2>2 DEF EndsOf, SplitOf, SplitWithin, From
    <2>4. t(c) <= b /\ t(c) \in Nat /\ b <= t(c)
      BY <1>2, <1>3, <2>3
    <2>5. c \in Splits(order)
      BY <1>0, <2>3, SplitsAre
    <2> QED
      BY <1>2, <2>2, <2>4, <2>5
  <1>6. {Inf} \cup T \in SUBSET Nat
    BY <1>4, InfIsNat
  <1>7. b \in {Inf} \cup T
    BY <1>2, <1>5, InfIsNat
  <1>8. \A y \in {Inf} \cup T : b <= y
    BY <1>2, <1>4
  <1>9. b = Min({Inf} \cup T)
    <2>1. PICK V : V = {Inf} \cup T
      OBVIOUS
    <2>2. V \in SUBSET Nat /\ V # {} /\ b \in V /\ \A y \in V : b <= y
      BY <1>6, <1>7, <1>8, <2>1
    <2>3. Min(V) \in V /\ \A y \in V : Min(V) <= y
      BY <2>2, LeastNat
    <2>4. Min(V) <= b /\ b <= Min(V) /\ Min(V) \in Nat /\ b \in Nat
      BY <2>2, <2>3
    <2> QED
      BY <2>1, <2>4
  <1>10. PICK times : times = [c \in Splits(order) |-> SplitTime(order, hw, links, weight, kv, c)]
    OBVIOUS
  <1>11. DOMAIN times = Splits(order) /\ \A c \in Splits(order) : times[c] = t(c)
    BY <1>10 DEF t
  <1>12. {times[c] : c \in DOMAIN times} = T
    BY <1>11
  <1>13. b = Min({Inf} \cup {times[c] : c \in DOMAIN times})
    BY <1>9, <1>12
  <1>14. b < Inf => times[p.cuts] = b
    BY <1>5, <1>11
  <1> QED
    BY <1>0, <1>a, <1>10, <1>13, <1>14 DEF IsBest

(***************************************************************************)
(* Optimality of the order                                                 *)
(***************************************************************************)

\* A path through all nodes is a route of as many hops.
LEMMA PathRoute ==
    ASSUME NEW N, IsFiniteSet(N), NEW n, n = Cardinality(N), NEW host, NEW p
    PROVE  p \in PathsFrom(host, N) <=> RouteOf(p, n, host, N)
  <1>0. n \in Nat /\ IsFiniteSet(1 .. n) /\ Cardinality(1 .. n) = n
    BY FS_CardinalityType, FS_Interval
  <1>1. ASSUME p \in [1 .. n -> N] PROVE Cardinality(ToSet(p)) = n <=> \A i, k \in 1 .. n : p[i] = p[k] => i = k
    <2>1. PICK S : S = ToSet(p)
      OBVIOUS
    <2>2. S = {p[i] : i \in 1 .. n}
      BY <1>1, <2>1 DEF ToSet
    <2>3. p \in Surjection(1 .. n, S)
      BY <1>1, <2>2 DEF Surjection
    <2>4. Cardinality(S) = n <=> p \in Injection(1 .. n, S)
      BY <1>0, <2>3, FS_Surjection
    <2>5. p \in [1 .. n -> S]
      BY <1>1, <2>2
    <2>6. p \in Injection(1 .. n, S) <=> \A i, k \in 1 .. n : p[i] = p[k] => i = k
      BY <2>5 DEF Injection, IsInjective
    <2> QED
      BY <2>1, <2>4, <2>6
  <1>2. p \in PathsFrom(host, N) <=> p \in [1 .. n -> N] /\ p[1] = host /\ Cardinality(ToSet(p)) = n
    BY DEF PathsFrom
  <1> QED
    BY <1>1, <1>2 DEF RouteOf

\* c[k] is the cost of the first k hops of the tour q.
Legged(c, q, n, cost) ==
    /\ c \in [0 .. n - 1 -> Nat] /\ c[0] = 0
    /\ \A k \in 0 .. n - 2 : c[k + 1] = c[k] + cost[<<q[k + 1], q[k + 2]>>]

Seen(q, k) == {q[i] : i \in 1 .. k}

\* A tour visits every node.
LEMMA SeenAll ==
    ASSUME NEW n \in Nat \ {0}, NEW q, Tour(q, n)
    PROVE  Seen(q, n) = 1 .. n
  <1>1. q \in [1 .. n -> 1 .. n] /\ \A i, k \in 1 .. n : q[i] = q[k] => i = k
    BY DEF Tour
  <1>2. PICK S : S = Seen(q, n)
    OBVIOUS
  <1>3. q \in [1 .. n -> S] /\ S \subseteq 1 .. n
    BY <1>1, <1>2 DEF Seen
  <1>4. q \in Surjection(1 .. n, S) /\ q \in Injection(1 .. n, S)
    BY <1>1, <1>2, <1>3 DEF Seen, Surjection, Injection, IsInjective
  <1>5. IsFiniteSet(1 .. n) /\ Cardinality(1 .. n) = n
    BY FS_Interval
  <1>6. Cardinality(S) = Cardinality(1 .. n)
    BY <1>4, <1>5, FS_Surjection
  <1> QED
    BY <1>2, <1>3, <1>5, <1>6, FS_Subset

\* No tour is cheaper than the table says.
LEMMA TourBound ==
    ASSUME NEW n \in Nat \ {0}, NEW cost, Priced(n, cost), NEW dp, HkFacts(dp, n, cost),
           NEW q, Tour(q, n), NEW c, Legged(c, q, n, cost)
    PROVE  q[n] \in 1 .. n /\ dp[<<1 .. n, q[n]>>] <= c[n - 1]
  <1>0. q \in [1 .. n -> 1 .. n] /\ q[1] = 1 /\ \A i, k \in 1 .. n : q[i] = q[k] => i = k
    BY DEF Tour
  <1> DEFINE Q == {k \in Nat : k <= n - 1 => dp[<<Seen(q, k + 1), q[k + 1]>>] <= c[k]}
  <1>1. 0 \in Q
    <2>1. Seen(q, 0 + 1) = {1} /\ q[0 + 1] = 1
      BY <1>0 DEF Seen
    <2>2. {1} \in SUBSET (1 .. n) /\ 1 \in 1 .. n
      OBVIOUS
    <2>3. dp[<<{1}, 1>>] = 0
      BY <2>2 DEF HkFacts, HkCell
    <2>4. dp[<<Seen(q, 0 + 1), q[0 + 1]>>] = 0 /\ c[0] = 0
      BY <2>1, <2>3 DEF Legged
    <2>5. dp[<<Seen(q, 0 + 1), q[0 + 1]>>] <= c[0]
      BY <2>4
    <2> QED
      BY <2>5
  <1>2. ASSUME NEW k \in Q PROVE k + 1 \in Q
    <2>1. ASSUME k + 1 <= n - 1 PROVE dp[<<Seen(q, (k + 1) + 1), q[(k + 1) + 1]>>] <= c[k + 1]
      <3>1. k \in Nat /\ k + 1 \in 1 .. n /\ k + 2 \in 2 .. n /\ k + 2 \in 1 .. n /\ k \in 0 .. n - 2 /\ k \in 0 .. n - 1 /\ k <= n - 1 /\ (k + 1) + 1 = k + 2
        BY <1>2, <2>1
      <3>2. PICK S, j, i : S = Seen(q, k + 2) /\ j = q[k + 2] /\ i = q[k + 1]
        OBVIOUS
      <3>3. S \ {j} = Seen(q, k + 1)
        <4>1. ASSUME NEW x \in 1 .. k + 1 PROVE q[x] # j
          <5>1. x \in 1 .. n /\ x # k + 2
            BY <3>1, <4>1
          <5> QED
            BY <1>0, <3>1, <3>2, <5>1
        <4>2. 1 .. k + 2 = (1 .. k + 1) \cup {k + 2}
          BY <3>1
        <4> QED
          BY <3>2, <4>1, <4>2 DEF Seen
      <3>4. i \in S \ {j} /\ 1 \in S /\ j \in S /\ S \in SUBSET (1 .. n) /\ j # 1
        <4>1. k + 1 \in 1 .. k + 1 /\ 1 \in 1 .. k + 1 /\ k + 2 \in 1 .. k + 2 /\ 1 .. k + 2 \subseteq 1 .. n /\ 1 \in 1 .. n /\ k + 2 # 1
          BY <3>1
        <4>2. i \in S \ {j} /\ 1 \in S \ {j}
          <5>1. q[k + 1] \in Seen(q, k + 1) /\ q[1] \in Seen(q, k + 1)
            BY <4>1 DEF Seen
          <5> QED
            BY <1>0, <3>2, <3>3, <5>1
        <4>3. j \in S
          <5>1. q[k + 2] \in Seen(q, k + 2)
            BY <4>1 DEF Seen
          <5> QED
            BY <3>2, <5>1
        <4>4. S \in SUBSET (1 .. n)
          <5>1. ASSUME NEW x \in 1 .. k + 2 PROVE q[x] \in 1 .. n
            <6>1. x \in 1 .. n
              BY <4>1
            <6> QED
              BY <1>0, <6>1
          <5> QED
            BY <3>2, <5>1 DEF Seen
        <4> QED
          BY <4>2, <4>3, <4>4
      <3>5. HkReach(S, n, j) /\ S # {1}
        BY <3>4 DEF HkReach
      <3>6. HkHops(dp, cost, n, S, j)
        BY <3>5, HkOption
      <3>7. /\ dp[<<S, j>>] \in Nat /\ dp[<<S \ {j}, i>>] \in Nat /\ cost[<<i, j>>] \in Nat
            /\ dp[<<S, j>>] <= dp[<<S \ {j}, i>>] + cost[<<i, j>>]
        BY <3>4, <3>6 DEF HkHops
      <3>8. dp[<<S \ {j}, i>>] <= c[k]
        BY <1>2, <3>1, <3>2, <3>3
      <3>9. c[k + 1] = c[k] + cost[<<i, j>>] /\ c[k] \in Nat
        BY <3>1, <3>2 DEF Legged
      <3>10. dp[<<S, j>>] <= c[k + 1]
        BY <3>7, <3>8, <3>9
      <3> QED
        BY <3>1, <3>2, <3>10
    <2> QED
      BY <1>2, <2>1
  <1>3. Q \in SUBSET Nat
    OBVIOUS
  <1> HIDE DEF Q
  <1>4. Q = Nat
    BY <1>1, <1>2, <1>3, NatInduct
  <1>5. n - 1 \in Q /\ (n - 1) + 1 = n
    BY <1>4
  <1>6. dp[<<Seen(q, n), q[n]>>] <= c[n - 1]
    BY <1>5 DEF Q
  <1>7. Seen(q, n) = 1 .. n
    BY SeenAll
  <1> QED
    BY <1>0, <1>6, <1>7

\* The cells that are followed back, and the path they give.
TracedBack(f, n, dp, cost) ==
    /\ \A k \in 0 .. n - 1 : BackAt(f, n, dp, k)
    /\ \A k \in 1 .. n - 1 : BackHop(f, dp, cost, k)

Returned(f, n) == [k \in 1 .. n |-> f[n - k][2]]

\* The path that is followed back costs what the table says.
LEMMA BackCost ==
    ASSUME NEW n \in Nat \ {0}, NEW cost, NEW dp, HkFacts(dp, n, cost),
           NEW f, TracedBack(f, n, dp, cost), NEW q, q = Returned(f, n), NEW c, Legged(c, q, n, cost)
    PROVE  dp[f[0]] = c[n - 1]
  <1> DEFINE Q == {k \in Nat : k <= n - 1 => dp[f[n - 1 - k]] = c[k]}
  <1>1. 0 \in Q
    <2>1. n - 1 \in 0 .. n - 1 /\ n - 1 - 0 = n - 1
      OBVIOUS
    <2>2. BackAt(f, n, dp, n - 1)
      BY <2>1 DEF TracedBack
    <2>3. PICK S, j : S = f[n - 1][1] /\ j = f[n - 1][2]
      OBVIOUS
    <2>4. f[n - 1] = <<S, j>> /\ HkReach(S, n, j) /\ Cardinality(S) = 1
      BY <2>2, <2>3 DEF BackAt, HkGood
    <2>5. S \in SUBSET (1 .. n) /\ 1 \in S /\ j \in S
      BY <2>4 DEF HkReach
    <2>6. IsFiniteSet(S)
      BY <2>5, RangeSet
    <2>7. PICK x : S = {x}
      BY <2>4, <2>6, FS_Singleton
    <2>8. S = {1} /\ j = 1
      BY <2>5, <2>7
    <2>9. {1} \in SUBSET (1 .. n) /\ 1 \in 1 .. n
      OBVIOUS
    <2>10. dp[<<{1}, 1>>] = 0
      BY <2>9 DEF HkFacts, HkCell
    <2> QED
      BY <2>1, <2>4, <2>8, <2>10 DEF Legged
  <1>2. ASSUME NEW k \in Q PROVE k + 1 \in Q
    <2>1. ASSUME k + 1 <= n - 1 PROVE dp[f[n - 1 - (k + 1)]] = c[k + 1]
      <3>1. PICK x : x = n - 1 - k
        OBVIOUS
      <3>2. /\ k \in Nat /\ x \in 1 .. n - 1 /\ x - 1 = n - 1 - (k + 1) /\ k <= n - 1 /\ k \in 0 .. n - 2
            /\ k + 1 \in 1 .. n /\ k + 2 \in 1 .. n /\ n - (k + 1) = x /\ n - (k + 2) = x - 1
        BY <1>2, <2>1, <3>1
      <3>3. dp[f[x]] + cost[<<f[x][2], f[x - 1][2]>>] = dp[f[x - 1]]
        BY <3>2 DEF BackHop, TracedBack
      <3>4. q[k + 1] = f[x][2] /\ q[k + 2] = f[x - 1][2]
        BY <3>2 DEF Returned
      <3>5. dp[f[x]] = c[k]
        BY <1>2, <3>1, <3>2
      <3>6. c[k + 1] = c[k] + cost[<<q[k + 1], q[k + 2]>>]
        BY <3>2 DEF Legged
      <3> QED
        BY <3>2, <3>3, <3>4, <3>5, <3>6
    <2> QED
      BY <1>2, <2>1
  <1>3. Q \in SUBSET Nat
    OBVIOUS
  <1> HIDE DEF Q
  <1>4. Q = Nat
    BY <1>1, <1>2, <1>3, NatInduct
  <1>5. n - 1 \in Q /\ n - 1 - (n - 1) = 0
    BY <1>4
  <1> QED
    BY <1>5 DEF Q

\* The cost of a route, hop by hop.
Legs(r, n, links) == [i \in 1 .. n - 1 |-> edgeCost(links, r[i], r[i + 1])]

CostTo(r, n, links) == [k \in 0 .. n - 1 |-> SumAt(Legs(r, n, links), 1 .. k)]

CostSteps(c, r, n, links) ==
    /\ c \in [0 .. n - 1 -> Nat] /\ c[0] = 0 /\ c[n - 1] = orderCost(r, links)
    /\ \A k \in 0 .. n - 2 : c[k + 1] = c[k] + edgeCost(links, r[k + 1], r[k + 2])

\* The cost of a route grows hop by hop.
LEMMA CostGrows ==
    ASSUME NEW n \in Nat \ {0}, NEW N, NEW links, EdgesIn(links, N), NEW r \in [1 .. n -> N],
           NEW c, c = CostTo(r, n, links)
    PROVE  CostSteps(c, r, n, links)
  <1>0. PICK g : g = Legs(r, n, links)
    OBVIOUS
  <1>1. ASSUME NEW i \in 1 .. n - 1 PROVE g[i] = edgeCost(links, r[i], r[i + 1]) /\ g[i] \in Nat
    <2>1. r[i] \in N /\ r[i + 1] \in N
      OBVIOUS
    <2> QED
      BY <1>0, <2>1 DEF Legs, EdgesIn
  <1>2. ASSUME NEW k \in 0 .. n - 1 PROVE IsFiniteSet(1 .. k) /\ Nats(g, 1 .. k) /\ c[k] = SumAt(g, 1 .. k)
    <2>1. IsFiniteSet(1 .. k)
      BY FS_Interval
    <2>2. 1 .. k \subseteq 1 .. n - 1
      OBVIOUS
    <2>3. Nats(g, 1 .. k)
      BY <1>1, <2>2 DEF Nats
    <2> QED
      BY <1>0, <2>1, <2>3 DEF CostTo
  <1>3. ASSUME NEW k \in 0 .. n - 1 PROVE c[k] \in Nat
    BY <1>2, SumAtNat
  <1>4. c \in [0 .. n - 1 -> Nat]
    BY <1>3 DEF CostTo
  <1>5. c[0] = 0
    <2>1. 0 \in 0 .. n - 1 /\ 1 .. 0 = {}
      OBVIOUS
    <2> QED
      BY <1>2, <2>1, SumAtEmpty
  <1>6. ASSUME NEW k \in 0 .. n - 2 PROVE c[k + 1] = c[k] + edgeCost(links, r[k + 1], r[k + 2])
    <2>1. k \in 0 .. n - 1 /\ k + 1 \in 0 .. n - 1 /\ k + 1 \in 1 .. n - 1 /\ k + 1 \notin 1 .. k /\ 1 .. k + 1 = (1 .. k) \cup {k + 1} /\ (k + 1) + 1 = k + 2
      OBVIOUS
    <2>2. IsFiniteSet(1 .. k) /\ Nats(g, 1 .. k) /\ g[k + 1] \in Nat
      BY <1>1, <1>2, <2>1
    <2>3. SumAt(g, (1 .. k) \cup {k + 1}) = g[k + 1] + SumAt(g, 1 .. k)
      BY <2>1, <2>2, SumAtAdd
    <2>4. c[k + 1] = g[k + 1] + c[k] /\ c[k] \in Nat
      BY <1>2, <1>3, <2>1, <2>3
    <2>5. g[k + 1] = edgeCost(links, r[k + 1], r[k + 2])
      BY <1>1, <2>1
    <2> QED
      BY <2>2, <2>4, <2>5
  <1>7. c[n - 1] = orderCost(r, links)
    <2>1. n - 1 \in 0 .. n - 1 /\ Len(r) = n
      OBVIOUS
    <2>2. Part(g, 1 .. n - 1) = g
      BY <1>0 DEF Part, Legs
    <2>3. orderCost(r, links) = SumOf(g)
      BY <1>0, <2>1 DEF orderCost, SumOf, Legs
    <2> QED
      BY <1>2, <2>1, <2>2, <2>3 DEF SumAt
  <1> QED
    BY <1>4, <1>5, <1>6, <1>7 DEF CostSteps

\* The nodes of start in the order of q.
Visited(start, q, n) == [k \in 1 .. n |-> start[q[k]]]

\* A route of start's nodes is a tour of their indices.
LEMMA RouteTour ==
    ASSUME NEW N, IsFiniteSet(N), NEW n \in Nat \ {0}, n = Cardinality(N), NEW host, NEW start, RouteOf(start, n, host, N),
           NEW p, RouteOf(p, n, host, N)
    PROVE  \E q : Tour(q, n) /\ p = Visited(start, q, n)
  <1>0. start \in [1 .. n -> N] /\ start[1] = host /\ \A i, k \in 1 .. n : start[i] = start[k] => i = k
    BY DEF RouteOf
  <1>1. ASSUME NEW x \in N PROVE \E k \in 1 .. n : start[k] = x
    <2>1. PICK S : S = {start[k] : k \in 1 .. n}
      OBVIOUS
    <2>2. start \in [1 .. n -> S] /\ S \subseteq N
      BY <1>0, <2>1
    <2>3. start \in Surjection(1 .. n, S) /\ start \in Injection(1 .. n, S)
      BY <1>0, <2>1, <2>2 DEF Surjection, Injection, IsInjective
    <2>4. IsFiniteSet(1 .. n) /\ Cardinality(1 .. n) = n
      BY FS_Interval
    <2>5. Cardinality(S) = Cardinality(N)
      BY <2>3, <2>4, FS_Surjection
    <2>6. S = N
      BY <2>2, <2>5, FS_Subset
    <2> QED
      BY <2>1, <2>6
  <1>2. p \in [1 .. n -> N] /\ p[1] = host /\ \A i, k \in 1 .. n : p[i] = p[k] => i = k
    BY DEF RouteOf
  <1>3. PICK q : q = [i \in 1 .. n |-> CHOOSE k \in 1 .. n : start[k] = p[i]]
    OBVIOUS
  <1>4. ASSUME NEW i \in 1 .. n PROVE q[i] \in 1 .. n /\ start[q[i]] = p[i]
    <2>1. \E k \in 1 .. n : start[k] = p[i]
      BY <1>1, <1>2
    <2> QED
      BY <1>3, <2>1
  <1>5. q \in [1 .. n -> 1 .. n]
    BY <1>3, <1>4
  <1>6. 1 \in 1 .. n
    OBVIOUS
  <1>7. q[1] = 1
    BY <1>0, <1>2, <1>4, <1>6
  <1>8. ASSUME NEW i \in 1 .. n, NEW k \in 1 .. n, q[i] = q[k] PROVE i = k
    BY <1>2, <1>4, <1>8
  <1>9. Tour(q, n)
    BY <1>5, <1>7, <1>8 DEF Tour
  <1>10. p = Visited(start, q, n)
    BY <1>2, <1>4 DEF Visited
  <1> QED
    BY <1>9, <1>10

LeggedAs(q, n, start, links, p) ==
    /\ Legged(CostTo(p, n, links), q, n, CostsOf(start, links))
    /\ CostTo(p, n, links)[n - 1] = orderCost(p, links)

\* The cost of a route is the cost of its tour.
LEMMA RouteLegged ==
    ASSUME NEW N, NEW n \in Nat \ {0}, NEW host, NEW start, RouteOf(start, n, host, N), Len(start) = n,
           NEW links, EdgesIn(links, N), NEW q, Tour(q, n), NEW p, p = Visited(start, q, n)
    PROVE  LeggedAs(q, n, start, links, p)
  <1>0. start \in [1 .. n -> N] /\ q \in [1 .. n -> 1 .. n]
    BY DEF RouteOf, Tour
  <1>1. p \in [1 .. n -> N]
    BY <1>0 DEF Visited
  <1>2. PICK c : c = CostTo(p, n, links)
    OBVIOUS
  <1>3. /\ c \in [0 .. n - 1 -> Nat] /\ c[0] = 0 /\ c[n - 1] = orderCost(p, links)
        /\ \A k \in 0 .. n - 2 : c[k + 1] = c[k] + edgeCost(links, p[k + 1], p[k + 2])
    <2>1. CostSteps(c, p, n, links)
      BY <1>1, <1>2, CostGrows
    <2> QED
      BY <2>1 DEF CostSteps
  <1>4. ASSUME NEW k \in 0 .. n - 2 PROVE CostsOf(start, links)[<<q[k + 1], q[k + 2]>>] = edgeCost(links, p[k + 1], p[k + 2])
    <2>1. k + 1 \in 1 .. n /\ k + 2 \in 1 .. n
      OBVIOUS
    <2>2. PICK a, b : a = q[k + 1] /\ b = q[k + 2]
      OBVIOUS
    <2>3. a \in 1 .. n /\ b \in 1 .. n /\ p[k + 1] = start[a] /\ p[k + 2] = start[b]
      BY <1>0, <2>1, <2>2 DEF Visited
    <2>4. CostsOf(start, links)[<<a, b>>] = edgeCost(links, start[a], start[b])
      BY <2>3 DEF CostsOf
    <2> QED
      BY <2>2, <2>3, <2>4
  <1>5. Legged(c, q, n, CostsOf(start, links))
    BY <1>3, <1>4 DEF Legged
  <1> QED
    BY <1>2, <1>3, <1>5 DEF LeggedAs

\* heldKarpPath: no path through the nodes from the host is cheaper.
LEMMA HeldKarpShortest ==
    ASSUME NEW D \in Nat \ {0}, NEW N, IsFiniteSet(N), NEW n \in Nat \ {0}, n = Cardinality(N), n <= D, NEW links, Cheap(N, links, D), NEW host,
           NEW start, RouteOf(start, n, host, N), Len(start) = n, NEW p, RouteOf(p, n, host, N)
    PROVE  orderCost(heldKarpPath(start, links), links) <= orderCost(p, links)
  <1>0. EdgesIn(links, N)
    BY DEF Cheap, EdgesIn
  <1>a. start \in [1 .. n -> N] /\ p \in [1 .. n -> N] /\ start[1] = p[1]
    BY DEF RouteOf
  <1>b. orderCost(p, links) \in Nat
    BY <1>0, <1>a, OrderCostNat
  <1>1. CASE n = 1
    <2>1. heldKarpPath(start, links) = start
      BY <1>1 DEF heldKarpPath
    <2>2. start = p
      <3>1. \A i \in 1 .. n : start[i] = p[i]
        BY <1>a, <1>1
      <3> QED
        BY <1>a, <3>1
    <2> QED
      BY <1>b, <2>1, <2>2
  <1>2. CASE n # 1
    <2>0. n >= 2
      BY <1>2
    <2>1. PICK c \in Nat : Bounded(start, links, c) /\ n * c < Inf
      BY <1>a, <2>0, CheapBounded
    <2>2. PICK f : HeldKarpBack(start, links, f)
      BY <2>0, <2>1, HeldKarpHolds
    <2>3. PICK cost, dp : cost = CostsOf(start, links) /\ dp = hkTable(n, cost)
      OBVIOUS
    <2>4. /\ HkFacts(dp, n, cost) /\ Priced(n, cost)
          /\ heldKarpPath(start, links) = [k \in 1 .. n |-> start[f[n - k][2]]]
          /\ \A k \in 0 .. n - 1 : BackAt(f, n, dp, k)
          /\ \A k \in 1 .. n - 1 : BackHop(f, dp, cost, k)
          /\ \A k \in 1 .. n : dp[f[0]] <= dp[<<1 .. n, k>>]
      BY <2>2, <2>3 DEF HeldKarpBack
    <2>5. PICK q, h : q = Returned(f, n) /\ h = Visited(start, q, n)
      OBVIOUS
    <2>6. Tour(q, n)
      BY <2>4, <2>5, BackTour DEF Returned
    <2>7. heldKarpPath(start, links) = h
      BY <2>4, <2>5 DEF Returned, Visited
    <2>8. LeggedAs(q, n, start, links, h)
      BY <1>0, <2>5, <2>6, RouteLegged
    <2>9. dp[f[0]] = orderCost(h, links)
      <3>1. PICK g : g = CostTo(h, n, links)
        OBVIOUS
      <3>2. Legged(g, q, n, cost) /\ g[n - 1] = orderCost(h, links)
        BY <2>3, <2>8, <3>1 DEF LeggedAs
      <3>3. TracedBack(f, n, dp, cost)
        BY <2>4 DEF TracedBack
      <3>4. dp[f[0]] = g[n - 1]
        BY <2>4, <2>5, <3>2, <3>3, BackCost
      <3> QED
        BY <3>2, <3>4
    <2>10. PICK r : Tour(r, n) /\ p = Visited(start, r, n)
      BY RouteTour
    <2>11. LeggedAs(r, n, start, links, p)
      BY <1>0, <2>10, RouteLegged
    <2>12. r[n] \in 1 .. n /\ dp[<<1 .. n, r[n]>>] <= orderCost(p, links)
      <3>1. PICK g : g = CostTo(p, n, links)
        OBVIOUS
      <3>2. Legged(g, r, n, cost) /\ g[n - 1] = orderCost(p, links)
        BY <2>3, <2>11, <3>1 DEF LeggedAs
      <3>3. r[n] \in 1 .. n /\ dp[<<1 .. n, r[n]>>] <= g[n - 1]
        BY <2>4, <2>10, <3>2, TourBound
      <3> QED
        BY <3>2, <3>3
    <2>13. dp[f[0]] <= dp[<<1 .. n, r[n]>>]
      BY <2>4, <2>12
    <2>14. dp[<<1 .. n, r[n]>>] \in Nat
      <3>1. <<1 .. n, r[n]>> \in Cells(n)
        BY <2>12 DEF Cells
      <3> QED
        BY <2>4, <3>1 DEF HkFacts
    <2>15. orderCost(h, links) \in Nat
      <3>1. h \in [1 .. n -> N]
        BY <1>a, <2>5, <2>6 DEF Tour, Visited
      <3> QED
        BY <1>0, <3>1, OrderCostNat
    <2> QED
      BY <1>b, <2>7, <2>9, <2>12, <2>13, <2>14, <2>15
  <1> QED
    BY <1>1, <1>2

(***************************************************************************)
(* Optimality                                                              *)
(***************************************************************************)

\* orderNodes: no path from the host is cheaper when the fleet is within the threshold.
LEMMA OrderShortest ==
    ASSUME NEW N \in SUBSET Nat, IsFiniteSet(N), N # {}, NEW n, n = Cardinality(N), NEW D \in Nat, n <= D, n <= HKThreshold,
           NEW hw, Ranked(N, hw), NEW links, Cheap(N, links, D), NEW forceHost, NEW host, host = chooseHost(N, hw, forceHost),
           NEW p, RouteOf(p, n, host, N)
    PROVE  orderCost(orderNodes(N, hw, links, forceHost), links) <= orderCost(p, links)
  <1> DEFINE key == [x \in N |-> 0]
  <1>0. n \in Nat \ {0} /\ D \in Nat \ {0}
    <2>1. n \in Nat /\ n # 0
      BY FS_EmptySet, FS_CardinalityType
    <2> QED
      BY <2>1
  <1>1. Keyed(N, key)
    BY DEF Keyed
  <1>2. PICK s : s = sortedBy(N, key)
    OBVIOUS
  <1>3. s \in [1 .. n -> N] /\ (\A i, k \in 1 .. n : s[i] = s[k] => i = k) /\ (\A x \in N : \E i \in 1 .. n : s[i] = x)
    <2> HIDE DEF key
    <2> QED
      BY <1>1, <1>2, SortedHolds
  <1>4. Len(s) = n
    BY <1>0, <1>3
  <1>5. host \in N
    BY HostIn
  <1>6. PICK at : at = CHOOSE i \in 1 .. Len(s) : s[i] = host
    OBVIOUS
  <1>7. at \in 1 .. n /\ s[at] = host
    BY <1>3, <1>4, <1>5, <1>6
  <1>8. PICK t : t = Swapped(s, at, host)
    OBVIOUS
  <1>a. Distinct(s, n)
    BY <1>3 DEF Distinct
  <1>b. s \in [1 .. n -> N]
    BY <1>3
  <1>9. RouteOf(t, n, host, N) /\ Len(t) = n
    <2>1. ASSUME NEW a \in 1 .. n, NEW h, s[a] = h PROVE RouteOf(Swapped(s, a, h), n, h, N) /\ Len(Swapped(s, a, h)) = n
      BY <1>0, <1>a, <1>b, <2>1, SwapHolds
    <2> QED
      BY <1>7, <1>8, <2>1
  <1>10. orderNodes(N, hw, links, forceHost) =
            IF Len(s) <= HKThreshold THEN heldKarpPath(t, links) ELSE twoOptImprove(nearestNeighborOrder(t, links), links)
    BY <1>2, <1>6, <1>8 DEF orderNodes, Swapped
  <1>11. orderNodes(N, hw, links, forceHost) = heldKarpPath(t, links)
    BY <1>4, <1>10
  <1>12. orderCost(heldKarpPath(t, links), links) <= orderCost(p, links)
    BY <1>0, <1>9, HeldKarpShortest
  <1> QED
    BY <1>11, <1>12

Joined(t, a, b, N) ==
    /\ t \in Seq(N) /\ Len(t) = Len(a) + Len(b)
    /\ \A k \in 1 .. Len(a) + Len(b) : t[k] = IF k <= Len(a) THEN a[k] ELSE b[k - Len(a)]

\* Concatenation.
LEMMA ConcatFacts ==
    ASSUME NEW N, NEW a \in Seq(N), NEW b \in Seq(N)
    PROVE  Joined(a \o b, a, b, N)
  <1>1. a \o b \in Seq(N)
    OBVIOUS
  <1>2. Len(a \o b) = Len(a) + Len(b) /\ Len(a) \in Nat /\ Len(b) \in Nat
    OBVIOUS
  <1>3. ASSUME NEW k \in 1 .. Len(a) + Len(b) PROVE (a \o b)[k] = IF k <= Len(a) THEN a[k] ELSE b[k - Len(a)]
    OBVIOUS
  <1> QED
    BY <1>1, <1>2, <1>3 DEF Joined

\* The host before the other nodes in the order of their numbers.
HostThenRest(N, host) == <<host>> \o sortedBy(N \ {host}, [x \in N |-> 0])

LEMMA HostFirst ==
    ASSUME NEW N \in SUBSET Nat, IsFiniteSet(N), NEW n, n = Cardinality(N), NEW host \in N,
           NEW t, t = HostThenRest(N, host)
    PROVE  n \in Nat \ {0} /\ RouteOf(t, n, host, N) /\ Len(t) = n
  <1>0. n \in Nat \ {0} /\ IsFiniteSet(N \ {host}) /\ Cardinality(N \ {host}) = n - 1
    <2>1. n \in Nat /\ n # 0
      BY FS_EmptySet, FS_CardinalityType
    <2>2. IsFiniteSet(N \ {host}) /\ Cardinality(N \ {host}) = n - 1
      BY FS_RemoveElement
    <2> QED
      BY <2>1, <2>2
  <1>1. PICK S, key : S = N \ {host} /\ key = [x \in N |-> 0]
    OBVIOUS
  <1>2. PICK s : s = sortedBy(S, key)
    OBVIOUS
  <1>3. Keyed(S, key)
    BY <1>1 DEF Keyed
  <1>4. S \in SUBSET Nat /\ IsFiniteSet(S) /\ Cardinality(S) = n - 1
    BY <1>0, <1>1
  <1>5. s \in [1 .. n - 1 -> S] /\ \A i, k \in 1 .. n - 1 : s[i] = s[k] => i = k
    BY <1>2, <1>3, <1>4, SortedHolds
  <1>6. t = <<host>> \o s
    BY <1>1, <1>2 DEF HostThenRest
  <1>7. s \in [1 .. n - 1 -> N] /\ \A k \in 1 .. n - 1 : s[k] # host
    BY <1>1, <1>5
  <1>8. s \in Seq(N) /\ Len(s) = n - 1
    <2>1. PICK m : m = n - 1
      OBVIOUS
    <2>2. m \in Nat /\ s \in [1 .. m -> N]
      BY <1>0, <1>7, <2>1
    <2>3. s \in Seq(N) /\ Len(s) = m
      BY <2>2
    <2> QED
      BY <2>1, <2>3
  <1>9. /\ t \in Seq(N) /\ Len(t) = n /\ t[1] = host
        /\ \A k \in 2 .. n : t[k] = s[k - 1]
    <2>1. PICK u : u = <<host>>
      OBVIOUS
    <2>2. u \in Seq(N) /\ Len(u) = 1 /\ u[1] = host
      BY <2>1
    <2>3. t = u \o s
      BY <1>6, <2>1
    <2>4. /\ t \in Seq(N) /\ Len(t) = Len(u) + Len(s)
          /\ \A k \in 1 .. Len(u) + Len(s) : t[k] = IF k <= Len(u) THEN u[k] ELSE s[k - Len(u)]
      <3>1. Joined(u \o s, u, s, N)
        BY <1>8, <2>2, ConcatFacts
      <3> QED
        BY <2>3, <3>1 DEF Joined
    <2>5. Len(u) + Len(s) = n /\ Len(u) = 1
      BY <1>0, <1>8, <2>2
    <2>6. \A k \in 1 .. n : t[k] = IF k <= 1 THEN u[k] ELSE s[k - 1]
      BY <2>4, <2>5
    <2>7. t[1] = host
      BY <1>0, <2>2, <2>6
    <2>8. ASSUME NEW k \in 2 .. n PROVE t[k] = s[k - 1]
      BY <1>0, <2>6
    <2> QED
      BY <2>4, <2>5, <2>7, <2>8
  <1>10. t \in [1 .. n -> N]
    BY <1>9, SeqIsFunction
  <1>11. ASSUME NEW i \in 1 .. n, NEW k \in 1 .. n, t[i] = t[k] PROVE i = k
    <2>1. CASE i = 1 /\ k = 1
      BY <2>1
    <2>2. CASE i = 1 /\ k # 1
      <3>1. k \in 2 .. n /\ k - 1 \in 1 .. n - 1
        BY <1>0, <2>2
      <3> QED
        BY <1>7, <1>9, <1>11, <2>2, <3>1
    <2>3. CASE i # 1 /\ k = 1
      <3>1. i \in 2 .. n /\ i - 1 \in 1 .. n - 1
        BY <1>0, <2>3
      <3> QED
        BY <1>7, <1>9, <1>11, <2>3, <3>1
    <2>4. CASE i # 1 /\ k # 1
      <3>1. i \in 2 .. n /\ i - 1 \in 1 .. n - 1 /\ k \in 2 .. n /\ k - 1 \in 1 .. n - 1
        BY <1>0, <2>4
      <3>2. s[i - 1] = s[k - 1]
        BY <1>9, <1>11, <3>1
      <3>3. i - 1 = k - 1
        BY <1>5, <3>1, <3>2
      <3> QED
        BY <3>1, <3>3
    <2> QED
      BY <2>1, <2>2, <2>3, <2>4
  <1> QED
    BY <1>0, <1>9, <1>10, <1>11 DEF RouteOf

\* OrderOptimal holds of every job.
LEMMA OrderIsOptimal ==
    ASSUME job \in Jobs
    PROVE  OrderOptimal
  <1> SUFFICES ASSUME DOMAIN job.hw # {}
      PROVE  LET nodes == DOMAIN job.hw
                 host == chooseHost(nodes, job.hw, job.host)
                 cost(p) == orderCost(p, job.links)
                 isShort(order) ==
                     /\ order \in PathsFrom(host, nodes)
                     /\ Cardinality(nodes) <= HKThreshold => \A p \in PathsFrom(host, nodes) : cost(order) <= cost(p)
                 improves(greedy) == cost(twoOptImprove(greedy, job.links)) <= cost(greedy)
             IN  /\ isShort(orderNodes(nodes, job.hw, job.links, job.host))
                 /\ improves(nearestNeighborOrder(<<host>> \o sortedBy(nodes \ {host}, [n \in nodes |-> 0]), job.links))
    BY DEF OrderOptimal
  <1>0. PICK N, n, host, D : N = DOMAIN job.hw /\ n = Cardinality(N) /\ host = chooseHost(N, job.hw, job.host) /\ D = FleetSize(job)
    OBVIOUS
  <1>1. /\ N \in SUBSET Nat /\ IsFiniteSet(N) /\ n \in Nat /\ D \in Nat /\ n <= D
        /\ Ranked(N, job.hw) /\ Cheap(N, job.links, D)
    BY <1>0, JobNodes
  <1>2. N # {}
    BY <1>0
  <1>3. PICK order : order = orderNodes(N, job.hw, job.links, job.host)
    OBVIOUS
  <1>4. RouteOf(order, n, host, N)
    BY <1>0, <1>1, <1>2, <1>3, OrderHolds
  <1>5. order \in PathsFrom(host, N)
    BY <1>0, <1>1, <1>4, PathRoute
  <1>6. ASSUME n <= HKThreshold, NEW p \in PathsFrom(host, N) PROVE orderCost(order, job.links) <= orderCost(p, job.links)
    <2>1. RouteOf(p, n, host, N)
      BY <1>0, <1>1, <1>6, PathRoute
    <2> QED
      BY <1>0, <1>1, <1>2, <1>3, <1>6, <2>1, OrderShortest
  <1>7. host \in N
    BY <1>0, <1>1, <1>2, HostIn
  <1>8. PICK t, g : t = HostThenRest(N, host) /\ g = nearestNeighborOrder(t, job.links)
    OBVIOUS
  <1>9. n \in Nat \ {0} /\ RouteOf(t, n, host, N) /\ Len(t) = n
    BY <1>0, <1>1, <1>7, <1>8, HostFirst
  <1>10. EdgesIn(job.links, N)
    BY <1>1 DEF Cheap, EdgesIn
  <1>11. RouteOf(g, n, host, N)
    BY <1>8, <1>9, <1>10, NearestHolds
  <1>12. orderCost(twoOptImprove(g, job.links), job.links) <= orderCost(g, job.links)
    BY <1>1, <1>10, <1>11, ImproveHolds DEF Within
  <1> QED
    BY <1>0, <1>3, <1>5, <1>6, <1>8, <1>12 DEF HostThenRest

\* DPOptimal holds of every job.
LEMMA PartitionIsOptimal ==
    ASSUME job \in Jobs
    PROVE  DPOptimal
  <1> SUFFICES ASSUME DOMAIN job.hw # {}, NEW q \in DOMAIN job.quants, NEW order,
                      order = orderNodes(DOMAIN job.hw, job.hw, job.links, job.host)
               PROVE  IsBest(dpPartition(order, job.hw, job.links, job.quants[q], job.kv), order, job.hw, job.links, job.quants[q], job.kv)
    BY DEF DPOptimal, IsBest
  <1>0. PICK N, n, host, D, hw, links :
            /\ N = DOMAIN job.hw /\ n = Cardinality(N) /\ host = chooseHost(N, job.hw, job.host) /\ D = FleetSize(job)
            /\ hw = job.hw /\ links = job.links
    OBVIOUS
  <1>1. /\ N \in SUBSET Nat /\ IsFiniteSet(N) /\ n \in Nat /\ D \in Nat /\ n <= D
        /\ Ranked(N, hw) /\ Cheap(N, links, D) /\ MachinesOn(N, hw) /\ LinksOn(N, links)
    BY <1>0, JobNodes
  <1>2. N # {}
    BY <1>0
  <1>3. RouteOf(order, n, host, N)
    BY <1>0, <1>1, <1>2, OrderHolds
  <1>4. order \in [1 .. n -> N] /\ Len(order) = n
    BY <1>1, <1>3 DEF RouteOf
  <1>5. PICK weight : weight = job.quants[q]
    OBVIOUS
  <1>6. weight \in Nat
    BY <1>5, JobsAssumption
  <1>7. Times(Len(order), stageTimes(order, hw, links, weight, job.kv))
    <2>1. \A k \in 1 .. Len(order) : Machine(hw[order[k]])
      BY <1>1, <1>4 DEF MachinesOn
    <2>2. Linked(order, links)
      <3>1. ASSUME NEW k \in 2 .. Len(order) PROVE links[order[k - 1]][order[k]] \in Nat
        <4>1. k - 1 \in 1 .. n /\ k \in 1 .. n
          BY <1>1, <1>4
        <4>2. order[k - 1] \in N /\ order[k] \in N
          BY <1>4, <4>1
        <4> QED
          BY <1>1, <4>2 DEF LinksOn
      <3> QED
        BY <3>1 DEF Linked
    <2>3. Len(order) \in Nat
      BY <1>1, <1>4
    <2> QED
      BY <1>6, <2>1, <2>2, <2>3, StageTimesNat
  <1>8. IsBest(dpPartition(order, hw, links, weight, job.kv), order, hw, links, weight, job.kv)
    BY <1>1, <1>4, <1>7, PartitionBest
  <1> QED
    BY <1>0, <1>5, <1>8

\* The inductive invariant names a job, so both hold.
LEMMA PlannerInvOptimal ==
    PlannerInv => DPOptimal /\ OrderOptimal
  BY PartitionIsOptimal, OrderIsOptimal DEF PlannerInv

\* The planner's searches, for every job it serves: the partition attains the least bottleneck
\* of all splits, the exact order is a shortest path from the host, and 2-opt never ends dearer
\* than the greedy path.
THEOREM PlannerOptimal ==
    PlannerSpec => [](DPOptimal /\ OrderOptimal)
  BY PlannerInvInit, PlannerInvNext, PlannerInvOptimal, PTL DEF PlannerSpec
=============================================================================
